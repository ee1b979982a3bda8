------------------------------ MODULE GatedRelease ------------------------------
(***************************************************************************)
(* What qualification promises of a release (docs/user/GPU-QUALIFICATION): *)
(* for each configuration the stages pass in their order, and nothing is   *)
(* measured before the last of them has passed.                            *)
(***************************************************************************)
EXTENDS Naturals

CONSTANTS
  Conf,    \* configurations a plan can be qualified and run with
  Stages   \* how many stages there are

VARIABLES
  passed,    \* the stages that passed, each for a configuration
  measured   \* the configurations formal results were measured under

Init == passed = {} /\ measured = {}

Pass(s, v) ==
  /\ s > 1 => << s - 1, v >> \in passed
  /\ passed' = passed \cup {<< s, v >>}
  /\ UNCHANGED measured

Measure(v) ==
  /\ << Stages, v >> \in passed
  /\ measured' = measured \cup {v}
  /\ UNCHANGED passed

Next == \E v \in Conf : Measure(v) \/ \E s \in 1 .. Stages : Pass(s, v)

Spec == Init /\ [][Next]_<< passed, measured >>
===============================================================================
