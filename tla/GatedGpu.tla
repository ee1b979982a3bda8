------------------------------ MODULE GatedGpu ------------------------------
(***************************************************************************)
(* What GPU ownership promises: one run at a time is responsible for the   *)
(* device, its clock policy moves and work runs on it only under that      *)
(* responsibility, and responsibility is given back only with the policy   *)
(* at AUTO and the run's work off the device.  Crashes do not appear: a    *)
(* dead run simply stays responsible until somebody finishes for it.       *)
(***************************************************************************)
CONSTANTS Run, Policy, Auto

VARIABLES responsible, policy, working

Init == responsible = {} /\ policy = Auto /\ working = {}

(* A run becomes responsible for an idle device at AUTO.                    *)
Take(r) ==
  /\ responsible = {} /\ policy = Auto /\ working = {}
  /\ responsible' = {r}
  /\ UNCHANGED <<policy, working>>

SetPolicy ==
  /\ responsible # {}
  /\ policy' \in Policy
  /\ UNCHANGED <<responsible, working>>

BeginWork(r) ==
  /\ r \in responsible
  /\ working' = working \cup {r}
  /\ UNCHANGED <<responsible, policy>>

EndWork(r) ==
  /\ r \in working
  /\ working' = working \ {r}
  /\ UNCHANGED <<responsible, policy>>

GiveBack(r) ==
  /\ responsible = {r} /\ r \notin working /\ policy = Auto
  /\ responsible' = {}
  /\ UNCHANGED <<policy, working>>

Next ==
  \/ SetPolicy
  \/ \E r \in Run : Take(r) \/ BeginWork(r) \/ EndWork(r) \/ GiveBack(r)

vars == <<responsible, policy, working>>
Spec == Init /\ [][Next]_vars
=============================================================================
