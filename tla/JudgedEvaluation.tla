--------------------------- MODULE JudgedEvaluation ---------------------------
(***************************************************************************)
(* What one evaluation promises whoever reads its traces: the workloads    *)
(* are judged in order, each once; a workload passes only when every       *)
(* invocation that was timed has been validated, each once and while its   *)
(* workload was the one being judged; and an evaluation is accepted only   *)
(* when no workload is missing.                                            *)
(***************************************************************************)
EXTENDS Naturals, Sequences

CONSTANTS
  Rows,                \* how many workloads there are
  Trials, Warmup, Iterations

VARIABLES
  traces,     \* what was said about the workloads, in order
  validated,  \* the invocations found right
  hpc         \* "running", and then what became of the evaluation

Invocation(r, t, i) == [row |-> r, trial |-> t, iter |-> i]

\* In every trial the warmup calls and one or more timed ones, without a gap.
Measured(r, calls) ==
  \A t \in 1 .. Trials : \E n \in Warmup + 1 .. Warmup + Iterations :
    \A i \in 0 .. n - 1 : Invocation(r, t, i) \in calls

Init == traces = << >> /\ validated = {} /\ hpc = "running"

Validate ==
  /\ hpc = "running"
  /\ \E t \in 1 .. Trials, i \in 0 .. Warmup + Iterations - 1 :
       LET c == Invocation(Len(traces) + 1, t, i) IN
         /\ c \notin validated
         /\ validated' = validated \cup {c}
  /\ UNCHANGED << traces, hpc >>

Judge(status) ==
  /\ hpc = "running" /\ Len(traces) < Rows
  /\ status = "PASSED" => Measured(Len(traces) + 1, validated)
  /\ traces' = Append(traces, [row |-> Len(traces) + 1, status |-> status])
  /\ UNCHANGED << validated, hpc >>

Conclude(end) ==
  /\ hpc = "running"
  /\ end = "accepted" => Len(traces) = Rows
  /\ hpc' = end
  /\ UNCHANGED << traces, validated >>

Status == {"PASSED", "INVALID_REFERENCE", "INCORRECT", "RUNTIME_ERROR", "REWARD_HACK"}

Next ==
  \/ Validate
  \/ \E status \in Status : Judge(status)
  \/ \E end \in {"accepted", "rejected", "timeout"} : Conclude(end)

Spec == Init /\ [][Next]_<< traces, validated, hpc >>
===============================================================================
