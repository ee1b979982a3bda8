--------------------------- MODULE MCTimedEvaluation ---------------------------
(* TimedEvaluation with the workloads of the runs. *)
EXTENDS TimedEvaluation

AllRows == Row
FirstRow == {1}
===============================================================================
