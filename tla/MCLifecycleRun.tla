---------------------------- MODULE MCLifecycleRun ----------------------------
(* LifecycleRun with the stage selections of the runs. *)
EXTENDS LifecycleRun

WholeChain == {Stage}

\* What the command asks for, what the tests ask for and `run` refuses, and a
\* selection that reaches model_build by its dependencies alone.
SomeStages == {Stage, {"design", "corpus_snapshot"}, {"calibration", "model_build"}}
===============================================================================
