------------------------------ MODULE MCReleaseRun ------------------------------
(* ReleaseRun with two processes, which are interchangeable, and so are the configurations. *)
EXTENDS ReleaseRun, TLC
CONSTANTS c1, c2, v1, v2
Alike == Permutations(Cmd) \cup Permutations(Conf)
===============================================================================
