----------------------------- MODULE MCNativeBuild -----------------------------
(* NativeBuild with two builders. *)
EXTENDS NativeBuild
CONSTANTS b1, b2, k1, k2
===============================================================================
