----------------------------- MODULE MCBuiltins -----------------------------
(* Values of Builtins' constants for TLC *)
EXTENDS Builtins, TLC

CONSTANTS p1, d1, d2, d3
=============================================================================
