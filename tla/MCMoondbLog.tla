------------------------------ MODULE MCMoondbLog ------------------------------
(* Instances of MoondbLog for TLC. *)
EXTENDS MoondbLog, TLC

CONSTANTS f, g, d, u, v

Symmetry == Permutations(Vals) \cup Permutations(Facts)
================================================================================
