----------------------------- MODULE MCMoondbSpool -----------------------------
(* Instances of MoondbSpool for TLC. *)
EXTENDS MoondbSpool, TLC

CONSTANTS x, t, p, a, b

\* An edit points at both chunks; it shares one with an envelope nobody can read, the
\* other with a turn.
Points == (x :> {a, b}) @@ (t :> {b}) @@ (p :> {a})
================================================================================
