---------------------------- MODULE MCClientCache ----------------------------
(* Model values for TLC. *)
EXTENDS ClientCache

CONSTANTS a, b, c, k1, k2

MCCallers == {a, b, c}
MCKeys == {k1, k2}
=============================================================================
