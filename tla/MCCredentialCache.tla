-------------------------- MODULE MCCredentialCache --------------------------
(* Model values and bounds for TLC. *)
EXTENDS CredentialCache

CONSTANTS a, b, c

MCCallers == {a, b, c}
MCLifetimes == {-1, 2, 3}
=============================================================================
