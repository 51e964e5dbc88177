------------------------------ MODULE MCSigning ------------------------------
(* Model values for TLC. *)
EXTENDS Signing

CONSTANTS default, role, a, b, c

MCIdentities == {default, role}
MCRequests == {a, b, c}
=============================================================================
