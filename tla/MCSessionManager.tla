-------------------------- MODULE MCSessionManager --------------------------
(* Instances of SessionManager for TLC. *)
EXTENDS SessionManager

CONSTANTS i1, i2, p1
=============================================================================
