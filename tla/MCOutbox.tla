------------------------------ MODULE MCOutbox ------------------------------
(* Instances of Outbox for TLC. *)
EXTENDS Outbox, TLC

CONSTANTS i1, i2, s1, s2, l1, l2

Processes == Permutations({s1, s2}) \cup Permutations({l1, l2})
Peers == Permutations({i1, i2})
=============================================================================
