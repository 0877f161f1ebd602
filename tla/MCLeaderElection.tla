-------------------------- MODULE MCLeaderElection --------------------------
(* Instances of LeaderElection for TLC. *)
EXTENDS LeaderElection, TLC

CONSTANTS i1, i2, i3

Peers == Permutations(Instance)
=============================================================================
