---------------------------- MODULE MCPortHandle ----------------------------
(* Instances of PortHandle for TLC. *)
EXTENDS PortHandle, TLC

Perms == Permutations(Calls)
=============================================================================
