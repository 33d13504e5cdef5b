---------------------------- MODULE MCScheduling ----------------------------
(***************************************************************************)
(* Scheduling on small instances.                                          *)
(***************************************************************************)
EXTENDS Scheduling, TLC

Symmetry == Permutations(Requests)

=============================================================================
