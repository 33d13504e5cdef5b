---------------------------- MODULE MCCustomers ----------------------------
(***************************************************************************)
(* Customers on small instances.                                           *)
(***************************************************************************)
EXTENDS Customers, TLC

Symmetry ==
    Permutations(CustomerIds) \cup Permutations(Documents)
    \cup Permutations(TransportTypes) \cup Permutations(Requests)

=============================================================================
