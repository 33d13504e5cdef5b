----------------------------- MODULE MCCatalog -----------------------------
(***************************************************************************)
(* Catalog on small instances.                                             *)
(***************************************************************************)
EXTENDS Catalog, TLC

Symmetry ==
    Permutations(UserIds) \cup Permutations(Ids) \cup Permutations(Codes)
    \cup Permutations(Requests)

=============================================================================
