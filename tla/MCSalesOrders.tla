--------------------------- MODULE MCSalesOrders ---------------------------
(***************************************************************************)
(* SalesOrders on small instances.                                         *)
(***************************************************************************)
EXTENDS SalesOrders, TLC

\* Requests are interchangeable, and so are transport types when all of them
\* are in Stocked.
Symmetry == Permutations(Requests) \cup Permutations(TransportTypes)

=============================================================================
