---------------------------- MODULE MCMonitoring ----------------------------
(***************************************************************************)
(* Monitoring on small instances.                                          *)
(***************************************************************************)
EXTENDS Monitoring, TLC

\* All orders; those that are new, of one day; all events.
SomeQueries ==
    {q \in QuerySalesOrdersDto :
        \/ q.status = Null /\ q.dateFrom = Null /\ q.dateTo = Null
        \/ q.status = Created /\ q.dateFrom = 0 /\ q.dateTo = 0}
    \cup {q \in QueryAuditDto : q.action = Null /\ q.entityId = Null}

Symmetry == Permutations(OrderIds) \cup Permutations(Requests)

=============================================================================
