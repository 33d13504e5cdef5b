-------------------------- MODULE TransportGrants --------------------------
(***************************************************************************)
(* What the sales orders see of the customers service: customers come and  *)
(* stay, and the list of one names transport types that exist.             *)
(* SalesOrders takes its steps for what the service may do between two     *)
(* awaits; Customers is shown to do nothing else.                          *)
(***************************************************************************)
CONSTANTS CustomerIds, TransportTypes

VARIABLES
    customers,     \* the customers there are
    transports,    \* the transport types there are
    lists          \* the list of each customer, empty when there is none

Init ==
    /\ customers = {} /\ transports = {}
    /\ lists = [c \in CustomerIds |-> {}]

Register(t) ==
    transports' = transports \cup {t} /\ UNCHANGED <<customers, lists>>

\* The list of c becomes S.
Grant(c, S) ==
    /\ S \subseteq transports
    /\ lists' = [lists EXCEPT ![c] = S]
    /\ UNCHANGED transports

Create(c, S) ==
    /\ c \notin customers /\ customers' = customers \cup {c}
    /\ Grant(c, S)

Replace(c, S) ==
    /\ c \in customers /\ UNCHANGED customers
    /\ Grant(c, S)

Next ==
    \/ \E t \in TransportTypes : Register(t)
    \/ \E c \in CustomerIds, S \in SUBSET TransportTypes :
           Create(c, S) \/ Replace(c, S)

Spec == Init /\ [][Next]_<<customers, transports, lists>>

=============================================================================
