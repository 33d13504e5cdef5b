-------------------------- MODULE OrderLifecycle --------------------------
(***************************************************************************)
(* What the API promises about the life of an order, without requests,     *)
(* rows and awaits.  Spec is what concurrent requests keep to: an order    *)
(* gets into a new status only from the one before it, but it may fall     *)
(* back to a status it has been in.  StrictSpec is what the README says:   *)
(* it moves one step of the flow at a time and never back.                 *)
(***************************************************************************)
EXTENDS OrderFlow

CONSTANT Orders

VARIABLES
    status,     \* the status of each order, "NONE" before it is placed
    reached     \* the statuses each order has been in

Init ==
    /\ status = [o \in Orders |-> "NONE"]
    /\ reached = [o \in Orders |-> {}]

Enter(o, s) ==
    /\ status' = [status EXCEPT ![o] = s]
    /\ reached' = [reached EXCEPT ![o] = @ \cup {s}]

Place(o) == status[o] = "NONE" /\ Enter(o, "CRIADA")

Advance(o, s) == Follows(status[o], s) /\ Enter(o, s)

\* A write that another one has overtaken: from any status the order had.
LateAdvance(o) ==
    \E p \in reached[o], s \in SalesOrderStatus : Follows(p, s) /\ Enter(o, s)

FallBack(o) == \E s \in reached[o] : Enter(o, s)

StrictNext ==
    \E o \in Orders :
        \/ Place(o)
        \/ status[o] # "NONE" /\ \E s \in SalesOrderStatus : Advance(o, s)

Next == \E o \in Orders : Place(o) \/ FallBack(o) \/ LateAdvance(o)

StrictSpec == Init /\ [][StrictNext]_<<status, reached>>

Spec == Init /\ [][Next]_<<status, reached>>

=============================================================================
