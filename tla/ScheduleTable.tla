--------------------------- MODULE ScheduleTable ---------------------------
(***************************************************************************)
(* What the sales orders see of the scheduling service: one status for an  *)
(* order that exists.  SalesOrders takes its steps for what the service    *)
(* may do between two awaits; Scheduling is shown to do nothing else.      *)
(***************************************************************************)
CONSTANT Orders

VARIABLES
    placed,     \* the orders there are
    status      \* the status of each one's schedule, "NONE" without

Init ==
    /\ placed = {}
    /\ status = [o \in Orders |-> "NONE"]

Place(o) == placed' = placed \cup {o} /\ UNCHANGED status

Define(o) ==
    /\ o \in placed
    /\ status' = [status EXCEPT ![o] = "PENDING"]
    /\ UNCHANGED placed

Confirm(o) ==
    /\ status[o] # "NONE"
    /\ status' = [status EXCEPT ![o] = "CONFIRMED"]
    /\ UNCHANGED placed

Next == \E o \in Orders : Place(o) \/ Define(o) \/ Confirm(o)

Spec == Init /\ [][Next]_<<placed, status>>

=============================================================================
