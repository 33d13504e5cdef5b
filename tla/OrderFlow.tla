----------------------------- MODULE OrderFlow -----------------------------
(***************************************************************************)
(* The operational flow of a sales order: the transition table of          *)
(* src/sales-orders/sales-order-state-machine.ts as the code has it, and   *)
(* beside it the flow as its comment states it, "estritamente sequencial": *)
(* CRIADA, PLANEJADA, AGENDADA, EM_TRANSPORTE, ENTREGUE.                   *)
(***************************************************************************)
EXTENDS Naturals

SalesOrderStatus ==
    {"CRIADA", "PLANEJADA", "AGENDADA", "EM_TRANSPORTE", "ENTREGUE"}

SALES_ORDER_TRANSITIONS ==
    [CRIADA        |-> {"PLANEJADA"},
     PLANEJADA     |-> {"AGENDADA"},
     AGENDADA      |-> {"EM_TRANSPORTE"},
     EM_TRANSPORTE |-> {"ENTREGUE"},
     ENTREGUE      |-> {}]

allowedTransitions(from) == SALES_ORDER_TRANSITIONS[from]

\* Mutants: PLANEJADA may go straight to EM_TRANSPORTE; a delivery may be undone.
canTransition_Shortcut(from, to) ==
    \/ to \in allowedTransitions(from)
    \/ from = "PLANEJADA" /\ to = "EM_TRANSPORTE"

canTransition_Undo(from, to) ==
    \/ to \in allowedTransitions(from)
    \/ from = "ENTREGUE" /\ to = "EM_TRANSPORTE"

canTransition(from, to) == to \in allowedTransitions(from)

-----------------------------------------------------------------------------
(* The flow as documented, independent of the table.                       *)

Position ==
    [CRIADA |-> 1, PLANEJADA |-> 2, AGENDADA |-> 3, EM_TRANSPORTE |-> 4,
     ENTREGUE |-> 5]

Follows(p, s) == Position[s] = Position[p] + 1

\* S holds, with each status, all those that come before it.
FlowClosed(S) ==
    \A s \in S, p \in SalesOrderStatus : Position[p] < Position[s] => p \in S

=============================================================================
