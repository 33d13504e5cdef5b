---------------------------- MODULE AuditLedger ----------------------------
(***************************************************************************)
(* What the audit trail promises, without saying how.  A change that has   *)
(* been committed is pending; it is recorded, once and for good, or it is  *)
(* lost, for good too: nothing records it later.                           *)
(***************************************************************************)
EXTENDS Naturals

VARIABLES
    committed,    \* how many changes there have been; they are numbered
    recorded,     \* the changes the trail has
    lost          \* the changes it will never have

ledger == <<committed, recorded, lost>>

Pending == (1..committed) \ (recorded \cup lost)

Init == committed = 0 /\ recorded = {} /\ lost = {}

Commit == committed' = committed + 1 /\ UNCHANGED <<recorded, lost>>

\* The listeners of several changes do not wait for one another.
Record == \E n \in Pending :
              recorded' = recorded \cup {n} /\ UNCHANGED <<committed, lost>>

\* A call that fails loses one...
Lose == \E n \in Pending :
            lost' = lost \cup {n} /\ UNCHANGED <<committed, recorded>>

\* ... and a crash all that have not been recorded.
Stop == lost' = lost \cup Pending /\ UNCHANGED <<committed, recorded>>

Next == Commit \/ Record \/ Lose \/ Stop

Spec == Init /\ [][Next]_ledger

=============================================================================
