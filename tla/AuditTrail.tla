----------------------------- MODULE AuditTrail -----------------------------
(***************************************************************************)
(* From a change of an order to its row in audit_events: a handler saves,  *)
(* emits one event and answers; AuditListener.handle has AuditService      *)
(* insert the event.  @OnEvent(..., {async: true}) has the emitter call    *)
(* the listener in a setImmediate, so the promise of emitAsync is settled  *)
(* before the insert has begun: no handler waits for its event, and the    *)
(* emitter keeps an insert that fails to itself.                           *)
(*                                                                         *)
(* What a handler checks before it saves is the subject of SalesOrders.    *)
(* Here a change is the creation of an order or any save of its status,    *)
(* and changes are numbered as they are committed; the number stands for   *)
(* the states and the actor that the event carries.                        *)
(*                                                                         *)
(* created_at and occurred_at default to now(), the time the transaction   *)
(* of the insert began, so a row may appear after rows with later times.   *)
(***************************************************************************)
EXTENDS Naturals, Sequences, FiniteSets

CONSTANTS
    OrderIds,       \* the uuids the database gives to orders
    Status,         \* the statuses an order may be saved with
    Created,        \* CRIADA, the one it is inserted with
    Requests,       \* slots for requests served at one time
    MaxChanges,     \* bound: changes in all
    FirstTick,      \* bound: the first moment of the clock
    LastTick,       \* bound: the last one
    Null            \* no row, no value

Time == FirstTick..LastTick

SalesOrder == [status : Status, createdAt : Time]

\* Two of the four: the events of a schedule and of a transport are emitted
\* after a save in the same way.
AuditAction == {"SALES_ORDER_CREATED", "SALES_ORDER_STATUS_CHANGED"}

\* The payload of an event; after: what the trail had when it was committed.
Change == [action : AuditAction, entityId : OrderIds, after : SUBSET (1..MaxChanges)]

\* The row of an event, with the number of its change.
AuditEvent == [change : 1..MaxChanges, occurredAt : Time]

\* What a request saves.
Body == [order : OrderIds, status : Status]

ASSUME CreatedAssumption == Created \in Status

ASSUME BoundAssumption ==
    /\ MaxChanges \in Nat /\ FirstTick \in Nat
    /\ LastTick \in Nat /\ FirstTick <= LastTick

ASSUME NullAssumption == Null \notin SalesOrder \cup Body \cup Nat

ASSUME RequestsAssumption == IsFiniteSet(Requests)

ASSUME OrderIdsAssumption == IsFiniteSet(OrderIds)

VARIABLES
    now,            \* the clock of the database
    orders,         \* table sales_orders
    events,         \* table audit_events
    pc,             \* the await each request stands at
    body,           \* what it is about to save
    began,          \* when the transaction of its insert began
    change,         \* the number of the change it has committed
    inFlight,       \* changes whose event the listener has
    inserting,      \* when the transaction of their insert began
    changes,        \* history: the committed changes
    refused         \* history: changes whose event could not be inserted

history == <<changes, refused>>
trail   == <<now, orders, events, pc, body, began, change, inFlight, inserting,
             history>>

PC == {"idle", "begin", "save", "emit", "answer"}

Numbers == 1..Len(changes)

Recorded == {e.change : e \in events}

TrailTypeOK ==
    /\ now \in Time
    /\ orders \in [OrderIds -> SalesOrder \cup {Null}]
    /\ events \subseteq AuditEvent
    /\ pc \in [Requests -> PC]
    /\ body \in [Requests -> Body \cup {Null}]
    /\ began \in [Requests -> Time \cup {Null}]
    /\ change \in [Requests -> 1..MaxChanges \cup {Null}]
    /\ inFlight \subseteq 1..MaxChanges
    /\ inserting \in [1..MaxChanges -> Time \cup {Null}]
    /\ changes \in Seq(Change) /\ Len(changes) <= MaxChanges
    /\ refused \subseteq 1..MaxChanges

TrailInit ==
    /\ now = FirstTick
    /\ orders = [o \in OrderIds |-> Null]
    /\ events = {}
    /\ pc = [r \in Requests |-> "idle"]
    /\ body = [r \in Requests |-> Null]
    /\ began = [r \in Requests |-> Null]
    /\ change = [r \in Requests |-> Null]
    /\ inFlight = {}
    /\ inserting = [n \in 1..MaxChanges |-> Null]
    /\ changes = <<>>
    /\ refused = {}

-----------------------------------------------------------------------------
(* A request changes an order.                                             *)

Goto(r, label) == pc' = [pc EXCEPT ![r] = label]

Release(r) ==
    /\ Goto(r, "idle")
    /\ body' = [body EXCEPT ![r] = Null]
    /\ began' = [began EXCEPT ![r] = Null]
    /\ change' = [change EXCEPT ![r] = Null]

\* Requests that have yet to save: never more than changes are left.
Saving == {r \in Requests : pc[r] \in {"begin", "save"}}

Call(r, label, o, status) ==
    /\ pc[r] = "idle"
    /\ Cardinality(Saving) + Len(changes) < MaxChanges
    /\ Goto(r, label)
    /\ body' = [body EXCEPT ![r] = [order |-> o, status |-> status]]
    /\ UNCHANGED <<now, orders, events, began, change, inFlight, inserting, history>>

\* uuid_generate_v4() gives an id that no order and no other request has.
Create(r) ==
    \E o \in OrderIds :
        /\ orders[o] = Null
        /\ \A q \in Saving : body[q].order # o
        /\ Call(r, "begin", o, Created)

UpdateStatus(r) ==
    \E o \in OrderIds, status \in Status :
        orders[o] # Null /\ Call(r, "save", o, status)

\* The insert of an order takes its created_at...
BeginInsert(r) ==
    /\ pc[r] = "begin"
    /\ began' = [began EXCEPT ![r] = now]
    /\ Goto(r, "save")
    /\ UNCHANGED <<now, orders, events, body, change, inFlight, inserting, history>>

\* Mutant: created_at is a column of the entity like others.
Row_Created(r) == [status |-> body[r].status, createdAt |-> began[r]]

\* The row that a save leaves; created_at is set once, by the default.
Row(r) ==
    LET old == orders[body[r].order] IN
    [status    |-> body[r].status,
     createdAt |-> IF old = Null THEN began[r] ELSE old.createdAt]

\* ... and any save is there for others to see when it commits.
Save(r) ==
    /\ pc[r] = "save"
    /\ orders' = [orders EXCEPT ![body[r].order] = Row(r)]
    /\ changes' = Append(changes,
           [action   |-> IF orders[body[r].order] = Null
                           THEN "SALES_ORDER_CREATED" ELSE "SALES_ORDER_STATUS_CHANGED",
            entityId |-> body[r].order,
            after    |-> Recorded])
    /\ change' = [change EXCEPT ![r] = Len(changes) + 1]
    /\ body' = [body EXCEPT ![r] = Null]
    /\ began' = [began EXCEPT ![r] = Null]
    /\ Goto(r, "emit")
    /\ UNCHANGED <<now, events, inFlight, inserting, refused>>

\* Mutant: create does not emit.
Emit_NotCreation(r) ==
    /\ pc[r] = "emit"
    /\ inFlight' = IF changes[change[r]].action = "SALES_ORDER_CREATED"
                     THEN inFlight ELSE inFlight \cup {change[r]}
    /\ Goto(r, "answer")
    /\ UNCHANGED <<now, orders, events, body, began, change, inserting, history>>

\* emitAsync: the event is with the emitter, which calls the listener later.
Emit(r) ==
    /\ pc[r] = "emit"
    /\ inFlight' = inFlight \cup {change[r]}
    /\ Goto(r, "answer")
    /\ UNCHANGED <<now, orders, events, body, began, change, inserting, history>>

\* The final findOne.
Answer(r) ==
    /\ pc[r] = "answer"
    /\ Release(r)
    /\ UNCHANGED <<now, orders, events, inFlight, inserting, history>>

-----------------------------------------------------------------------------
(* The listener.                                                           *)

\* The promise of the listener settles; nobody is told.
Settle(n) ==
    /\ inFlight' = inFlight \ {n}
    /\ inserting' = [inserting EXCEPT ![n] = Null]

\* AuditService.record: the insert takes its occurred_at...
Handle(n) ==
    /\ n \in inFlight /\ inserting[n] = Null
    /\ inserting' = [inserting EXCEPT ![n] = now]
    /\ UNCHANGED <<now, orders, events, pc, body, began, change, inFlight, history>>

\* Mutant: one row for an order, with its last event.
Record_Upsert(n) ==
    /\ n \in inFlight /\ inserting[n] # Null
    /\ events' = {e \in events : changes[e.change].entityId # changes[n].entityId}
                 \cup {[change |-> n, occurredAt |-> inserting[n]]}
    /\ Settle(n)
    /\ UNCHANGED <<now, orders, pc, body, began, change, history>>

\* Mutant: the event has the time of the order it is about.
Record_CreatedAt(n) ==
    /\ n \in inFlight /\ inserting[n] # Null
    /\ events' = events \cup
           {[change |-> n, occurredAt |-> orders[changes[n].entityId].createdAt]}
    /\ Settle(n)
    /\ UNCHANGED <<now, orders, pc, body, began, change, history>>

\* ... and commits.
Record(n) ==
    /\ n \in inFlight /\ inserting[n] # Null
    /\ events' = events \cup {[change |-> n, occurredAt |-> inserting[n]]}
    /\ Settle(n)
    /\ UNCHANGED <<now, orders, pc, body, began, change, history>>

\* Mutant: it is tried again, for as long as it takes.
Refuse_Retry(n) ==
    /\ n \in inFlight
    /\ refused' = refused \cup {n}
    /\ inserting' = [inserting EXCEPT ![n] = Null]
    /\ UNCHANGED <<now, orders, events, pc, body, began, change, inFlight, changes>>

\* The insert fails; the emitter logs the error and goes on.
Refuse(n) ==
    /\ n \in inFlight
    /\ refused' = refused \cup {n}
    /\ Settle(n)
    /\ UNCHANGED <<now, orders, events, pc, body, began, change, changes>>

-----------------------------------------------------------------------------

\* A database call throws; at "emit", the commit that was not acknowledged.
Fail(r) ==
    /\ pc[r] # "idle"
    /\ Release(r)
    /\ UNCHANGED <<now, orders, events, inFlight, inserting, history>>

\* The process dies and starts again.
Crash ==
    /\ pc' = [r \in Requests |-> "idle"]
    /\ body' = [r \in Requests |-> Null]
    /\ began' = [r \in Requests |-> Null]
    /\ change' = [r \in Requests |-> Null]
    /\ inFlight' = {}
    /\ inserting' = [n \in 1..MaxChanges |-> Null]
    /\ UNCHANGED <<now, orders, events, history>>

Tick ==
    /\ now < LastTick
    /\ now' = now + 1
    /\ UNCHANGED <<orders, events, pc, body, began, change, inFlight, inserting,
                   history>>

Step(r) == BeginInsert(r) \/ Save(r) \/ Emit(r) \/ Answer(r)

Listener(n) == Handle(n) \/ Record(n) \/ Refuse(n)

TrailNext ==
    \/ \E r \in Requests : Create(r) \/ UpdateStatus(r) \/ Step(r) \/ Fail(r)
    \/ \E n \in 1..MaxChanges : Listener(n)
    \/ Crash
    \/ Tick

TrailSpec == TrailInit /\ [][TrailNext]_trail

\* The event loop comes to every callback, and the driver answers or throws.
FairTrailSpec ==
    /\ TrailSpec
    /\ \A r \in Requests : WF_trail(Step(r))
    /\ \A n \in 1..MaxChanges : WF_trail(Listener(n))

-----------------------------------------------------------------------------
(* Properties                                                              *)

\* The event is still to be emitted, or the emitter has it.
InMemory == inFlight \cup {change[r] : r \in {q \in Requests : pc[q] = "emit"}}

\* Committed, and never to be in the trail.
Lost == Numbers \ (Recorded \cup InMemory)

(***************************************************************************)
(* The trail keeps the promise of AuditLedger: no event without a change   *)
(* that was committed, none taken back; events are lost one by one, or all *)
(* that are pending at once; one that is lost never turns up.              *)
(***************************************************************************)
Ledger == INSTANCE AuditLedger WITH
              committed <- Len(changes), recorded <- Recorded, lost <- Lost

KeepsTheLedger == Ledger!Spec

(***************************************************************************)
(* No event is lost but by one of three accidents: the process stops, the  *)
(* database refuses the insert, or the handler throws between its commit   *)
(* and its emitAsync.  Of these the last happens before the answer: what   *)
(* loses a change that was answered is one of the first two.               *)
(***************************************************************************)
Stopped == inFlight = {} /\ \A r \in Requests : pc[r] = "idle"

LossesHaveACause ==
    [][\A n \in Lost' \ Lost :
          \/ Stopped'
          \/ n \in refused'
          \/ \E r \in Requests :
               change[r] = n /\ pc[r] = "emit" /\ pc'[r] = "idle"]_trail

(***************************************************************************)
(* "garantir a durabilidade da auditoria dentro da requisicao"             *)
(* (README.md:262, docs/adr/0003): when the handler goes on to its answer  *)
(* its change is in the trail, unless the database refused that very event.*)
(***************************************************************************)
AnsweredIsRecorded ==
    \A r \in Requests : pc[r] = "answer" => change[r] \in Recorded \cup refused

(***************************************************************************)
(* A change has one row; and what was in the trail when a change was       *)
(* committed does not come after it in the order of occurred_at, which is  *)
(* all the trail is sorted by.  (It is the trail that counts, not the      *)
(* answer: of two changes that were answered one after the other, either   *)
(* may come first.)                                                        *)
(***************************************************************************)
TrailTellsTheOrder ==
    \A e, f \in events :
        /\ e.change = f.change => e = f
        /\ e.change \in changes[f.change].after => e.occurredAt <= f.occurredAt

(***************************************************************************)
(* No event hangs in memory: though nobody waits for the listener, every   *)
(* change gets its row in the end, or is lost.                             *)
(***************************************************************************)
EventsSettle ==
    \A n \in 1..MaxChanges : n \in Numbers ~> n \in Recorded \cup Lost

-----------------------------------------------------------------------------
(***************************************************************************)
(* Why they hold.                                                          *)
(***************************************************************************)
Changed(r) == pc[r] \in {"emit", "answer"}

\* What a request knows at each await.
RequestKnows(r) ==
    /\ pc[r] \in {"begin", "save"} => body[r] \in Body
    /\ pc[r] = "save" => began[r] \in Time \/ orders[body[r].order] # Null
    /\ Changed(r) => change[r] \in Numbers
    /\ pc[r] = "emit" => change[r] \notin inFlight \cup Recorded

\* There is room for every change on its way.
RoomForChanges == Cardinality(Saving) + Len(changes) <= MaxChanges

OwnChanges ==
    \A r, q \in Requests : Changed(r) /\ Changed(q) /\ change[r] = change[q] => r = q

\* All that is known of a change follows its commit; an event is in one place.
ChangesComeFirst ==
    /\ Recorded \cup inFlight \subseteq Numbers
    /\ \A n \in Numbers : changes[n].after \subseteq Recorded
    /\ inFlight \cap Recorded = {}
    /\ \A n \in 1..MaxChanges : inserting[n] # Null => n \in inFlight

\* What was recorded before a change was committed has an earlier time.
TimesRise ==
    /\ \A e \in events : e.occurredAt <= now
    /\ \A n \in 1..MaxChanges : inserting[n] # Null => inserting[n] <= now
    /\ \A n \in Numbers, e \in events :
         e.change \in changes[n].after /\ inserting[n] # Null
             => e.occurredAt <= inserting[n]

TrailInv ==
    /\ \A r \in Requests : RequestKnows(r)
    /\ RoomForChanges /\ OwnChanges /\ ChangesComeFirst /\ TimesRise

TrailIInv == TrailTypeOK /\ TrailInv

=============================================================================
