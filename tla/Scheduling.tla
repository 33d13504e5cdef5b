---------------------------- MODULE Scheduling ----------------------------
(***************************************************************************)
(* SchedulingService: define, confirm and reschedule, run by concurrent    *)
(* requests over the table schedules (one row for an order, kept so by a   *)
(* UNIQUE constraint).  As in SalesOrders a handler is cut at its awaits.  *)
(*                                                                         *)
(* What save writes is not the row but the columns that differ from the    *)
(* row it reads again.  A time column holds HH:MM:SS and the body of a     *)
(* request HH:MM, so a window taken from a body always differs, and one    *)
(* that confirm has loaded differs only when it has been changed since.    *)
(***************************************************************************)
EXTENDS Integers, FiniteSets

CONSTANTS
    Orders,       \* ids of sales orders
    Requests,     \* slots for requests served at one time
    Dates,        \* delivery dates, as day numbers
    Times,        \* times of day
    FirstDay,     \* the day the process starts on
    LastDay,      \* bound on the calendar
    Null          \* no row, no value

SchedulingStatus == {"PENDING", "CONFIRMED"}

Columns == {"deliveryDate", "windowStart", "windowEnd", "status"}

Schedule ==
    [deliveryDate : Dates, windowStart : Times, windowEnd : Times,
     status : SchedulingStatus]

ScheduleDto == [deliveryDate : Dates, windowStart : Times, windowEnd : Times]

Operation == {"define", "confirm", "reschedule"}

\* Of the snapshots in a payload, the status is what the properties need.
AuditEventPayload ==
    [order : Orders, previous : SchedulingStatus \cup {"NONE"},
     new : SchedulingStatus]

ASSUME CalendarAssumption ==
    /\ Dates \subseteq Int /\ Times \subseteq Int
    /\ FirstDay \in Int /\ LastDay \in Int
ASSUME NullAssumption ==
    Null \notin Schedule \cup ScheduleDto \cup AuditEventPayload \cup Orders
                \cup Operation

VARIABLES
    placed,      \* ids in the table sales_orders
    schedules,   \* the row of each order
    today,       \* the date of new Date(), UTC
    pc,          \* the await each request stands at
    op,          \* the handler
    orderId,     \* its order
    dto,         \* the body of define and reschedule
    loaded,      \* the row its findOne returned
    patch,       \* the columns save found to differ
    event,       \* the payload the listener still holds
    had,         \* history: the schedule statuses of each order
    overtaken    \* history: requests whose row another one wrote since the load

tables == <<placed, schedules, had, overtaken>>
slots  == <<pc, op, orderId, dto, loaded, patch, event>>
vars   == <<tables, today, slots>>

PC == {"idle", "findOrder", "findSchedule", "insert", "reload", "write",
       "emit", "answer"}

TypeOK ==
    /\ placed \subseteq Orders
    /\ schedules \in [Orders -> Schedule \cup {Null}]
    /\ today \in Int
    /\ pc \in [Requests -> PC]
    /\ op \in [Requests -> Operation \cup {Null}]
    /\ orderId \in [Requests -> Orders \cup {Null}]
    /\ dto \in [Requests -> ScheduleDto \cup {Null}]
    /\ loaded \in [Requests -> Schedule \cup {Null}]
    /\ patch \in [Requests -> SUBSET Columns]
    /\ event \in [Requests -> AuditEventPayload \cup {Null}]
    /\ had \in [Orders -> SUBSET (SchedulingStatus \cup {"NONE"})]
    /\ overtaken \subseteq Requests

Init ==
    /\ placed = {}
    /\ schedules = [o \in Orders |-> Null]
    /\ today = FirstDay
    /\ pc = [r \in Requests |-> "idle"]
    /\ op = [r \in Requests |-> Null]
    /\ orderId = [r \in Requests |-> Null]
    /\ dto = [r \in Requests |-> Null]
    /\ loaded = [r \in Requests |-> Null]
    /\ patch = [r \in Requests |-> {}]
    /\ event = [r \in Requests |-> Null]
    /\ had = [o \in Orders |-> {"NONE"}]
    /\ overtaken = {}

-----------------------------------------------------------------------------
(* Moving a request.                                                       *)

Goto(r, label) == pc' = [pc EXCEPT ![r] = label]

Release(r) ==
    /\ Goto(r, "idle")
    /\ op' = [op EXCEPT ![r] = Null]
    /\ orderId' = [orderId EXCEPT ![r] = Null]
    /\ dto' = [dto EXCEPT ![r] = Null]
    /\ loaded' = [loaded EXCEPT ![r] = Null]
    /\ patch' = [patch EXCEPT ![r] = {}]

Reject(r) == Release(r) /\ UNCHANGED <<tables, today, event>>

Call(r, operation, label, o, body) ==
    /\ pc[r] = "idle" /\ event[r] = Null
    /\ Goto(r, label)
    /\ op' = [op EXCEPT ![r] = operation]
    /\ orderId' = [orderId EXCEPT ![r] = o]
    /\ dto' = [dto EXCEPT ![r] = body]
    /\ UNCHANGED <<tables, today, loaded, patch, event>>

Define(r) ==
    \E o \in Orders, body \in ScheduleDto : Call(r, "define", "findOrder", o, body)

Confirm(r) ==
    \E o \in Orders : Call(r, "confirm", "findSchedule", o, Null)

Reschedule(r) ==
    \E o \in Orders, body \in ScheduleDto :
        Call(r, "reschedule", "findSchedule", o, body)

-----------------------------------------------------------------------------
(* The handlers.                                                           *)

ValidWindow(start, end) == start < end

\* Mutant: the date is not looked at.
assertValidWindow_AnyDate(body) == ValidWindow(body.windowStart, body.windowEnd)

assertValidWindow(body) ==
    /\ ValidWindow(body.windowStart, body.windowEnd)
    /\ body.deliveryDate >= today

\* Mutant: define does not look the order up.
FindOrder_NoLookup(r) ==
    /\ pc[r] = "findOrder"
    /\ IF assertValidWindow(dto[r])
         THEN /\ Goto(r, "findSchedule")
              /\ UNCHANGED <<tables, today, op, orderId, dto, loaded, patch, event>>
         ELSE Reject(r)

\* define: the order must exist and the window be valid.
FindOrder(r) ==
    /\ pc[r] = "findOrder"
    /\ IF orderId[r] \in placed /\ assertValidWindow(dto[r])
         THEN /\ Goto(r, "findSchedule")
              /\ UNCHANGED <<tables, today, op, orderId, dto, loaded, patch, event>>
         ELSE Reject(r)

\* define creates the row when there is none; the others answer 404.
FindSchedule(r) ==
    /\ pc[r] = "findSchedule"
    /\ LET row == schedules[orderId[r]] IN
       IF \/ op[r] = "define"
          \/ op[r] = "confirm" /\ row # Null
          \/ op[r] = "reschedule" /\ row # Null /\ assertValidWindow(dto[r])
         THEN /\ loaded' = [loaded EXCEPT ![r] = row]
              /\ Goto(r, IF row = Null THEN "insert" ELSE "reload")
              /\ overtaken' = overtaken \ {r}
              /\ UNCHANGED <<placed, schedules, had, today, op, orderId, dto,
                             patch, event>>
         ELSE Reject(r)

\* Mutant: a schedule that was confirmed stays so when it is rescheduled.
Entity_KeepStatus(r) ==
    IF op[r] = "confirm"
      THEN [loaded[r] EXCEPT !.status = "CONFIRMED"]
      ELSE [deliveryDate |-> dto[r].deliveryDate,
            windowStart |-> dto[r].windowStart,
            windowEnd |-> dto[r].windowEnd,
            status |-> IF op[r] = "reschedule" THEN loaded[r].status
                                               ELSE "PENDING"]

\* The entity handed to save.
Entity(r) ==
    IF op[r] = "confirm"
      THEN [loaded[r] EXCEPT !.status = "CONFIRMED"]
      ELSE [deliveryDate |-> dto[r].deliveryDate,
            windowStart |-> dto[r].windowStart,
            windowEnd |-> dto[r].windowEnd,
            status |-> "PENDING"]

Store(o, row) ==
    /\ schedules' = [schedules EXCEPT ![o] = row]
    /\ had' = [had EXCEPT ![o] = @ \cup {row.status}]
    /\ overtaken' = overtaken \cup
           {q \in Requests : orderId[q] = o /\ pc[q] \in {"insert", "reload", "write"}}
    /\ UNCHANGED placed

\* An INSERT that comes second violates UNIQUE (sales_order_id): a 500.
Insert(r) ==
    /\ pc[r] = "insert"
    /\ IF schedules[orderId[r]] = Null
         THEN /\ Store(orderId[r], Entity(r))
              /\ Goto(r, "emit")
              /\ UNCHANGED <<today, op, orderId, dto, loaded, patch, event>>
         ELSE Reject(r)

\* Mutant: bodies and rows write a time in the same format.
AlwaysDiffer_Never(r) == {}

\* The columns in which an entity differs from any row, for their format.
AlwaysDiffer(r) ==
    IF op[r] = "confirm" THEN {} ELSE {"windowStart", "windowEnd"}

\* Mutant: a save that silently gives up when the row has changed.
Reload_GiveUp(r) ==
    /\ pc[r] = "reload"
    /\ patch' = [patch EXCEPT ![r] =
           IF schedules[orderId[r]] = loaded[r] THEN Columns ELSE {}]
    /\ Goto(r, "write")
    /\ UNCHANGED <<tables, today, op, orderId, dto, loaded, event>>

\* save reads the row again and keeps the columns that differ...
Reload(r) ==
    /\ pc[r] = "reload"
    /\ LET row == schedules[orderId[r]] IN
       patch' = [patch EXCEPT ![r] =
           AlwaysDiffer(r) \cup
           {column \in Columns : Entity(r)[column] # row[column]}]
    /\ Goto(r, "write")
    /\ UNCHANGED <<tables, today, op, orderId, dto, loaded, event>>

\* ... and updates those.
Write(r) ==
    /\ pc[r] = "write"
    /\ LET row == schedules[orderId[r]]
           Merged(column) ==
               IF column \in patch[r] THEN Entity(r)[column] ELSE row[column]
       IN Store(orderId[r], [deliveryDate |-> Merged("deliveryDate"),
                             windowStart |-> Merged("windowStart"),
                             windowEnd |-> Merged("windowEnd"),
                             status |-> Merged("status")])
    /\ Goto(r, "emit")
    /\ UNCHANGED <<today, op, orderId, dto, loaded, patch, event>>

\* Mutant: the payload names the operation where its status belongs.
Payload_Operation(r) ==
    [order |-> orderId[r],
     previous |-> IF loaded[r] = Null THEN "NONE" ELSE loaded[r].status,
     new |-> op[r]]

Payload(r) ==
    [order |-> orderId[r],
     previous |-> IF loaded[r] = Null THEN "NONE" ELSE loaded[r].status,
     new |-> Entity(r).status]

\* emitAsync: the listener is called later, and the handler does not wait.
Emit(r) ==
    /\ pc[r] = "emit"
    /\ event' = [event EXCEPT ![r] = Payload(r)]
    /\ Goto(r, "answer")
    /\ UNCHANGED <<tables, today, op, orderId, dto, loaded, patch>>

Answer(r) ==
    /\ pc[r] = "answer"
    /\ Reject(r)

HandleAudit(r) ==
    /\ event[r] # Null
    /\ event' = [event EXCEPT ![r] = Null]
    /\ UNCHANGED <<tables, today, pc, op, orderId, dto, loaded, patch>>

\* A database call throws.
Fail(r) == pc[r] # "idle" /\ Reject(r)

\* The process dies and starts again.
Crash ==
    /\ pc' = [r \in Requests |-> "idle"]
    /\ op' = [r \in Requests |-> Null]
    /\ orderId' = [r \in Requests |-> Null]
    /\ dto' = [r \in Requests |-> Null]
    /\ loaded' = [r \in Requests |-> Null]
    /\ patch' = [r \in Requests |-> {}]
    /\ event' = [r \in Requests |-> Null]
    /\ UNCHANGED <<tables, today>>

-----------------------------------------------------------------------------
(* The rest of the system.                                                 *)

\* SalesOrdersService.create.
PlaceOrder(o) ==
    /\ o \notin placed
    /\ placed' = placed \cup {o}
    /\ UNCHANGED <<schedules, had, overtaken, today, slots>>

Midnight ==
    /\ today < LastDay
    /\ today' = today + 1
    /\ UNCHANGED <<tables, slots>>

-----------------------------------------------------------------------------

Step(r) ==
    \/ FindOrder(r) \/ FindSchedule(r) \/ Insert(r) \/ Reload(r) \/ Write(r)
    \/ Emit(r) \/ Answer(r)

Receive(r) == Define(r) \/ Confirm(r) \/ Reschedule(r)

Next ==
    \/ \E r \in Requests : Receive(r) \/ Step(r) \/ HandleAudit(r) \/ Fail(r)
    \/ Crash
    \/ \E o \in Orders : PlaceOrder(o)
    \/ Midnight

Spec == Init /\ [][Next]_vars

-----------------------------------------------------------------------------
(* Properties                                                              *)

Saves(r) == pc[r] \in {"insert", "write"} /\ pc'[r] = "emit"

Valid(row) == ValidWindow(row.windowStart, row.windowEnd)

(***************************************************************************)
(* Only orders that exist have a schedule, and a schedule was PENDING      *)
(* before it was CONFIRMED: nobody confirms what nobody has defined.       *)
(***************************************************************************)
PendingComesFirst ==
    \A o \in Orders :
        /\ schedules[o] # Null => o \in placed /\ "PENDING" \in had[o]
        /\ schedules[o] = Null => had[o] = {"NONE"}

(***************************************************************************)
(* The date of a row was not over when the process started, whoever wrote  *)
(* it and however late: every write of a date goes back to a checked body. *)
(***************************************************************************)
NoDateFromThePast ==
    \A o \in Orders : schedules[o] # Null => schedules[o].deliveryDate >= FirstDay

(***************************************************************************)
(* Where a broken window comes from.  The columns of two requests can end  *)
(* up in one row, so that it starts after it ends, but only by a confirm   *)
(* that writes back a window it had loaded and others have replaced.       *)
(***************************************************************************)
OnlyStaleConfirmBreaksTheWindow ==
    [][\A o \in Orders :
          /\ schedules'[o] # Null /\ ~Valid(schedules'[o])
          /\ schedules[o] = Null \/ Valid(schedules[o])
          => \E r \in Requests :
               /\ Saves(r) /\ op[r] = "confirm" /\ orderId[r] = o
               /\ \/ loaded[r].windowStart # schedules[o].windowStart
                  \/ loaded[r].windowEnd # schedules[o].windowEnd]_vars

(***************************************************************************)
(* Lost updates need a race.  A request that no other one has overtaken    *)
(* stores exactly its entity, though it writes only some of the columns:   *)
(* define and reschedule leave their window, PENDING; confirm leaves the   *)
(* window it has seen, CONFIRMED.                                          *)
(***************************************************************************)
Stored(row, body, status) ==
    row = [deliveryDate |-> body.deliveryDate, windowStart |-> body.windowStart,
           windowEnd |-> body.windowEnd, status |-> status]

UndisturbedSavesAreExact ==
    [][\A r \in Requests : Saves(r) /\ r \notin overtaken =>
          IF op[r] = "confirm"
            THEN Stored(schedules'[orderId[r]], schedules[orderId[r]], "CONFIRMED")
            ELSE Stored(schedules'[orderId[r]], dto[r], "PENDING")]_vars

(***************************************************************************)
(* scheduling.service.ts on reschedule, "voltando ao estado PENDING": its  *)
(* write leaves the row PENDING.                                           *)
(***************************************************************************)
RescheduleReturnsToPending ==
    [][\A r \in Requests :
          pc[r] = "write" /\ op[r] = "reschedule" /\ pc'[r] = "emit"
             => schedules'[orderId[r]].status = "PENDING"]_vars

(***************************************************************************)
(* The listener is told of statuses the schedule really had, also when the *)
(* row was changed between the load and the save.                          *)
(***************************************************************************)
EventsTellTheTruth ==
    \A r \in Requests : event[r] # Null =>
        {event[r].previous, event[r].new} \subseteq had[event[r].order]

(***************************************************************************)
(* The table keeps to what SalesOrders takes it to do: whatever columns    *)
(* two requests leave in a row, its status changes as by one define or one *)
(* confirm, of an order that exists.                                       *)
(***************************************************************************)
StatusOf(o) == IF schedules[o] = Null THEN "NONE" ELSE schedules[o].status

Table == INSTANCE ScheduleTable WITH status <- [o \in Orders |-> StatusOf(o)]

ImplementsScheduleTable == Table!Spec

-----------------------------------------------------------------------------
(***************************************************************************)
(* Why they hold: what a request knows at each await.                      *)
(***************************************************************************)

\* The body has passed assertValidWindow.
Checked(r) ==
    op[r] # "confirm" =>
        /\ ValidWindow(dto[r].windowStart, dto[r].windowEnd)
        /\ dto[r].deliveryDate >= FirstDay

\* The copy in hand is a row the order had, the present one unless overtaken.
HoldsOldRow(r) ==
    /\ loaded[r] \in Schedule /\ schedules[orderId[r]] # Null
    /\ loaded[r].status \in had[orderId[r]]
    /\ loaded[r].deliveryDate >= FirstDay
    /\ r \notin overtaken => loaded[r] = schedules[orderId[r]]

Differing(r, row) == {column \in Columns : Entity(r)[column] # row[column]}

RequestKnows(r) ==
    /\ pc[r] # "idle" =>
         /\ op[r] \in Operation /\ orderId[r] \in Orders
         /\ op[r] # "confirm" => dto[r] \in ScheduleDto
         /\ op[r] = "define" /\ pc[r] # "findOrder" =>
              orderId[r] \in placed /\ Checked(r)
    /\ pc[r] = "findOrder" => op[r] = "define"
    /\ pc[r] = "insert" =>
         /\ op[r] = "define" /\ loaded[r] = Null
         /\ r \notin overtaken => schedules[orderId[r]] = Null
    /\ pc[r] \in {"reload", "write"} => HoldsOldRow(r) /\ Checked(r)
    /\ pc[r] = "write" =>
         /\ AlwaysDiffer(r) \subseteq patch[r]
         /\ "status" \in patch[r] \/ Entity(r).status \in had[orderId[r]]
         /\ r \notin overtaken =>
              Differing(r, schedules[orderId[r]]) \subseteq patch[r]
    /\ pc[r] = "emit" =>
         /\ op[r] = "confirm" => loaded[r] # Null
         /\ Entity(r).status \in had[orderId[r]]
         /\ loaded[r] # Null => loaded[r].status \in had[orderId[r]]

HistoryCovers ==
    \A o \in Orders :
        /\ "NONE" \in had[o]
        /\ schedules[o] # Null => schedules[o].status \in had[o]

IInv ==
    /\ TypeOK
    /\ today >= FirstDay
    /\ HistoryCovers
    /\ PendingComesFirst
    /\ NoDateFromThePast
    /\ EventsTellTheTruth
    /\ \A r \in Requests : RequestKnows(r)

=============================================================================
