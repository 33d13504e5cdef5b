-------------------------- MODULE SchedulingProofs --------------------------
(***************************************************************************)
(* Proofs about Scheduling for any orders, dates, times and requests.      *)
(***************************************************************************)
EXTENDS Scheduling, TLAPS

LEMMA NullFacts ==
    /\ Null \notin Schedule /\ Null \notin ScheduleDto
    /\ Null \notin AuditEventPayload /\ Null \notin Orders
    /\ Null \notin Operation
BY NullAssumption

(***************************************************************************)
(* The entity handed to save is a row: the loaded one, CONFIRMED, or the   *)
(* one of the body, PENDING.                                               *)
(***************************************************************************)
LEMMA EntityFacts ==
    ASSUME NEW r \in Requests, op[r] \in Operation,
           op[r] = "confirm" => loaded[r] \in Schedule,
           op[r] # "confirm" => dto[r] \in ScheduleDto
    PROVE  /\ Entity(r) \in Schedule
           /\ op[r] = "confirm" =>
                /\ Entity(r).deliveryDate = loaded[r].deliveryDate
                /\ Entity(r).windowStart = loaded[r].windowStart
                /\ Entity(r).windowEnd = loaded[r].windowEnd
                /\ Entity(r).status = "CONFIRMED"
           /\ op[r] # "confirm" =>
                /\ Entity(r).deliveryDate = dto[r].deliveryDate
                /\ Entity(r).windowStart = dto[r].windowStart
                /\ Entity(r).windowEnd = dto[r].windowEnd
                /\ Entity(r).status = "PENDING"
<1>1. CASE op[r] = "confirm"
  <2>1. Entity(r) = [loaded[r] EXCEPT !.status = "CONFIRMED"]
    BY <1>1 DEF Entity
  <2> QED BY <1>1, <2>1 DEF Schedule, SchedulingStatus
<1>2. CASE op[r] # "confirm"
  BY <1>2 DEF Entity, Schedule, ScheduleDto, SchedulingStatus
<1> QED BY <1>1, <1>2

\* A request about to save or to emit has what EntityFacts asks for.
LEMMA EntityKnown ==
    ASSUME TypeOK, NEW r \in Requests, RequestKnows(r),
           pc[r] \in {"insert", "reload", "write", "emit"}
    PROVE  /\ op[r] \in Operation /\ orderId[r] \in Orders
           /\ op[r] = "confirm" => loaded[r] \in Schedule
           /\ op[r] # "confirm" => dto[r] \in ScheduleDto
BY DEF TypeOK, RequestKnows, HoldsOldRow

-----------------------------------------------------------------------------
(***************************************************************************)
(* The row a save leaves.  INSERT stores the entity; UPDATE takes each     *)
(* column from the entity or from the row.                                 *)
(***************************************************************************)
Merge(row, r) ==
    [deliveryDate |-> IF "deliveryDate" \in patch[r]
                        THEN Entity(r).deliveryDate ELSE row.deliveryDate,
     windowStart |-> IF "windowStart" \in patch[r]
                        THEN Entity(r).windowStart ELSE row.windowStart,
     windowEnd |-> IF "windowEnd" \in patch[r]
                        THEN Entity(r).windowEnd ELSE row.windowEnd,
     status |-> IF "status" \in patch[r]
                        THEN Entity(r).status ELSE row.status]

LEMMA WriteStores ==
    ASSUME NEW r \in Requests, Write(r)
    PROVE  Store(orderId[r], Merge(schedules[orderId[r]], r))
BY DEF Write, Merge

LEMMA MergeFacts ==
    ASSUME TypeOK, NEW r \in Requests, RequestKnows(r), pc[r] = "write"
    PROVE  LET row == schedules[orderId[r]]
               new == Merge(row, r) IN
           /\ row \in Schedule /\ new \in Schedule
           /\ new.status \in {row.status, Entity(r).status}
           /\ new.deliveryDate \in {row.deliveryDate, Entity(r).deliveryDate}
           /\ op[r] # "confirm" =>
                /\ new.windowStart = dto[r].windowStart
                /\ new.windowEnd = dto[r].windowEnd
           /\ "status" \in patch[r] => new.status = Entity(r).status
<1>1. schedules[orderId[r]] \in Schedule
  BY EntityKnown DEF TypeOK, RequestKnows, HoldsOldRow
<1>2. Entity(r) \in Schedule
  BY EntityKnown, EntityFacts
<1>3. op[r] # "confirm" => {"windowStart", "windowEnd"} \subseteq patch[r]
  BY DEF RequestKnows, AlwaysDiffer
<1> QED BY <1>1, <1>2, <1>3, EntityKnown, EntityFacts DEF Merge, Schedule

-----------------------------------------------------------------------------
LEMMA TypeInit == Init => TypeOK
BY CalendarAssumption DEF Init, TypeOK, PC

LEMMA TypeStep == IInv /\ [Next]_vars => TypeOK'
<1> SUFFICES ASSUME TypeOK, \A r \in Requests : RequestKnows(r), [Next]_vars
             PROVE  TypeOK'
  BY DEF IInv
<1> USE DEF TypeOK, tables, Goto, PC
<1>1. ASSUME NEW r \in Requests, Receive(r) PROVE TypeOK'
  BY <1>1 DEF Receive, Define, Confirm, Reschedule, Call, Operation
<1>2. ASSUME NEW r \in Requests, Reject(r) PROVE TypeOK'
  BY <1>2 DEF Reject, Release
<1>3. ASSUME NEW r \in Requests, FindOrder(r) PROVE TypeOK'
  BY <1>2, <1>3 DEF FindOrder
<1>4. ASSUME NEW r \in Requests, FindSchedule(r) PROVE TypeOK'
  <2>1. orderId[r] \in Orders
    BY <1>4 DEF FindSchedule, RequestKnows
  <2> QED BY <1>2, <1>4, <2>1 DEF FindSchedule
<1>5. ASSUME NEW r \in Requests, NEW o \in Orders, NEW row \in Schedule,
             Store(o, row), Goto(r, "emit"),
             UNCHANGED <<today, op, orderId, dto, loaded, patch, event>>
      PROVE  TypeOK'
  BY <1>5 DEF Store, Schedule
<1>6. ASSUME NEW r \in Requests, Insert(r) PROVE TypeOK'
  <2>1. orderId[r] \in Orders /\ Entity(r) \in Schedule
    BY <1>6, EntityKnown, EntityFacts DEF Insert
  <2> QED BY <1>2, <1>5, <1>6, <2>1 DEF Insert
<1>7. ASSUME NEW r \in Requests, Reload(r) PROVE TypeOK'
  BY <1>7 DEF Reload, AlwaysDiffer, Columns
<1>8. ASSUME NEW r \in Requests, Write(r) PROVE TypeOK'
  <2>1. /\ orderId[r] \in Orders
        /\ Merge(schedules[orderId[r]], r) \in Schedule
    BY <1>8, EntityKnown, MergeFacts DEF Write
  <2> QED BY <1>5, <1>8, <2>1, WriteStores DEF Write
<1>9. ASSUME NEW r \in Requests, Emit(r) PROVE TypeOK'
  <2>1. Payload(r) \in AuditEventPayload
    BY <1>9, EntityKnown, EntityFacts DEF Emit, Payload, AuditEventPayload,
       Schedule, SchedulingStatus
  <2> QED BY <1>9, <2>1 DEF Emit
<1>10. ASSUME NEW r \in Requests, Answer(r) \/ Fail(r) \/ HandleAudit(r)
       PROVE  TypeOK'
  BY <1>2, <1>10 DEF Answer, Fail, HandleAudit
<1>11. CASE Crash
  BY <1>11 DEF Crash
<1>12. ASSUME NEW o \in Orders, PlaceOrder(o) PROVE TypeOK'
  BY <1>12 DEF PlaceOrder, slots
<1>13. CASE Midnight
  BY <1>13 DEF Midnight, slots
<1>14. CASE UNCHANGED vars
  BY <1>14 DEF vars, slots
<1> QED
  BY <1>1, <1>3, <1>4, <1>6, <1>7, <1>8, <1>9, <1>10, <1>11, <1>12, <1>13, <1>14
     DEF Next, Step

-----------------------------------------------------------------------------
(***************************************************************************)
(* What a step may do to what another request relies on.                   *)
(***************************************************************************)
Grows ==
    /\ placed \subseteq placed'
    /\ \A o \in Orders : had[o] \subseteq had'[o]
    /\ \A o \in Orders : schedules[o] # Null => schedules'[o] # Null

SameSlot(r) ==
    /\ pc'[r] = pc[r] /\ op'[r] = op[r] /\ orderId'[r] = orderId[r]
    /\ dto'[r] = dto[r] /\ loaded'[r] = loaded[r] /\ patch'[r] = patch[r]

\* Whoever changes the row marks r as overtaken.
MarksOvertaken(r) ==
    pc[r] \in {"insert", "reload", "write"} /\ r \notin overtaken' =>
        /\ r \notin overtaken
        /\ schedules'[orderId[r]] = schedules[orderId[r]]

LEMMA KnowledgeStays ==
    ASSUME Grows, NEW r \in Requests, SameSlot(r), MarksOvertaken(r),
           RequestKnows(r)
    PROVE  RequestKnows(r)'
<1> USE DEF SameSlot
<1>1. Entity(r)' = Entity(r) /\ AlwaysDiffer(r)' = AlwaysDiffer(r)
  BY DEF Entity, AlwaysDiffer
<1>2. Checked(r) => Checked(r)'
  BY DEF Checked
<1>3. /\ HoldsOldRow(r) /\ orderId[r] \in Orders
      /\ pc[r] \in {"reload", "write"}
      => HoldsOldRow(r)'
  BY DEF HoldsOldRow, Grows, MarksOvertaken
<1>4. ASSUME pc[r] = "write", r \notin overtaken',
             Differing(r, schedules[orderId[r]]) \subseteq patch[r]
      PROVE  (Differing(r, schedules[orderId[r]]) \subseteq patch[r])'
  BY <1>1, <1>4 DEF Differing, MarksOvertaken
<1>5. ASSUME pc[r] # "idle"
      PROVE  /\ op'[r] \in Operation /\ orderId'[r] \in Orders
             /\ op'[r] # "confirm" => dto'[r] \in ScheduleDto
             /\ op'[r] = "define" /\ pc'[r] # "findOrder" =>
                  orderId'[r] \in placed' /\ Checked(r)'
  BY <1>2, <1>5 DEF RequestKnows, Grows
<1>6. ASSUME pc[r] = "insert"
      PROVE  /\ op'[r] = "define" /\ loaded'[r] = Null
             /\ r \notin overtaken' => schedules'[orderId'[r]] = Null
  BY <1>6 DEF RequestKnows, MarksOvertaken
<1>7. ASSUME pc[r] = "write"
      PROVE  /\ AlwaysDiffer(r)' \subseteq patch'[r]
             /\ "status" \in patch'[r] \/ Entity(r)'.status \in had'[orderId'[r]]
             /\ r \notin overtaken' =>
                  Differing(r, schedules[orderId[r]])' \subseteq patch'[r]
  <2>1. /\ AlwaysDiffer(r) \subseteq patch[r] /\ orderId[r] \in Orders
        /\ "status" \in patch[r] \/ Entity(r).status \in had[orderId[r]]
    BY <1>7 DEF RequestKnows
  <2>2. r \notin overtaken' =>
          Differing(r, schedules[orderId[r]])' \subseteq patch'[r]
    BY <1>4, <1>7 DEF RequestKnows, MarksOvertaken
  <2> QED BY <1>1, <2>1, <2>2 DEF Grows
<1>8. ASSUME pc[r] = "emit"
      PROVE  /\ op'[r] = "confirm" => loaded'[r] # Null
             /\ Entity(r)'.status \in had'[orderId'[r]]
             /\ loaded'[r] # Null => loaded'[r].status \in had'[orderId'[r]]
  BY <1>1, <1>8 DEF RequestKnows, Grows
<1> QED BY <1>2, <1>3, <1>5, <1>6, <1>7, <1>8 DEF RequestKnows

LEMMA EventsStay ==
    ASSUME TypeOK, Grows, EventsTellTheTruth,
           \A r \in Requests : event'[r] \in {event[r], Null}
    PROVE  EventsTellTheTruth'
BY DEF TypeOK, Grows, EventsTellTheTruth, AuditEventPayload

(***************************************************************************)
(* The tables after a step that stores nothing.                            *)
(***************************************************************************)
LEMMA TablesStay ==
    ASSUME IInv, placed \subseteq placed', UNCHANGED <<schedules, had>>
    PROVE  Grows /\ HistoryCovers' /\ PendingComesFirst' /\ NoDateFromThePast'
BY DEF IInv, Grows, HistoryCovers, PendingComesFirst, NoDateFromThePast

-----------------------------------------------------------------------------
(***************************************************************************)
(* The tables after a save.                                                *)
(***************************************************************************)
LEMMA StoreStep ==
    ASSUME IInv, NEW o \in Orders, NEW row \in Schedule, Store(o, row),
           row.deliveryDate >= FirstDay, o \in placed,
           row.status = "PENDING" \/ schedules[o] # Null
    PROVE  /\ Grows /\ HistoryCovers' /\ PendingComesFirst'
           /\ NoDateFromThePast'
           /\ \A q \in Requests : MarksOvertaken(q)
<1>1. /\ schedules'[o] = row /\ row # Null
      /\ had'[o] = had[o] \cup {row.status}
      /\ \A p \in Orders \ {o} : schedules'[p] = schedules[p] /\ had'[p] = had[p]
      /\ placed' = placed
  BY NullFacts DEF Store, IInv, TypeOK
<1>2. Grows
  BY <1>1 DEF Grows
<1>3. HistoryCovers'
  BY <1>1 DEF HistoryCovers, IInv
<1>4. PendingComesFirst'
  BY <1>1 DEF PendingComesFirst, IInv
<1>5. NoDateFromThePast'
  BY <1>1 DEF NoDateFromThePast, IInv
<1>6. ASSUME NEW q \in Requests PROVE MarksOvertaken(q)
  BY DEF MarksOvertaken, Store, IInv, TypeOK, RequestKnows
<1> QED BY <1>2, <1>3, <1>4, <1>5, <1>6

-----------------------------------------------------------------------------
(***************************************************************************)
(* The steps of a request that store nothing.                              *)
(***************************************************************************)
Quiet(r) ==
    \/ Receive(r) \/ Reject(r) \/ FindOrder(r) \/ FindSchedule(r) \/ Reload(r)
    \/ Emit(r) \/ HandleAudit(r)

LEMMA QuietFrame ==
    ASSUME TypeOK, NEW r \in Requests, Quiet(r)
    PROVE  /\ UNCHANGED <<placed, schedules, had, today>>
           /\ overtaken' \in {overtaken, overtaken \ {r}}
           /\ \A q \in Requests \ {r} : SameSlot(q) /\ event'[q] = event[q]
<1> USE DEF TypeOK, SameSlot, tables, Goto
<1>1. CASE Receive(r)
  BY <1>1 DEF Receive, Define, Confirm, Reschedule, Call
<1>2. CASE Reject(r)
  BY <1>2 DEF Reject, Release
<1>3. CASE FindOrder(r)
  BY <1>2, <1>3 DEF FindOrder
<1>4. CASE FindSchedule(r)
  BY <1>2, <1>4 DEF FindSchedule
<1>5. CASE Reload(r)
  BY <1>5 DEF Reload
<1>6. CASE Emit(r) \/ HandleAudit(r)
  BY <1>6 DEF Emit, HandleAudit
<1> QED BY <1>1, <1>2, <1>3, <1>4, <1>5, <1>6 DEF Quiet

LEMMA CheckedBody ==
    ASSUME today \in Int, today >= FirstDay, NEW body \in ScheduleDto,
           assertValidWindow(body)
    PROVE  /\ ValidWindow(body.windowStart, body.windowEnd)
           /\ body.deliveryDate >= FirstDay
<1>1. body.deliveryDate \in Int /\ FirstDay \in Int
  BY CalendarAssumption DEF ScheduleDto
<1> QED BY <1>1 DEF assertValidWindow

LEMMA QuietLearns ==
    ASSUME IInv, TypeOK', NEW r \in Requests, Quiet(r)
    PROVE  RequestKnows(r)'
<1> USE DEF tables, Goto
<1>0. /\ TypeOK /\ RequestKnows(r) /\ Grows
      /\ UNCHANGED <<placed, schedules, had, today>>
  BY QuietFrame, TablesStay DEF IInv
<1>1. ASSUME pc'[r] = "idle" PROVE RequestKnows(r)'
  BY <1>1 DEF RequestKnows
<1>2. CASE Reject(r)
  BY <1>0, <1>1, <1>2 DEF Reject, Release, TypeOK
<1>3. CASE Receive(r)
  BY <1>0, <1>3 DEF Receive, Define, Confirm, Reschedule, Call, RequestKnows,
     Operation, TypeOK
<1>4. CASE HandleAudit(r)
  BY <1>0, <1>4, KnowledgeStays DEF HandleAudit, SameSlot, MarksOvertaken
<1>5. CASE FindOrder(r)
  <2>1. ASSUME orderId[r] \in placed, assertValidWindow(dto[r]), Goto(r, "findSchedule"),
               UNCHANGED <<op, orderId, dto, loaded, patch>>
        PROVE  RequestKnows(r)'
    <3>1. op[r] = "define" /\ orderId[r] \in Orders /\ dto[r] \in ScheduleDto
      BY <1>0, <1>5 DEF FindOrder, RequestKnows
    <3>2. Checked(r)'
      <4>1. /\ ValidWindow(dto[r].windowStart, dto[r].windowEnd)
            /\ dto[r].deliveryDate >= FirstDay
        BY <2>1, <3>1, CheckedBody DEF IInv, TypeOK
      <4> QED BY <2>1, <4>1 DEF Checked
    <3>3. pc'[r] = "findSchedule"
      BY <1>0, <2>1 DEF TypeOK
    <3> QED BY <1>0, <2>1, <3>1, <3>2, <3>3 DEF RequestKnows, Operation
  <2> QED BY <1>2, <1>5, <2>1 DEF FindOrder
<1>6. CASE FindSchedule(r)
  <2> DEFINE row == schedules[orderId[r]]
  <2>1. ASSUME row # Null => op[r] \in {"define", "confirm"} \/ assertValidWindow(dto[r]),
               row = Null => op[r] = "define",
               loaded' = [loaded EXCEPT ![r] = row],
               Goto(r, IF row = Null THEN "insert" ELSE "reload"),
               overtaken' = overtaken \ {r},
               UNCHANGED <<op, orderId, dto, patch>>
        PROVE  RequestKnows(r)'
    <3>1. /\ op[r] \in Operation /\ orderId[r] \in Orders
          /\ op[r] # "confirm" => dto[r] \in ScheduleDto
          /\ op[r] = "define" => orderId[r] \in placed /\ Checked(r)
      BY <1>0, <1>6 DEF FindSchedule, RequestKnows
    <3>2. Checked(r)
      <4>1. CASE op[r] \in {"define", "confirm"}
        BY <3>1, <4>1 DEF Checked
      <4>2. CASE op[r] = "reschedule"
        <5>1. assertValidWindow(dto[r]) /\ dto[r] \in ScheduleDto
          BY <2>1, <3>1, <4>2
        <5> QED BY <5>1, CheckedBody DEF Checked, IInv, TypeOK
      <4> QED BY <3>1, <4>1, <4>2 DEF Operation
    <3>3. Checked(r)'
      BY <2>1, <3>2 DEF Checked
    <3>4. /\ pc'[r] = (IF row = Null THEN "insert" ELSE "reload")
          /\ loaded'[r] = row
      BY <1>0, <2>1 DEF TypeOK
    <3>5. row # Null => HoldsOldRow(r)'
      BY <1>0, <2>1, <3>1, <3>4 DEF HoldsOldRow, IInv, HistoryCovers,
         NoDateFromThePast, TypeOK
    <3> QED BY <1>0, <2>1, <3>1, <3>3, <3>4, <3>5 DEF RequestKnows
  <2> QED BY <1>2, <1>6, <2>1 DEF FindSchedule
<1>7. CASE Reload(r)
  <2> DEFINE row == schedules[orderId[r]]
  <2>1. /\ HoldsOldRow(r) /\ Checked(r) /\ op[r] \in Operation
        /\ orderId[r] \in Orders
        /\ op[r] # "confirm" => dto[r] \in ScheduleDto
        /\ op[r] = "define" => orderId[r] \in placed
    BY <1>0, <1>7 DEF Reload, RequestKnows
  <2>2. /\ pc'[r] = "write" /\ op'[r] = op[r] /\ orderId'[r] = orderId[r]
        /\ dto'[r] = dto[r] /\ loaded'[r] = loaded[r] /\ overtaken' = overtaken
        /\ patch'[r] = AlwaysDiffer(r) \cup Differing(r, row)
    BY <1>0, <1>7 DEF Reload, Differing, TypeOK
  <2>3. /\ Entity(r)' = Entity(r) /\ AlwaysDiffer(r)' = AlwaysDiffer(r)
        /\ Checked(r)' /\ HoldsOldRow(r)'
    BY <1>0, <2>1, <2>2 DEF Entity, AlwaysDiffer, Checked, HoldsOldRow
  <2>4. Differing(r, schedules[orderId[r]])' = Differing(r, row)
    BY <1>0, <2>2, <2>3 DEF Differing
  <2>5. "status" \in patch'[r] \/ Entity(r).status \in had[orderId[r]]
    <3>1. row.status \in had[orderId[r]]
      BY <2>1 DEF HoldsOldRow, IInv, HistoryCovers
    <3>2. CASE Entity(r).status = row.status
      BY <3>1, <3>2
    <3>3. CASE Entity(r)["status"] # row["status"]
      BY <2>2, <3>3 DEF Differing, Columns
    <3> QED BY <3>2, <3>3
  <2>6. pc'[r] \in {"write"} /\ AlwaysDiffer(r)' \subseteq patch'[r]
        /\ Differing(r, schedules[orderId[r]])' \subseteq patch'[r]
    BY <2>2, <2>3, <2>4
  <2> HIDE DEF row
  <2>7. "status" \in patch'[r] \/ Entity(r)'.status \in had'[orderId'[r]]
    BY <1>0, <2>2, <2>3, <2>5
  <2> QED BY <1>0, <2>1, <2>2, <2>3, <2>6, <2>7 DEF RequestKnows
<1>8. CASE Emit(r)
  <2>1. /\ pc'[r] = "answer" /\ op'[r] = op[r] /\ orderId'[r] = orderId[r]
        /\ dto'[r] = dto[r]
    BY <1>0, <1>8 DEF Emit, TypeOK
  <2> QED BY <1>0, <1>8, <2>1 DEF Emit, RequestKnows, Checked
<1> QED BY <1>2, <1>3, <1>4, <1>5, <1>6, <1>7, <1>8 DEF Quiet

LEMMA QuietTruth ==
    ASSUME IInv, TypeOK', NEW r \in Requests, Quiet(r)
    PROVE  EventsTellTheTruth'
<1>1. /\ Grows /\ UNCHANGED <<schedules, had>>
      /\ \A q \in Requests \ {r} : event'[q] = event[q]
  BY QuietFrame, TablesStay DEF IInv
<1>2. ASSUME event'[r] \in {event[r], Null} PROVE EventsTellTheTruth'
  BY <1>1, <1>2, EventsStay DEF IInv
<1>3. CASE Emit(r)
  <2>1. event'[r] = Payload(r) /\ RequestKnows(r) /\ pc[r] = "emit"
    BY <1>3 DEF Emit, IInv, TypeOK
  <2>2. {Payload(r).previous, Payload(r).new} \subseteq had[Payload(r).order]
    BY <2>1 DEF RequestKnows, Payload, IInv, HistoryCovers
  <2> QED BY <1>1, <2>1, <2>2 DEF EventsTellTheTruth, IInv
<1>4. CASE ~Emit(r)
  <2>1. event'[r] \in {event[r], Null}
    BY <1>4 DEF Quiet, Receive, Define, Confirm, Reschedule, Call, Reject,
       FindOrder, FindSchedule, Reload, HandleAudit, IInv, TypeOK
  <2> QED BY <1>2, <2>1
<1> QED BY <1>3, <1>4

LEMMA QuietStep ==
    ASSUME IInv, TypeOK', NEW r \in Requests, Quiet(r)
    PROVE  IInv'
<1>1. /\ UNCHANGED <<placed, schedules, had, today>>
      /\ overtaken' \in {overtaken, overtaken \ {r}}
      /\ \A q \in Requests \ {r} : SameSlot(q)
  BY QuietFrame DEF IInv
<1>2. Grows /\ HistoryCovers' /\ PendingComesFirst' /\ NoDateFromThePast'
  BY <1>1, TablesStay
<1>3. ASSUME NEW q \in Requests PROVE RequestKnows(q)'
  <2>1. CASE q = r
    BY <2>1, QuietLearns
  <2>2. CASE q # r
    BY <1>1, <1>2, <2>2, KnowledgeStays DEF MarksOvertaken, IInv
  <2> QED BY <2>1, <2>2
<1> QED BY <1>1, <1>2, <1>3, QuietTruth DEF IInv

-----------------------------------------------------------------------------
(***************************************************************************)
(* The two steps that store.                                               *)
(***************************************************************************)
LEMMA SaveFrame ==
    ASSUME TypeOK, NEW r \in Requests, Goto(r, "emit"),
           UNCHANGED <<today, op, orderId, dto, loaded, patch, event>>
    PROVE  \A q \in Requests \ {r} : SameSlot(q)
BY DEF TypeOK, Goto, SameSlot

LEMMA SaveStep ==
    ASSUME IInv, TypeOK', NEW r \in Requests, NEW row \in Schedule,
           orderId[r] \in Orders, Store(orderId[r], row), Goto(r, "emit"),
           UNCHANGED <<today, op, orderId, dto, loaded, patch, event>>,
           row.deliveryDate >= FirstDay, orderId[r] \in placed,
           row.status = "PENDING" \/ schedules[orderId[r]] # Null,
           RequestKnows(r)'
    PROVE  IInv'
<1>1. /\ Grows /\ HistoryCovers' /\ PendingComesFirst' /\ NoDateFromThePast'
      /\ \A q \in Requests : MarksOvertaken(q)
  BY StoreStep
<1>2. ASSUME NEW q \in Requests PROVE RequestKnows(q)'
  <2>1. CASE q = r
    BY <2>1
  <2>2. CASE q # r
    BY <1>1, <2>2, SaveFrame, KnowledgeStays DEF IInv
  <2> QED BY <2>1, <2>2
<1>3. EventsTellTheTruth'
  BY <1>1, EventsStay DEF IInv
<1> QED BY <1>1, <1>2, <1>3 DEF IInv

LEMMA InsertStep ==
    ASSUME IInv, TypeOK', NEW r \in Requests, Insert(r)
    PROVE  IInv'
<1>0. TypeOK /\ RequestKnows(r) /\ pc[r] = "insert"
  BY DEF IInv, Insert
<1>1. CASE Reject(r)
  BY <1>1, QuietStep DEF Quiet
<1>2. CASE /\ Store(orderId[r], Entity(r)) /\ Goto(r, "emit")
           /\ UNCHANGED <<today, op, orderId, dto, loaded, patch, event>>
  <2>1. /\ op[r] = "define" /\ loaded[r] = Null /\ orderId[r] \in placed
        /\ orderId[r] \in Orders /\ dto[r] \in ScheduleDto
        /\ dto[r].deliveryDate >= FirstDay
    BY <1>0 DEF RequestKnows, Checked
  <2>2. /\ Entity(r) \in Schedule /\ Entity(r).deliveryDate >= FirstDay
        /\ Entity(r).status = "PENDING"
    BY <2>1, EntityFacts DEF Operation
  <2>3. Entity(r).status \in had'[orderId[r]]
    BY <1>0, <1>2, <2>1 DEF Store, TypeOK
  <2>4. Entity(r)' = Entity(r)
    BY <1>2 DEF Entity
  <2>5. /\ pc'[r] = "emit" /\ op'[r] = op[r] /\ orderId'[r] = orderId[r]
        /\ dto'[r] = dto[r] /\ loaded'[r] = loaded[r] /\ placed' = placed
    BY <1>0, <1>2 DEF Goto, TypeOK, Store
  <2>6. Checked(r)'
    BY <1>0, <2>5 DEF RequestKnows, Checked
  <2>7. RequestKnows(r)'
    BY <2>1, <2>3, <2>4, <2>5, <2>6 DEF RequestKnows, Operation
  <2> QED BY <1>2, <2>1, <2>2, <2>7, SaveStep
<1> QED BY <1>1, <1>2 DEF Insert

LEMMA UpdateStep ==
    ASSUME IInv, TypeOK', NEW r \in Requests, Write(r)
    PROVE  IInv'
<1> DEFINE row == schedules[orderId[r]]
           new == Merge(row, r)
<1>0. TypeOK /\ RequestKnows(r) /\ pc[r] = "write"
  BY DEF IInv, Write
<1>1. /\ op[r] \in Operation /\ orderId[r] \in Orders
      /\ HoldsOldRow(r) /\ Checked(r)
      /\ op[r] # "confirm" => dto[r] \in ScheduleDto
      /\ "status" \in patch[r] \/ Entity(r).status \in had[orderId[r]]
  BY <1>0 DEF RequestKnows
<1>2. row # Null /\ orderId[r] \in placed
  BY <1>1 DEF HoldsOldRow, IInv, PendingComesFirst
<1>3. /\ new \in Schedule
      /\ new.deliveryDate \in {row.deliveryDate, Entity(r).deliveryDate}
      /\ "status" \in patch[r] => new.status = Entity(r).status
  BY <1>0, MergeFacts
<1>4. Entity(r).deliveryDate >= FirstDay
  BY <1>1, EntityFacts DEF HoldsOldRow, Checked
<1>5. new.deliveryDate >= FirstDay
  BY <1>1, <1>2, <1>3, <1>4 DEF IInv, NoDateFromThePast
<1>6. /\ Store(orderId[r], new) /\ Goto(r, "emit")
      /\ UNCHANGED <<today, op, orderId, dto, loaded, patch, event>>
  BY WriteStores DEF Write
<1> HIDE DEF new
<1>7. RequestKnows(r)'
  <2>1. /\ pc'[r] = "emit" /\ op'[r] = op[r] /\ orderId'[r] = orderId[r]
        /\ dto'[r] = dto[r] /\ loaded'[r] = loaded[r] /\ placed' = placed
        /\ had'[orderId[r]] = had[orderId[r]] \cup {new.status}
    BY <1>0, <1>1, <1>6 DEF Goto, TypeOK, Store
  <2>2. Entity(r)' = Entity(r) /\ Checked(r)'
    BY <1>1, <1>6 DEF Entity, Checked
  <2>3. Entity(r).status \in had'[orderId[r]]
    BY <1>1, <1>3, <2>1
  <2>4. loaded[r] # Null /\ loaded[r].status \in had'[orderId[r]]
    BY <1>1, <2>1, NullFacts DEF HoldsOldRow
  <2> QED BY <1>1, <1>2, <2>1, <2>2, <2>3, <2>4 DEF RequestKnows
<1> QED BY <1>1, <1>2, <1>3, <1>5, <1>6, <1>7, SaveStep


-----------------------------------------------------------------------------
(***************************************************************************)
(* The steps of everybody else, and the induction.                         *)
(***************************************************************************)
LEMMA CrashStep ==
    ASSUME IInv, TypeOK', Crash
    PROVE  IInv'
<1>1. UNCHANGED <<placed, schedules, had, today>>
  BY DEF Crash, tables
<1>2. Grows /\ HistoryCovers' /\ PendingComesFirst' /\ NoDateFromThePast'
  BY <1>1, TablesStay
<1>3. \A r \in Requests : pc'[r] = "idle" /\ event'[r] = Null
  BY DEF Crash
<1>4. EventsTellTheTruth' /\ \A r \in Requests : RequestKnows(r)'
  BY <1>3 DEF EventsTellTheTruth, RequestKnows
<1> QED BY <1>1, <1>2, <1>4 DEF IInv

LEMMA ElsewhereStep ==
    ASSUME IInv, TypeOK', placed \subseteq placed', today' \in {today, today + 1},
           UNCHANGED <<schedules, had, overtaken, slots>>
    PROVE  IInv'
<1>1. Grows /\ HistoryCovers' /\ PendingComesFirst' /\ NoDateFromThePast'
  BY TablesStay
<1>2. EventsTellTheTruth'
  BY <1>1, EventsStay DEF IInv, slots
<1>3. \A r \in Requests : RequestKnows(r)'
  BY <1>1, KnowledgeStays DEF SameSlot, MarksOvertaken, slots, IInv
<1>4. today' >= FirstDay
  BY CalendarAssumption DEF IInv, TypeOK
<1> QED BY <1>1, <1>2, <1>3, <1>4 DEF IInv

LEMMA InvInit == Init => IInv
<1> SUFFICES ASSUME Init PROVE IInv
  OBVIOUS
<1>1. TypeOK
  BY TypeInit
<1>2. today >= FirstDay
  BY CalendarAssumption DEF Init
<1>3. HistoryCovers /\ PendingComesFirst /\ NoDateFromThePast /\ EventsTellTheTruth
  BY DEF Init, HistoryCovers, PendingComesFirst, NoDateFromThePast,
     EventsTellTheTruth
<1>4. \A r \in Requests : RequestKnows(r)
  BY DEF Init, RequestKnows
<1> QED BY <1>1, <1>2, <1>3, <1>4 DEF IInv

LEMMA InvStep == IInv /\ [Next]_vars => IInv'
<1> SUFFICES ASSUME IInv, [Next]_vars PROVE IInv'
  OBVIOUS
<1>1. TypeOK'
  BY TypeStep
<1>2. ASSUME NEW r \in Requests,
             Receive(r) \/ Step(r) \/ HandleAudit(r) \/ Fail(r)
      PROVE  IInv'
  <2>1. Quiet(r) \/ Insert(r) \/ Write(r)
    BY <1>2 DEF Quiet, Step, Answer, Fail
  <2> QED BY <1>1, <2>1, QuietStep, InsertStep, UpdateStep
<1>3. CASE Crash
  BY <1>1, <1>3, CrashStep
<1>4. ASSUME NEW o \in Orders, PlaceOrder(o) PROVE IInv'
  BY <1>1, <1>4, ElsewhereStep DEF PlaceOrder
<1>5. CASE Midnight
  BY <1>1, <1>5, ElsewhereStep DEF Midnight, tables
<1>6. CASE UNCHANGED vars
  BY <1>1, <1>6, ElsewhereStep DEF vars, tables
<1> QED BY <1>2, <1>3, <1>4, <1>5, <1>6 DEF Next

(***************************************************************************)
(* The inductive invariant holds in every behaviour of the handlers.       *)
(***************************************************************************)
THEOREM Invariance == Spec => []IInv
BY InvInit, InvStep, PTL DEF Spec

(***************************************************************************)
(* The variables keep their types: whatever columns save picks, the row is *)
(* a schedule.                                                             *)
(***************************************************************************)
THEOREM TypeCorrect == Spec => []TypeOK
<1>1. IInv => TypeOK BY DEF IInv
<1> QED BY <1>1, Invariance, PTL

(***************************************************************************)
(* Schedules belong to orders that exist and are PENDING before CONFIRMED. *)
(***************************************************************************)
THEOREM PendingFirst == Spec => []PendingComesFirst
<1>1. IInv => PendingComesFirst BY DEF IInv
<1> QED BY <1>1, Invariance, PTL

(***************************************************************************)
(* No schedule is for a day that was over when the process started.        *)
(***************************************************************************)
THEOREM DatesChecked == Spec => []NoDateFromThePast
<1>1. IInv => NoDateFromThePast BY DEF IInv
<1> QED BY <1>1, Invariance, PTL

(***************************************************************************)
(* The audit listener is told of statuses that the schedule had.           *)
(***************************************************************************)
THEOREM TruthfulAudit == Spec => []EventsTellTheTruth
<1>1. IInv => EventsTellTheTruth BY DEF IInv
<1> QED BY <1>1, Invariance, PTL

-----------------------------------------------------------------------------
(***************************************************************************)
(* Which steps store, and what.                                            *)
(***************************************************************************)
LEMMA WhoStores ==
    ASSUME TypeOK, [Next]_vars
    PROVE  \/ /\ UNCHANGED schedules
              /\ \A r \in Requests : ~Saves(r)
           \/ \E r \in Requests :
                /\ \/ Insert(r) /\ Store(orderId[r], Entity(r))
                   \/ Write(r)
                /\ Goto(r, "emit")
<1> USE DEF TypeOK, Goto, tables, slots, Saves
<1>1. ASSUME NEW r \in Requests, Receive(r) \/ HandleAudit(r)
      PROVE  UNCHANGED schedules /\ \A q \in Requests : ~Saves(q)
  BY <1>1 DEF Receive, Define, Confirm, Reschedule, Call, HandleAudit
<1>2. ASSUME NEW r \in Requests, Reject(r)
      PROVE  UNCHANGED schedules /\ \A q \in Requests : ~Saves(q)
  BY <1>2 DEF Reject, Release
<1>3. ASSUME NEW r \in Requests,
             FindOrder(r) \/ FindSchedule(r) \/ Reload(r) \/ Emit(r)
      PROVE  UNCHANGED schedules /\ \A q \in Requests : ~Saves(q)
  BY <1>2, <1>3 DEF FindOrder, FindSchedule, Reload, Emit
<1>4. ASSUME NEW r \in Requests, Answer(r) \/ Fail(r)
      PROVE  UNCHANGED schedules /\ \A q \in Requests : ~Saves(q)
  BY <1>2, <1>4 DEF Answer, Fail
<1>5. ASSUME Crash \/ (\E o \in Orders : PlaceOrder(o)) \/ Midnight \/ UNCHANGED vars
      PROVE  UNCHANGED schedules /\ \A q \in Requests : ~Saves(q)
  BY <1>5 DEF Crash, PlaceOrder, Midnight, vars
<1>6. ASSUME NEW r \in Requests, Insert(r)
      PROVE  \/ Reject(r)
             \/ Store(orderId[r], Entity(r)) /\ Goto(r, "emit")
  BY <1>6 DEF Insert
<1>7. ASSUME NEW r \in Requests, Write(r) PROVE Goto(r, "emit")
  BY <1>7 DEF Write
<1> QED BY <1>1, <1>2, <1>3, <1>4, <1>5, <1>6, <1>7 DEF Next, Step

LEMMA OneSaves ==
    ASSUME TypeOK, NEW r \in Requests, NEW q \in Requests, Goto(r, "emit"),
           Saves(q)
    PROVE  q = r
BY DEF TypeOK, Goto, Saves

(***************************************************************************)
(* A save that was not raced stores its entity.  The patch holds every     *)
(* column in which the entity differs from the row, and the row is still   *)
(* the one it was compared with.                                           *)
(***************************************************************************)
LEMMA ExactStep == IInv /\ [Next]_vars =>
    \A r \in Requests : Saves(r) /\ r \notin overtaken =>
        IF op[r] = "confirm"
          THEN Stored(schedules'[orderId[r]], schedules[orderId[r]], "CONFIRMED")
          ELSE Stored(schedules'[orderId[r]], dto[r], "PENDING")
<1> SUFFICES ASSUME IInv, [Next]_vars, NEW r \in Requests, Saves(r),
                    r \notin overtaken
             PROVE  IF op[r] = "confirm"
                      THEN Stored(schedules'[orderId[r]],
                                  schedules[orderId[r]], "CONFIRMED")
                      ELSE Stored(schedules'[orderId[r]], dto[r], "PENDING")
  OBVIOUS
<1> DEFINE row == schedules[orderId[r]]
<1>0. TypeOK /\ RequestKnows(r)
  BY DEF IInv
<1>1. (Insert(r) /\ Store(orderId[r], Entity(r))) \/ Write(r)
  BY <1>0, WhoStores, OneSaves
<1>2. /\ op[r] \in Operation /\ orderId[r] \in Orders
      /\ op[r] = "confirm" => loaded[r] \in Schedule
      /\ op[r] # "confirm" => dto[r] \in ScheduleDto
  BY <1>0, EntityKnown DEF Saves
<1>3. CASE Insert(r) /\ Store(orderId[r], Entity(r))
  <2>1. op[r] = "define"
    BY <1>0, <1>3 DEF Insert, RequestKnows
  <2>2. schedules'[orderId[r]] = Entity(r)
    BY <1>0, <1>2, <1>3 DEF Store, TypeOK
  <2> QED BY <2>1, <2>2 DEF Entity, Stored
<1>4. CASE Write(r)
  <2>1. schedules'[orderId[r]] = Merge(row, r)
    BY <1>0, <1>2, <1>4, WriteStores DEF Store, TypeOK
  <2>2. /\ Differing(r, row) \subseteq patch[r]
        /\ loaded[r] = row /\ row # Null
    BY <1>0, <1>4 DEF Write, RequestKnows, HoldsOldRow
  <2>3. \A column \in Columns :
            column \notin patch[r] => Entity(r)[column] = row[column]
    BY <2>2 DEF Differing
  <2>4. Merge(row, r) =
            [deliveryDate |-> Entity(r).deliveryDate,
             windowStart |-> Entity(r).windowStart,
             windowEnd |-> Entity(r).windowEnd,
             status |-> Entity(r).status]
    <3>1. /\ "deliveryDate" \notin patch[r] =>
               Entity(r)["deliveryDate"] = row["deliveryDate"]
          /\ "windowStart" \notin patch[r] =>
               Entity(r)["windowStart"] = row["windowStart"]
          /\ "windowEnd" \notin patch[r] =>
               Entity(r)["windowEnd"] = row["windowEnd"]
          /\ "status" \notin patch[r] => Entity(r)["status"] = row["status"]
      BY <2>3 DEF Columns
    <3> QED BY <3>1 DEF Merge
  <2>5. CASE op[r] = "confirm"
    BY <1>2, <2>1, <2>2, <2>4, <2>5, EntityFacts DEF Stored
  <2>6. CASE op[r] # "confirm"
    BY <1>2, <2>1, <2>4, <2>6, EntityFacts DEF Stored
  <2> QED BY <2>5, <2>6
<1> QED BY <1>1, <1>3, <1>4

(***************************************************************************)
(* A request that no other has overtaken stores exactly what it was asked  *)
(* to.                                                                     *)
(***************************************************************************)
THEOREM NoLostUpdateWithoutRace == Spec => UndisturbedSavesAreExact
BY ExactStep, Invariance, PTL DEF Spec, UndisturbedSavesAreExact


(***************************************************************************)
(* A save breaks the window of a row that was good only if it is a confirm *)
(* whose copy of the window is not the one in the row: an INSERT stores a  *)
(* checked body, an UPDATE of define or reschedule replaces both times by  *)
(* those of a checked body, and a confirm that loaded the times in the row *)
(* leaves them.                                                            *)
(***************************************************************************)
LEMMA StaleStep == IInv /\ [Next]_vars =>
    \A o \in Orders :
        /\ schedules'[o] # Null /\ ~Valid(schedules'[o])
        /\ schedules[o] = Null \/ Valid(schedules[o])
        => \E r \in Requests :
             /\ Saves(r) /\ op[r] = "confirm" /\ orderId[r] = o
             /\ \/ loaded[r].windowStart # schedules[o].windowStart
                \/ loaded[r].windowEnd # schedules[o].windowEnd
<1> SUFFICES ASSUME IInv, [Next]_vars, NEW o \in Orders,
                    schedules'[o] # Null, ~Valid(schedules'[o]),
                    schedules[o] = Null \/ Valid(schedules[o])
             PROVE  \E r \in Requests :
                      /\ Saves(r) /\ op[r] = "confirm" /\ orderId[r] = o
                      /\ \/ loaded[r].windowStart # schedules[o].windowStart
                         \/ loaded[r].windowEnd # schedules[o].windowEnd
  OBVIOUS
<1>0. TypeOK
  BY DEF IInv
<1>1. PICK r \in Requests :
          /\ \/ Insert(r) /\ Store(orderId[r], Entity(r))
             \/ Write(r)
          /\ Goto(r, "emit")
  BY <1>0, WhoStores DEF Valid
<1>2. RequestKnows(r) /\ Saves(r)
  BY <1>0, <1>1 DEF IInv, Saves, Insert, Write, Goto, TypeOK
<1>3. /\ op[r] \in Operation /\ orderId[r] \in Orders
      /\ op[r] = "confirm" => loaded[r] \in Schedule
      /\ op[r] # "confirm" => dto[r] \in ScheduleDto
  BY <1>0, <1>2, EntityKnown DEF Saves
<1>4. CASE Insert(r) /\ Store(orderId[r], Entity(r))
  <2>1. op[r] = "define" /\ Checked(r)
    BY <1>2, <1>4 DEF Insert, RequestKnows
  <2>2. Valid(Entity(r))
    BY <1>3, <2>1, EntityFacts DEF Valid, Checked, ValidWindow
  <2>3. schedules'[orderId[r]] = Entity(r)
        /\ \A p \in Orders \ {orderId[r]} : schedules'[p] = schedules[p]
    BY <1>0, <1>3, <1>4 DEF Store, TypeOK
  <2> QED BY <2>2, <2>3
<1>5. CASE Write(r)
  <2> DEFINE row == schedules[orderId[r]]
  <2>1. /\ schedules'[orderId[r]] = Merge(row, r)
        /\ \A p \in Orders \ {orderId[r]} : schedules'[p] = schedules[p]
    BY <1>0, <1>3, <1>5, WriteStores DEF Store, TypeOK
  <2>2. HoldsOldRow(r) /\ Checked(r) /\ row # Null
    BY <1>2, <1>5 DEF Write, RequestKnows, HoldsOldRow
  <2>3. orderId[r] = o
    BY <2>1
  <2>4. CASE op[r] # "confirm"
    <3>1. /\ Merge(row, r).windowStart = dto[r].windowStart
          /\ Merge(row, r).windowEnd = dto[r].windowEnd
      BY <1>0, <1>2, <1>5, <2>4, MergeFacts DEF Write
    <3>2. Valid(Merge(row, r))
      BY <2>2, <2>4, <3>1 DEF Valid, Checked, ValidWindow
    <3> QED BY <2>1, <2>3, <3>2
  <2>5. CASE /\ op[r] = "confirm"
             /\ loaded[r].windowStart = row.windowStart
             /\ loaded[r].windowEnd = row.windowEnd
    <3>1. /\ Entity(r).windowStart = row.windowStart
          /\ Entity(r).windowEnd = row.windowEnd
      BY <1>3, <2>5, EntityFacts
    <3>2. /\ Merge(row, r).windowStart = row.windowStart
          /\ Merge(row, r).windowEnd = row.windowEnd
      BY <3>1 DEF Merge
    <3>3. Valid(Merge(row, r))
      BY <2>2, <2>3, <3>2 DEF Valid, ValidWindow
    <3> QED BY <2>1, <2>3, <3>3
  <2> QED BY <1>2, <2>3, <2>4, <2>5
<1> QED BY <1>1, <1>4, <1>5

(***************************************************************************)
(* A window that ends before it starts is always the work of a confirm     *)
(* that writes back times others have replaced.                            *)
(***************************************************************************)
THEOREM StaleConfirmIsTheCause == Spec => OnlyStaleConfirmBreaksTheWindow
BY StaleStep, Invariance, PTL DEF Spec, OnlyStaleConfirmBreaksTheWindow

-----------------------------------------------------------------------------
(***************************************************************************)
(* What the sales orders may rely on: seen from outside, a save is one     *)
(* define or one confirm.                                                  *)
(***************************************************************************)
LEMMA WhoPlaces ==
    ASSUME TypeOK, [Next]_vars
    PROVE  UNCHANGED placed \/ \E o \in Orders : PlaceOrder(o)
<1> USE DEF tables, Reject
<1>1. ASSUME NEW r \in Requests, Receive(r) \/ HandleAudit(r) \/ Fail(r)
      PROVE  UNCHANGED placed
  BY <1>1 DEF Receive, Define, Confirm, Reschedule, Call, HandleAudit, Fail
<1>2. ASSUME NEW r \in Requests, FindOrder(r) \/ FindSchedule(r) \/ Insert(r)
      PROVE  UNCHANGED placed
  BY <1>2 DEF FindOrder, FindSchedule, Insert, Store
<1>3. ASSUME NEW r \in Requests, Reload(r) \/ Write(r) \/ Emit(r) \/ Answer(r)
      PROVE  UNCHANGED placed
  BY <1>3 DEF Reload, Write, Store, Emit, Answer
<1>4. ASSUME Crash \/ Midnight \/ UNCHANGED vars PROVE UNCHANGED placed
  BY <1>4 DEF Crash, Midnight, vars
<1> QED BY <1>1, <1>2, <1>3, <1>4 DEF Next, Step

LEMMA SeenStatus ==
    ASSUME TypeOK, NEW o \in Orders, NEW row \in Schedule, Store(o, row)
    PROVE  /\ [p \in Orders |-> StatusOf(p)]'
                = [[p \in Orders |-> StatusOf(p)] EXCEPT ![o] = row.status]
           /\ UNCHANGED placed
<1>1. schedules' = [schedules EXCEPT ![o] = row] /\ UNCHANGED placed
  BY DEF Store
<1>2. StatusOf(o)' = row.status
  BY <1>1, NullFacts DEF StatusOf, TypeOK
<1>3. ASSUME NEW p \in Orders \ {o} PROVE StatusOf(p)' = StatusOf(p)
  BY <1>1 DEF StatusOf, TypeOK
<1> QED BY <1>1, <1>2, <1>3

LEMMA TableStep ==
    ASSUME IInv, [Next]_vars
    PROVE  [Table!Next]_<<placed, [o \in Orders |-> StatusOf(o)]>>
<1> DEFINE status == [o \in Orders |-> StatusOf(o)]
<1>0. TypeOK
  BY DEF IInv
<1>1. ASSUME NEW o \in Orders, PlaceOrder(o) PROVE Table!Next
  BY <1>1 DEF PlaceOrder, Table!Next, Table!Place, StatusOf
<1>2. CASE UNCHANGED <<placed, schedules>>
  BY <1>2 DEF StatusOf
<1>3. ASSUME NEW o \in Orders, NEW row \in Schedule, Store(o, row), o \in placed,
             row.status = "PENDING" \/ schedules[o] # Null
      PROVE  Table!Next
  <2>1. UNCHANGED placed /\ status' = [status EXCEPT ![o] = row.status]
    BY <1>0, <1>3, SeenStatus
  <2>2. row.status \in {"PENDING", "CONFIRMED"}
    BY DEF Schedule, SchedulingStatus
  <2>3. CASE row.status = "PENDING"
    BY <1>3, <2>1, <2>3 DEF Table!Next, Table!Define
  <2>4. CASE row.status = "CONFIRMED"
    <3>1. schedules[o] # Null
      BY <1>3, <2>4
    <3>2. StatusOf(o) # "NONE"
      BY <1>0, <3>1 DEF StatusOf, TypeOK, Schedule, SchedulingStatus
    <3> QED BY <2>1, <2>4, <3>2 DEF Table!Next, Table!Confirm
  <2> QED BY <2>2, <2>3, <2>4
<1>4. ASSUME NEW r \in Requests, Insert(r), Store(orderId[r], Entity(r))
      PROVE  Table!Next
  <2>1. op[r] = "define" /\ orderId[r] \in placed
    BY <1>4 DEF Insert, IInv, RequestKnows
  <2>2. orderId[r] \in Orders /\ Entity(r) \in Schedule /\ Entity(r).status = "PENDING"
    BY <1>0, <1>4, <2>1, EntityKnown, EntityFacts DEF Insert, IInv
  <2> QED BY <1>3, <1>4, <2>1, <2>2
<1>5. ASSUME NEW r \in Requests, Write(r) PROVE Table!Next
  <2>1. pc[r] = "write" /\ RequestKnows(r)
    BY <1>5 DEF Write, IInv
  <2>2. /\ orderId[r] \in Orders /\ schedules[orderId[r]] # Null
        /\ orderId[r] \in placed
    BY <1>0, <2>1, EntityKnown DEF RequestKnows, HoldsOldRow, IInv, PendingComesFirst
  <2>3. Merge(schedules[orderId[r]], r) \in Schedule
    BY <1>0, <2>1, MergeFacts
  <2> QED BY <1>3, <1>5, <2>2, <2>3, WriteStores
<1> QED BY <1>0, <1>1, <1>2, <1>4, <1>5, WhoPlaces, WhoStores

(***************************************************************************)
(* The scheduling service is one that SalesOrders has been verified with:  *)
(* its table behaves as ScheduleTable.                                     *)
(***************************************************************************)
THEOREM FitsTheOrders == Spec => ImplementsScheduleTable
<1>1. Init => Table!Init
  BY DEF Init, Table!Init, StatusOf
<1> QED
  BY <1>1, TableStep, Invariance, PTL DEF Spec, ImplementsScheduleTable, Table!Spec

-----------------------------------------------------------------------------
(***************************************************************************)
(* When the services do what they say.  The window that a lock would have  *)
(* to cover: from findOne to the statement that saves.  NoOverlap is about *)
(* requests for one order; those for different orders may interleave, and  *)
(* so may the checks before the window and the audit after it.             *)
(***************************************************************************)
Between(r) == pc[r] \in {"insert", "reload", "write"}

NoOverlap ==
    \A q, r \in Requests :
        Between(q) /\ Between(r) /\ orderId[q] = orderId[r] => q = r

\* The copy of a request in the window is the row: see HoldsOldRow.
Fresh == \A r \in Requests : Between(r) => r \notin overtaken

LEMMA QuietKeepsFresh ==
    ASSUME IInv, Fresh, NEW q \in Requests, Quiet(q)
    PROVE  Fresh'
<1>1. /\ TypeOK /\ overtaken' \in {overtaken, overtaken \ {q}}
      /\ \A r \in Requests \ {q} : pc'[r] = pc[r]
  BY QuietFrame DEF IInv, SameSlot
<1>2. CASE FindSchedule(q)
  <2>1. Reject(q) \/ overtaken' = overtaken \ {q}
    BY <1>2 DEF FindSchedule
  <2>2. Reject(q) => pc'[q] = "idle"
    BY <1>1 DEF Reject, Release, Goto, TypeOK
  <2> QED BY <1>1, <2>1, <2>2 DEF Fresh, Between
<1>3. CASE Receive(q) \/ Reject(q) \/ FindOrder(q) \/ Emit(q)
  <2>1. pc'[q] \in {"findOrder", "findSchedule", "idle", "answer"}
    BY <1>1, <1>3 DEF Receive, Define, Confirm, Reschedule, Call, FindOrder, Emit,
       Reject, Release, Goto, TypeOK
  <2> QED BY <1>1, <2>1 DEF Fresh, Between
<1>4. CASE Reload(q) \/ HandleAudit(q)
  <2>1. Between(q)' => Between(q)
    BY <1>1, <1>4 DEF Reload, HandleAudit, Between
  <2> QED BY <1>1, <2>1 DEF Fresh, Between
<1> QED BY <1>2, <1>3, <1>4 DEF Quiet

(***************************************************************************)
(* A save marks the requests that stand in the window of its order: under  *)
(* NoOverlap the one that saves, which leaves it.                          *)
(***************************************************************************)
LEMMA SaveKeepsFresh ==
    ASSUME IInv, Fresh, NoOverlap, NEW q \in Requests, NEW row, Between(q),
           Store(orderId[q], row), Goto(q, "emit")
    PROVE  Fresh'
<1>1. \A r \in Requests : r \in overtaken' => r \in overtaken \/ r = q
  BY DEF Store, NoOverlap, Between
<1>2. \A r \in Requests \ {q} : pc'[r] = pc[r]
  BY DEF Goto, IInv, TypeOK
<1>3. ~Between(q)'
  BY DEF Goto, Between, IInv, TypeOK
<1> QED BY <1>1, <1>2, <1>3 DEF Fresh, Between

LEMMA FreshStep == IInv /\ Fresh /\ NoOverlap /\ [Next]_vars => Fresh'
<1> SUFFICES ASSUME IInv, Fresh, NoOverlap, [Next]_vars PROVE Fresh'
  OBVIOUS
<1>1. ASSUME NEW q \in Requests, Quiet(q) PROVE Fresh'
  BY <1>1, QuietKeepsFresh
<1>2. ASSUME NEW q \in Requests, Answer(q) \/ Fail(q) PROVE Fresh'
  BY <1>1, <1>2 DEF Answer, Fail, Quiet
<1>3. ASSUME NEW q \in Requests, Insert(q) PROVE Fresh'
  <2>1. Reject(q) \/ (Store(orderId[q], Entity(q)) /\ Goto(q, "emit"))
    BY <1>3 DEF Insert
  <2>2. Between(q)
    BY <1>3 DEF Insert, Between
  <2> QED BY <1>1, <2>1, <2>2, SaveKeepsFresh DEF Quiet
<1>4. ASSUME NEW q \in Requests, Write(q) PROVE Fresh'
  <2>1. Between(q) /\ Goto(q, "emit")
    BY <1>4 DEF Write, Between
  <2> QED BY <1>4, <2>1, WriteStores, SaveKeepsFresh
<1>5. CASE Crash
  BY <1>5 DEF Crash, Fresh, Between
<1>6. CASE (\E o \in Orders : PlaceOrder(o)) \/ Midnight \/ UNCHANGED vars
  BY <1>6 DEF PlaceOrder, Midnight, vars, tables, slots, Fresh, Between
<1> QED BY <1>1, <1>2, <1>3, <1>4, <1>5, <1>6 DEF Next, Step, Quiet

(***************************************************************************)
(* As long as requests for one order do not overlap, what a request has    *)
(* loaded is the row until it has saved.                                   *)
(***************************************************************************)
THEOREM CopiesAreFresh == Spec /\ []NoOverlap => []Fresh
<1>1. Init => Fresh
  BY DEF Init, Fresh, Between
<1> QED BY <1>1, FreshStep, Invariance, PTL DEF Spec

(***************************************************************************)
(* "Voltando ao estado PENDING" is true of reschedule as long as requests  *)
(* for one order do not overlap.                                           *)
(***************************************************************************)
THEOREM RescheduleAlone == Spec /\ []NoOverlap => RescheduleReturnsToPending
<1> DEFINE Returns ==
      \A r \in Requests :
          pc[r] = "write" /\ op[r] = "reschedule" /\ pc'[r] = "emit"
             => schedules'[orderId[r]].status = "PENDING"
<1>1. IInv /\ Fresh /\ [Next]_vars => [Returns]_vars
  <2> SUFFICES ASSUME IInv, Fresh, [Next]_vars, NEW r \in Requests,
                      pc[r] = "write", op[r] = "reschedule", pc'[r] = "emit"
               PROVE  schedules'[orderId[r]].status = "PENDING"
    OBVIOUS
  <2>1. Saves(r) /\ r \notin overtaken
    BY DEF Saves, Fresh, Between
  <2>2. Stored(schedules'[orderId[r]], dto[r], "PENDING")
    BY <2>1, ExactStep
  <2>3. ASSUME NEW row, Stored(row, dto[r], "PENDING") PROVE row.status = "PENDING"
    BY <2>3 DEF Stored
  <2> QED BY <2>2, <2>3
<1> QED BY <1>1, CopiesAreFresh, Invariance, PTL DEF Spec, RescheduleReturnsToPending

(***************************************************************************)
(* Then no window ends before it starts, either: the only save that breaks *)
(* one is a confirm with a copy that is not the row.                       *)
(***************************************************************************)
WindowsAreValid == \A o \in Orders : schedules[o] # Null => Valid(schedules[o])

THEOREM WindowsAlone == Spec /\ []NoOverlap => []WindowsAreValid
<1>1. Init => WindowsAreValid
  BY DEF Init, WindowsAreValid
<1>2. IInv /\ Fresh /\ WindowsAreValid /\ [Next]_vars => WindowsAreValid'
  <2> SUFFICES ASSUME IInv, Fresh, WindowsAreValid, [Next]_vars, NEW o \in Orders,
                      schedules'[o] # Null, ~Valid(schedules'[o])
               PROVE  FALSE
    BY DEF WindowsAreValid, Valid
  <2>1. PICK r \in Requests :
            /\ Saves(r) /\ op[r] = "confirm" /\ orderId[r] = o
            /\ \/ loaded[r].windowStart # schedules[o].windowStart
               \/ loaded[r].windowEnd # schedules[o].windowEnd
    BY StaleStep DEF WindowsAreValid
  <2>2. RequestKnows(r) /\ r \notin overtaken
    BY <2>1 DEF IInv, Fresh, Between, Saves
  <2>3. pc[r] = "write"
    BY <2>1, <2>2 DEF Saves, RequestKnows
  <2>4. loaded[r] = schedules[o]
    BY <2>1, <2>2, <2>3 DEF RequestKnows, HoldsOldRow
  <2> QED BY <2>1, <2>4
<1> QED BY <1>1, <1>2, CopiesAreFresh, Invariance, PTL DEF Spec

=============================================================================
