-------------------------- MODULE AuditTrailProofs --------------------------
(***************************************************************************)
(* What the audit trail keeps, for any number of requests, orders, changes *)
(* and moments.                                                            *)
(***************************************************************************)
EXTENDS AuditTrail, FiniteSetTheorems, TLAPS

LEMMA Moments ==
    /\ Time \subseteq Nat
    /\ Null \notin Nat /\ Null \notin SalesOrder /\ Null \notin Body
    /\ MaxChanges \in Nat
BY BoundAssumption, NullAssumption DEF Time

-----------------------------------------------------------------------------
(***************************************************************************)
(* Room for the changes on their way.                                      *)
(***************************************************************************)
LEMMA SavingIsFinite ==
    IsFiniteSet(Saving) /\ Cardinality(Saving) \in Nat
BY RequestsAssumption, FS_Subset, FS_CardinalityType DEF Saving

LEMMA RoomToSave ==
    ASSUME TrailTypeOK, RoomForChanges, NEW r \in Requests, pc[r] \in {"begin", "save"}
    PROVE  /\ Len(changes) + 1 <= MaxChanges
           /\ Cardinality(Saving \ {r}) = Cardinality(Saving) - 1
<1>1. r \in Saving BY DEF Saving
<1>2. /\ IsFiniteSet(Saving \ {r})
      /\ Cardinality(Saving \ {r}) = Cardinality(Saving) - 1
  BY <1>1, SavingIsFinite, FS_RemoveElement
<1>3. Cardinality(Saving \ {r}) \in Nat
  BY <1>2, FS_CardinalityType
<1> QED BY <1>2, <1>3, SavingIsFinite, Moments DEF RoomForChanges, TrailTypeOK

LEMMA RoomStays ==
    ASSUME TrailTypeOK, RoomForChanges, Saving' \subseteq Saving, changes' = changes
    PROVE  RoomForChanges'
<1>1. Cardinality(Saving') \in Nat /\ Cardinality(Saving') <= Cardinality(Saving)
  BY SavingIsFinite, FS_Subset, FS_CardinalityType
<1> QED BY <1>1, SavingIsFinite, Moments DEF RoomForChanges, TrailTypeOK

-----------------------------------------------------------------------------
(***************************************************************************)
(* Types.                                                                  *)
(***************************************************************************)
LEMMA TypeInit == TrailInit => TrailTypeOK
<1> SUFFICES ASSUME TrailInit PROVE TrailTypeOK
  OBVIOUS
<1>1. FirstTick \in Time BY BoundAssumption DEF Time
<1>2. <<>> \in Seq(Change) /\ Len(<<>>) = 0 OBVIOUS
<1> QED BY <1>1, <1>2, Moments DEF TrailInit, TrailTypeOK, PC

LEMMA SettleTypes ==
    ASSUME TrailTypeOK, NEW n \in 1..MaxChanges, Settle(n)
    PROVE  /\ inFlight' \subseteq 1..MaxChanges
           /\ inserting' \in [1..MaxChanges -> Time \cup {Null}]
BY DEF TrailTypeOK, Settle

LEMMA RowTypes ==
    ASSUME TrailTypeOK, NEW r \in Requests, RequestKnows(r), pc[r] = "save"
    PROVE  Row(r) \in SalesOrder
<1>1. /\ body[r].order \in OrderIds /\ body[r].status \in Status
      /\ began[r] \in Time \/ orders[body[r].order] # Null
  BY DEF RequestKnows, Body
<1> QED BY <1>1 DEF Row, SalesOrder, TrailTypeOK

LEMMA SaveTypes ==
    ASSUME TrailIInv, NEW r \in Requests, Save(r)
    PROVE  TrailTypeOK'
<1>0. TrailTypeOK /\ RequestKnows(r) /\ pc[r] = "save"
  BY DEF TrailIInv, TrailInv, Save
<1>1. body[r].order \in OrderIds
  BY <1>0 DEF RequestKnows, Body
<1>2. Row(r) \in SalesOrder
  BY <1>0, RowTypes
<1>3. orders' \in [OrderIds -> SalesOrder \cup {Null}]
  BY <1>0, <1>1, <1>2 DEF Save, TrailTypeOK
<1>4. Len(changes) \in Nat /\ Len(changes) + 1 <= MaxChanges
  <2>1. RoomForChanges BY DEF TrailIInv, TrailInv
  <2>2. Len(changes) + 1 <= MaxChanges BY <1>0, <2>1, RoomToSave
  <2> QED BY <1>0, <2>2 DEF TrailTypeOK
<1> DEFINE new == [action   |-> IF orders[body[r].order] = Null
                                  THEN "SALES_ORDER_CREATED"
                                  ELSE "SALES_ORDER_STATUS_CHANGED",
                   entityId |-> body[r].order,
                   after    |-> Recorded]
<1>5. new \in Change
  <2>1. Recorded \subseteq 1..MaxChanges
    BY <1>0 DEF Recorded, AuditEvent, TrailTypeOK
  <2> QED BY <1>0, <1>1, <2>1 DEF Change, AuditAction, TrailTypeOK
<1>6. changes' \in Seq(Change) /\ Len(changes') = Len(changes) + 1
  <2> HIDE DEF new
  <2>1. changes' = Append(changes, new) BY DEF Save, new
  <2> QED BY <1>0, <1>5, <2>1 DEF TrailTypeOK
<1>7. change' \in [Requests -> 1..MaxChanges \cup {Null}]
  BY <1>0, <1>4, Moments DEF Save, TrailTypeOK
<1> QED BY <1>0, <1>3, <1>4, <1>6, <1>7 DEF Save, Goto, TrailTypeOK, PC

LEMMA TrailTypes ==
    ASSUME TrailIInv, TrailNext
    PROVE  TrailTypeOK'
<1>0. TrailTypeOK /\ \A r \in Requests : RequestKnows(r)
  BY DEF TrailIInv, TrailInv
<1>1. ASSUME NEW r \in Requests, Create(r) \/ UpdateStatus(r) PROVE TrailTypeOK'
  <2>1. PICK label \in {"begin", "save"}, o \in OrderIds, status \in Status :
            Call(r, label, o, status)
    BY <1>1, CreatedAssumption DEF Create, UpdateStatus
  <2>2. [order |-> o, status |-> status] \in Body
    BY DEF Body
  <2> QED BY <1>0, <2>1, <2>2 DEF Call, Goto, history, TrailTypeOK, PC
<1>2. ASSUME NEW r \in Requests, BeginInsert(r) PROVE TrailTypeOK'
  BY <1>0, <1>2 DEF BeginInsert, Goto, history, TrailTypeOK, PC
<1>3. ASSUME NEW r \in Requests, Save(r) PROVE TrailTypeOK'
  BY <1>3, SaveTypes
<1>4. ASSUME NEW r \in Requests, Emit(r) PROVE TrailTypeOK'
  <2>1. change[r] \in 1..MaxChanges
    BY <1>0, <1>4, Moments DEF Emit, RequestKnows, Changed, Numbers, TrailTypeOK
  <2> QED BY <1>0, <1>4, <2>1 DEF Emit, Goto, history, TrailTypeOK, PC
<1>5. ASSUME NEW r \in Requests, Answer(r) PROVE TrailTypeOK'
  <2>1. change[r] \in 1..MaxChanges
    BY <1>0, <1>5, Moments DEF Answer, RequestKnows, Changed, Numbers, TrailTypeOK
  <2> QED BY <1>0, <1>5, <2>1 DEF Answer, Release, Goto, history, TrailTypeOK, PC
<1>6. ASSUME NEW r \in Requests, Fail(r) PROVE TrailTypeOK'
  BY <1>0, <1>6 DEF Fail, Release, Goto, history, TrailTypeOK, PC
<1>7. ASSUME NEW n \in 1..MaxChanges, Handle(n) PROVE TrailTypeOK'
  BY <1>0, <1>7 DEF Handle, history, TrailTypeOK
<1>8. ASSUME NEW n \in 1..MaxChanges, Record(n) PROVE TrailTypeOK'
  <2>1. [change |-> n, occurredAt |-> inserting[n]] \in AuditEvent
    BY <1>0, <1>8 DEF Record, AuditEvent, TrailTypeOK
  <2> QED BY <1>0, <1>8, <2>1, SettleTypes DEF Record, history, TrailTypeOK
<1>9. ASSUME NEW n \in 1..MaxChanges, Refuse(n) PROVE TrailTypeOK'
  BY <1>0, <1>9, SettleTypes DEF Refuse, TrailTypeOK
<1>10. CASE Crash
  BY <1>0, <1>10 DEF Crash, history, TrailTypeOK, PC
<1>11. CASE Tick
  BY <1>0, <1>11, BoundAssumption DEF Tick, history, TrailTypeOK, Time
<1> QED BY <1>1, <1>2, <1>3, <1>4, <1>5, <1>6, <1>7, <1>8, <1>9, <1>10, <1>11
        DEF TrailNext, Step, Listener

-----------------------------------------------------------------------------
\* Whatever is said of the trail is said of its variables.
LEMMA TrailStays ==
    ASSUME UNCHANGED trail
    PROVE  TrailIInv => TrailIInv'
<1>1. /\ now' = now /\ orders' = orders /\ events' = events /\ pc' = pc /\ body' = body
      /\ began' = began /\ change' = change /\ inFlight' = inFlight
      /\ inserting' = inserting /\ changes' = changes /\ refused' = refused
  BY DEF trail, history
<1>2. Recorded' = Recorded /\ Numbers' = Numbers /\ Saving' = Saving
  BY <1>1 DEF Recorded, Numbers, Saving
<1>3. TrailTypeOK => TrailTypeOK'
  BY <1>1 DEF TrailTypeOK
<1>4. ASSUME NEW r \in Requests, RequestKnows(r) PROVE RequestKnows(r)'
  BY <1>1, <1>2, <1>4 DEF RequestKnows, Changed
<1>5. RoomForChanges => RoomForChanges'
  BY <1>1, <1>2 DEF RoomForChanges
<1>6. OwnChanges => OwnChanges'
  BY <1>1 DEF OwnChanges, Changed
<1>7. ChangesComeFirst => ChangesComeFirst'
  BY <1>1, <1>2 DEF ChangesComeFirst
<1>8. TimesRise => TimesRise'
  BY <1>1, <1>2 DEF TimesRise
<1> QED BY <1>3, <1>4, <1>5, <1>6, <1>7, <1>8 DEF TrailIInv, TrailInv

-----------------------------------------------------------------------------
(***************************************************************************)
(* The steps of a request.                                                 *)
(***************************************************************************)
Frame(r) ==
    \A q \in Requests \ {r} :
        /\ pc'[q] = pc[q] /\ body'[q] = body[q]
        /\ began'[q] = began[q] /\ change'[q] = change[q]

LEMMA KnowledgeStays ==
    ASSUME NEW q \in Requests, RequestKnows(q),
           pc'[q] = pc[q], body'[q] = body[q], began'[q] = began[q],
           change'[q] = change[q],
           \A o \in OrderIds : orders[o] # Null => orders'[o] # Null,
           Numbers \subseteq Numbers',
           pc[q] = "emit" => change[q] \notin inFlight' \cup Recorded'
    PROVE  RequestKnows(q)'
BY DEF RequestKnows, Changed, Body

LEMMA OwnStays ==
    ASSUME OwnChanges,
           \A q \in Requests : Changed(q)' => Changed(q) /\ change'[q] = change[q]
    PROVE  OwnChanges'
BY DEF OwnChanges

\* A step that is not about a change that was committed.
LEMMA QuietStep ==
    ASSUME TrailIInv, NEW r \in Requests, Frame(r),
           UNCHANGED <<now, orders, events, inFlight, inserting, history>>,
           RequestKnows(r)', ~Changed(r)', RoomForChanges'
    PROVE  TrailInv'
<1>0. /\ TrailTypeOK /\ \A q \in Requests : RequestKnows(q)
      /\ OwnChanges /\ ChangesComeFirst /\ TimesRise
  BY DEF TrailIInv, TrailInv
<1>1. /\ UNCHANGED <<changes, refused>>
      /\ Recorded' = Recorded /\ Numbers' = Numbers
  BY DEF history, Recorded, Numbers
<1>2. ASSUME NEW q \in Requests \ {r} PROVE RequestKnows(q)'
  BY <1>0, <1>1 DEF Frame, RequestKnows, Changed
<1>3. OwnChanges'
  <2>1. \A q \in Requests : Changed(q)' => Changed(q) /\ change'[q] = change[q]
    BY DEF Frame, Changed
  <2> QED BY <1>0, <2>1, OwnStays
<1>4. ChangesComeFirst'
  BY <1>0, <1>1 DEF ChangesComeFirst
<1>5. TimesRise'
  BY <1>0, <1>1 DEF TimesRise
<1> QED BY <1>2, <1>3, <1>4, <1>5 DEF TrailInv

LEMMA CallInv ==
    ASSUME TrailIInv, NEW r \in Requests, Create(r) \/ UpdateStatus(r)
    PROVE  TrailInv'
<1>0. TrailTypeOK /\ RoomForChanges
  BY DEF TrailIInv, TrailInv
<1>1. PICK label \in {"begin", "save"}, o \in OrderIds, status \in Status :
          Call(r, label, o, status) /\ (label = "save" => orders[o] # Null)
  BY CreatedAssumption DEF Create, UpdateStatus
<1>2. /\ pc'[r] = label /\ body'[r] = [order |-> o, status |-> status]
      /\ Frame(r) /\ orders' = orders /\ changes' = changes
  BY <1>0, <1>1 DEF Call, Goto, Frame, history, TrailTypeOK
<1>3. /\ ~Changed(r)'
      /\ RequestKnows(r)'
  BY <1>1, <1>2 DEF RequestKnows, Changed, Body
<1>4. RoomForChanges'
  <2>1. Saving' = Saving \cup {r} /\ r \notin Saving
    BY <1>1, <1>2 DEF Saving, Call, Frame
  <2>2. Cardinality(Saving') = Cardinality(Saving) + 1
    BY <2>1, SavingIsFinite, FS_AddElement
  <2> QED BY <1>0, <1>1, <1>2, <2>2, SavingIsFinite, Moments
          DEF Call, RoomForChanges, TrailTypeOK
<1> QED BY <1>1, <1>2, <1>3, <1>4, QuietStep DEF Call

LEMMA BeginInv ==
    ASSUME TrailIInv, NEW r \in Requests, BeginInsert(r)
    PROVE  TrailInv'
<1>0. TrailTypeOK /\ RoomForChanges /\ RequestKnows(r)
  BY DEF TrailIInv, TrailInv
<1>1. /\ pc[r] = "begin" /\ pc'[r] = "save" /\ began'[r] = now /\ body' = body
      /\ Frame(r) /\ changes' = changes
  BY <1>0 DEF BeginInsert, Goto, Frame, history, TrailTypeOK
<1>2. RequestKnows(r)' /\ ~Changed(r)'
  BY <1>0, <1>1 DEF RequestKnows, Changed, TrailTypeOK
<1>3. Saving' = Saving
  BY <1>1 DEF Saving, Frame
<1>4. RoomForChanges'
  BY <1>0, <1>1, <1>3, RoomStays
<1> QED BY <1>1, <1>2, <1>4, QuietStep DEF BeginInsert

LEMMA FailInv ==
    ASSUME TrailIInv, NEW r \in Requests, Fail(r)
    PROVE  TrailInv'
<1>0. TrailTypeOK /\ RoomForChanges
  BY DEF TrailIInv, TrailInv
<1>1. pc'[r] = "idle" /\ Frame(r) /\ changes' = changes
  BY <1>0 DEF Fail, Release, Goto, Frame, history, TrailTypeOK
<1>2. RequestKnows(r)' /\ ~Changed(r)'
  BY <1>1 DEF RequestKnows, Changed
<1>3. Saving' \subseteq Saving
  BY <1>1 DEF Saving, Frame
<1>4. RoomForChanges'
  BY <1>0, <1>1, <1>3, RoomStays
<1> QED BY <1>1, <1>2, <1>4, QuietStep DEF Fail

\* What the commit of a change does to the history.
LEMMA Appended ==
    ASSUME TrailIInv, NEW r \in Requests, Save(r)
    PROVE  /\ Len(changes) \in Nat /\ Len(changes') = Len(changes) + 1
           /\ Numbers' = Numbers \cup {Len(changes) + 1}
           /\ Len(changes) + 1 \notin Numbers
           /\ Len(changes) + 1 \in 1..MaxChanges
           /\ \A n \in Numbers : changes'[n] = changes[n]
           /\ changes'[Len(changes) + 1].after = Recorded
<1>0. TrailTypeOK /\ RoomForChanges /\ pc[r] = "save"
  BY DEF TrailIInv, TrailInv, Save
<1>1. Len(changes) \in Nat /\ Len(changes) + 1 <= MaxChanges
  <2>1. Len(changes) + 1 <= MaxChanges BY <1>0, RoomToSave
  <2> QED BY <1>0, <2>1 DEF TrailTypeOK
<1> DEFINE new == [action   |-> IF orders[body[r].order] = Null
                                  THEN "SALES_ORDER_CREATED"
                                  ELSE "SALES_ORDER_STATUS_CHANGED",
                   entityId |-> body[r].order,
                   after    |-> Recorded]
<1>2. changes' = Append(changes, new)
  BY DEF Save
<1>3. new.after = Recorded
  OBVIOUS
<1> HIDE DEF new
<1>4. /\ Len(changes') = Len(changes) + 1
      /\ \A n \in 1..Len(changes) : changes'[n] = changes[n]
      /\ changes'[Len(changes) + 1] = new
  BY <1>0, <1>2 DEF TrailTypeOK
<1> QED BY <1>1, <1>3, <1>4, Moments DEF Numbers

LEMMA SaveInv ==
    ASSUME TrailIInv, NEW r \in Requests, Save(r)
    PROVE  TrailInv'
<1>0. /\ TrailTypeOK /\ RoomForChanges /\ \A q \in Requests : RequestKnows(q)
      /\ OwnChanges /\ ChangesComeFirst /\ TimesRise
  BY DEF TrailIInv, TrailInv
<1> DEFINE n == Len(changes) + 1
<1>1. /\ pc[r] = "save" /\ pc'[r] = "emit" /\ change'[r] = n /\ Frame(r)
      /\ UNCHANGED <<now, events, inFlight, inserting, refused>>
      /\ Recorded' = Recorded
  BY <1>0 DEF Save, Goto, Frame, TrailTypeOK, Recorded
<1>2. /\ Numbers' = Numbers \cup {n} /\ n \notin Numbers /\ n \in 1..MaxChanges
      /\ \A m \in Numbers : changes'[m] = changes[m]
      /\ changes'[n].after = Recorded /\ Len(changes') = n /\ Len(changes) \in Nat
  BY Appended
<1> HIDE DEF n
<1>3. n \notin inFlight \cup Recorded
  BY <1>0, <1>2 DEF ChangesComeFirst
<1>4. RequestKnows(r)'
  BY <1>1, <1>2, <1>3 DEF RequestKnows, Changed
<1>5. ASSUME NEW q \in Requests \ {r} PROVE RequestKnows(q)'
  <2>1. Row(r) # Null
    BY <1>0, <1>1, RowTypes, Moments
  <2>2. \A o \in OrderIds : orders[o] # Null => orders'[o] # Null
    BY <1>0, <2>1 DEF Save, TrailTypeOK
  <2>3. /\ pc'[q] = pc[q] /\ body'[q] = body[q] /\ began'[q] = began[q]
        /\ change'[q] = change[q]
    BY <1>1 DEF Frame
  <2> QED BY <1>0, <1>1, <1>2, <2>2, <2>3, KnowledgeStays DEF RequestKnows
<1>6. RoomForChanges'
  <2>1. Saving' = Saving \ {r}
    BY <1>1 DEF Saving, Frame
  <2>2. Cardinality(Saving') = Cardinality(Saving) - 1
    BY <1>0, <1>1, <2>1, RoomToSave
  <2>3. Len(changes') = Len(changes) + 1
    BY <1>2 DEF n
  <2> QED BY <1>0, <1>2, <2>2, <2>3, SavingIsFinite, Moments DEF RoomForChanges
<1>7. OwnChanges'
  <2>1. ASSUME NEW q \in Requests \ {r}, Changed(q)'
        PROVE  Changed(q) /\ change'[q] = change[q] /\ change[q] \in Numbers
    BY <1>0, <1>1, <2>1 DEF Frame, Changed, RequestKnows
  <2> QED BY <1>0, <1>1, <1>2, <2>1 DEF OwnChanges
<1>8. ChangesComeFirst'
  BY <1>0, <1>1, <1>2 DEF ChangesComeFirst
<1>9. TimesRise'
  <2>1. inserting[n] = Null
    BY <1>0, <1>2, <1>3 DEF ChangesComeFirst
  <2> QED BY <1>0, <1>1, <1>2, <2>1 DEF TimesRise
<1> QED BY <1>4, <1>5, <1>6, <1>7, <1>8, <1>9 DEF TrailInv

LEMMA EmitInv ==
    ASSUME TrailIInv, NEW r \in Requests, Emit(r)
    PROVE  TrailInv'
<1>0. /\ TrailTypeOK /\ RoomForChanges /\ \A q \in Requests : RequestKnows(q)
      /\ OwnChanges /\ ChangesComeFirst /\ TimesRise
  BY DEF TrailIInv, TrailInv
<1>1. /\ pc[r] = "emit" /\ pc'[r] = "answer"
      /\ Frame(r) /\ change' = change /\ inFlight' = inFlight \cup {change[r]}
      /\ UNCHANGED <<now, orders, events, inserting, changes, refused>>
      /\ Recorded' = Recorded /\ Numbers' = Numbers
  BY <1>0 DEF Emit, Goto, Frame, history, TrailTypeOK, Recorded, Numbers
<1>2. change[r] \in Numbers /\ change[r] \notin inFlight \cup Recorded
  BY <1>0, <1>1 DEF RequestKnows, Changed
<1>3. RequestKnows(r)'
  BY <1>1, <1>2 DEF RequestKnows, Changed
<1>4. ASSUME NEW q \in Requests \ {r} PROVE RequestKnows(q)'
  <2>1. Changed(q) => change[q] # change[r]
    BY <1>0, <1>1 DEF OwnChanges, Changed
  <2> QED BY <1>0, <1>1, <2>1, KnowledgeStays DEF Frame, RequestKnows, Changed
<1>5. RoomForChanges'
  <2>1. Saving' = Saving
    BY <1>1 DEF Saving, Frame
  <2> QED BY <1>0, <1>1, <2>1, RoomStays
<1>6. OwnChanges'
  <2>1. \A q \in Requests : Changed(q)' => Changed(q) /\ change'[q] = change[q]
    BY <1>1 DEF Frame, Changed
  <2> QED BY <1>0, <2>1, OwnStays
<1>7. ChangesComeFirst'
  BY <1>0, <1>1, <1>2 DEF ChangesComeFirst
<1>8. TimesRise'
  BY <1>0, <1>1 DEF TimesRise
<1> QED BY <1>3, <1>4, <1>5, <1>6, <1>7, <1>8 DEF TrailInv

LEMMA AnswerInv ==
    ASSUME TrailIInv, NEW r \in Requests, Answer(r)
    PROVE  TrailInv'
<1>0. TrailTypeOK /\ RoomForChanges
  BY DEF TrailIInv, TrailInv
<1>1. pc[r] = "answer" /\ pc'[r] = "idle" /\ Frame(r) /\ changes' = changes
  BY <1>0 DEF Answer, Release, Goto, Frame, history, TrailTypeOK
<1>2. RequestKnows(r)' /\ ~Changed(r)'
  BY <1>1 DEF RequestKnows, Changed
<1>3. Saving' = Saving
  BY <1>1 DEF Saving, Frame
<1>4. RoomForChanges'
  BY <1>0, <1>1, <1>3, RoomStays
<1> QED BY <1>1, <1>2, <1>4, QuietStep DEF Answer

-----------------------------------------------------------------------------
(***************************************************************************)
(* The steps of the listener, a crash, and time.                           *)
(***************************************************************************)

LEMMA HandleInv ==
    ASSUME TrailIInv, NEW n \in 1..MaxChanges, Handle(n)
    PROVE  TrailInv'
<1>0. /\ TrailTypeOK /\ RoomForChanges /\ \A q \in Requests : RequestKnows(q)
      /\ OwnChanges /\ ChangesComeFirst /\ TimesRise
  BY DEF TrailIInv, TrailInv
<1>1. /\ UNCHANGED <<now, orders, events, pc, body, began, change, inFlight,
                     changes, refused>>
      /\ n \in inFlight /\ inserting' = [inserting EXCEPT ![n] = now]
      /\ Recorded' = Recorded /\ Numbers' = Numbers /\ Saving' = Saving
  BY DEF Handle, history, Recorded, Numbers, Saving
<1>2. ASSUME NEW q \in Requests PROVE RequestKnows(q)'
  BY <1>0, <1>1 DEF RequestKnows, Changed
<1>3. RoomForChanges' /\ OwnChanges'
  BY <1>0, <1>1 DEF RoomForChanges, OwnChanges, Changed
<1>4. ChangesComeFirst'
  BY <1>0, <1>1 DEF ChangesComeFirst, TrailTypeOK
<1>5. TimesRise'
  <2>1. \A e \in events : e.occurredAt <= now
    BY <1>0 DEF TimesRise
  <2>2. \A m \in 1..MaxChanges : inserting'[m] = IF m = n THEN now ELSE inserting[m]
    BY <1>0, <1>1 DEF TrailTypeOK
  <2>3. Numbers \subseteq 1..MaxChanges /\ now <= now
    BY <1>0, Moments DEF Numbers, TrailTypeOK, Time
  <2> QED BY <1>0, <1>1, <2>1, <2>2, <2>3 DEF TimesRise
<1> QED BY <1>2, <1>3, <1>4, <1>5 DEF TrailInv

\* The event of n leaves the listener, recorded or refused.
LEMMA SettleInv ==
    ASSUME TrailIInv, NEW n \in 1..MaxChanges, n \in inFlight, Settle(n),
           UNCHANGED <<now, orders, pc, body, began, change, changes>>,
           Recorded \subseteq Recorded', Recorded' \subseteq Recorded \cup {n}
    PROVE  /\ \A q \in Requests : RequestKnows(q)'
           /\ RoomForChanges' /\ OwnChanges' /\ ChangesComeFirst'
<1>0. /\ TrailTypeOK /\ RoomForChanges /\ \A q \in Requests : RequestKnows(q)
      /\ OwnChanges /\ ChangesComeFirst
  BY DEF TrailIInv, TrailInv
<1>1. /\ inFlight' = inFlight \ {n} /\ Numbers' = Numbers
      /\ \A m \in 1..MaxChanges : inserting'[m] = IF m = n THEN Null ELSE inserting[m]
      /\ \A m \in Recorded' : m \in Recorded \/ m = n
  BY <1>0 DEF Settle, TrailTypeOK, Numbers
<1>2. ASSUME NEW q \in Requests PROVE RequestKnows(q)'
  <2>1. pc[q] = "emit" => change[q] \notin inFlight' \cup Recorded'
    BY <1>0, <1>1 DEF RequestKnows
  <2> QED BY <1>0, <1>1, <2>1, KnowledgeStays
<1>3. RoomForChanges' /\ OwnChanges'
  BY <1>0 DEF RoomForChanges, Saving, OwnChanges, Changed
<1>4. ChangesComeFirst'
  <2>1. Recorded' \cup inFlight' \subseteq Numbers'
    BY <1>0, <1>1 DEF ChangesComeFirst
  <2>2. inFlight' \cap Recorded' = {}
    BY <1>0, <1>1 DEF ChangesComeFirst
  <2>3. \A m \in 1..MaxChanges : inserting'[m] # Null => m \in inFlight'
    BY <1>0, <1>1 DEF ChangesComeFirst
  <2>4. \A m \in Numbers' : changes'[m].after \subseteq Recorded'
    BY <1>0, <1>1 DEF ChangesComeFirst
  <2> QED BY <2>1, <2>2, <2>3, <2>4 DEF ChangesComeFirst
<1> QED BY <1>2, <1>3, <1>4

\* The row of an event, and those there were.
LEMMA Inserted ==
    ASSUME TrailTypeOK, NEW n \in 1..MaxChanges, Record(n)
    PROVE  /\ Recorded' = Recorded \cup {n}
           /\ \A e \in events' \ events : e.change = n /\ e.occurredAt = inserting[n]
<1> DEFINE row == [change |-> n, occurredAt |-> inserting[n]]
<1>1. events' = events \cup {row} /\ row.change = n /\ row.occurredAt = inserting[n]
  BY DEF Record
<1> QED BY <1>1 DEF Recorded

LEMMA RecordInv ==
    ASSUME TrailIInv, NEW n \in 1..MaxChanges, Record(n)
    PROVE  TrailInv'
<1>0. TrailTypeOK /\ ChangesComeFirst /\ TimesRise
  BY DEF TrailIInv, TrailInv
<1>1. /\ n \in inFlight /\ inserting[n] # Null /\ Settle(n)
      /\ UNCHANGED <<now, orders, pc, body, began, change, changes, refused>>
  BY DEF Record, history
<1>2. /\ Recorded' = Recorded \cup {n}
      /\ \A e \in events' \ events : e.change = n /\ e.occurredAt = inserting[n]
  BY <1>0, Inserted
<1>3. /\ \A q \in Requests : RequestKnows(q)'
      /\ RoomForChanges' /\ OwnChanges' /\ ChangesComeFirst'
  BY <1>1, <1>2, SettleInv
<1>4. TimesRise'
  <2>1. \A m \in 1..MaxChanges : inserting'[m] = IF m = n THEN Null ELSE inserting[m]
    BY <1>0, <1>1 DEF Settle, TrailTypeOK
  <2>2. \A e \in events' : e.occurredAt <= now
    BY <1>0, <1>1, <1>2 DEF TimesRise
  <2>3. ASSUME NEW m \in Numbers PROVE n \notin changes[m].after
    BY <1>0, <1>1, <2>3 DEF ChangesComeFirst
  <2>4. Numbers' = Numbers /\ Numbers \subseteq 1..MaxChanges
    BY <1>0, <1>1, Moments DEF Numbers, TrailTypeOK
  <2> QED BY <1>0, <1>1, <1>2, <2>1, <2>2, <2>3, <2>4 DEF TimesRise
<1> QED BY <1>3, <1>4 DEF TrailInv

LEMMA RefuseInv ==
    ASSUME TrailIInv, NEW n \in 1..MaxChanges, Refuse(n)
    PROVE  TrailInv'
<1>0. TrailTypeOK /\ TimesRise
  BY DEF TrailIInv, TrailInv
<1>1. /\ n \in inFlight /\ refused' = refused \cup {n} /\ Settle(n)
      /\ UNCHANGED <<now, orders, events, pc, body, began, change, changes>>
      /\ Recorded' = Recorded /\ Numbers' = Numbers
  BY DEF Refuse, Recorded, Numbers
<1>2. /\ \A q \in Requests : RequestKnows(q)'
      /\ RoomForChanges' /\ OwnChanges' /\ ChangesComeFirst'
  BY <1>1, SettleInv
<1>3. TimesRise'
  <2>1. \A m \in 1..MaxChanges : inserting'[m] = IF m = n THEN Null ELSE inserting[m]
    BY <1>0, <1>1 DEF Settle, TrailTypeOK
  <2>2. Numbers \subseteq 1..MaxChanges
    BY <1>0, Moments DEF Numbers, TrailTypeOK
  <2> QED BY <1>0, <1>1, <2>1, <2>2 DEF TimesRise
<1> QED BY <1>2, <1>3 DEF TrailInv

LEMMA CrashInv ==
    ASSUME TrailIInv, Crash
    PROVE  TrailInv'
<1>0. TrailTypeOK /\ RoomForChanges /\ ChangesComeFirst /\ TimesRise
  BY DEF TrailIInv, TrailInv
<1>1. /\ \A q \in Requests : pc'[q] = "idle"
      /\ inFlight' = {} /\ \A m \in 1..MaxChanges : inserting'[m] = Null
      /\ UNCHANGED <<now, orders, events, changes, refused>>
      /\ Recorded' = Recorded /\ Numbers' = Numbers
  BY DEF Crash, history, Recorded, Numbers
<1>2. (\A q \in Requests : RequestKnows(q)') /\ OwnChanges'
  BY <1>1 DEF RequestKnows, OwnChanges, Changed
<1>3. RoomForChanges'
  <2>1. Saving' \subseteq Saving
    BY <1>1 DEF Saving
  <2> QED BY <1>0, <1>1, <2>1, RoomStays
<1>4. ChangesComeFirst'
  BY <1>0, <1>1 DEF ChangesComeFirst
<1>5. TimesRise'
  <2>1. Numbers \subseteq 1..MaxChanges
    BY <1>0, Moments DEF Numbers, TrailTypeOK
  <2> QED BY <1>0, <1>1, <2>1 DEF TimesRise
<1> QED BY <1>2, <1>3, <1>4, <1>5 DEF TrailInv

LEMMA TickInv ==
    ASSUME TrailIInv, Tick
    PROVE  TrailInv'
<1>0. /\ TrailTypeOK /\ RoomForChanges /\ \A q \in Requests : RequestKnows(q)
      /\ OwnChanges /\ ChangesComeFirst /\ TimesRise
  BY DEF TrailIInv, TrailInv
<1>1. /\ UNCHANGED <<orders, events, pc, body, began, change, inFlight, inserting,
                     changes, refused>>
      /\ now' = now + 1
      /\ Recorded' = Recorded /\ Numbers' = Numbers /\ Saving' = Saving
  BY DEF Tick, history, Recorded, Numbers, Saving
<1>2. ASSUME NEW q \in Requests PROVE RequestKnows(q)'
  BY <1>0, <1>1 DEF RequestKnows, Changed
<1>3. RoomForChanges' /\ OwnChanges' /\ ChangesComeFirst'
  BY <1>0, <1>1 DEF RoomForChanges, OwnChanges, Changed, ChangesComeFirst
<1>4. TimesRise'
  <2>1. now \in Nat /\ \A e \in events : e.occurredAt \in Nat
    BY <1>0, Moments DEF TrailTypeOK, AuditEvent
  <2>2. \A m \in 1..MaxChanges : inserting[m] # Null => inserting[m] \in Nat
    BY <1>0, Moments DEF TrailTypeOK
  <2> QED BY <1>0, <1>1, <2>1, <2>2 DEF TimesRise
<1> QED BY <1>2, <1>3, <1>4 DEF TrailInv

-----------------------------------------------------------------------------
(***************************************************************************)
(* The inductive invariant.                                                *)
(***************************************************************************)
LEMMA InvInit == TrailInit => TrailIInv
<1> SUFFICES ASSUME TrailInit PROVE TrailIInv
  OBVIOUS
<1>0. TrailTypeOK BY TypeInit
<1>1. /\ \A r \in Requests : pc[r] = "idle"
      /\ events = {} /\ inFlight = {} /\ changes = <<>>
      /\ \A n \in 1..MaxChanges : inserting[n] = Null
  BY DEF TrailInit
<1>2. Recorded = {} /\ Numbers = {}
  BY <1>1 DEF Recorded, Numbers
<1>3. RoomForChanges
  <2>1. Saving = {} BY <1>1 DEF Saving
  <2>2. Cardinality(Saving) = 0 BY <2>1, FS_EmptySet
  <2> QED BY <1>1, <2>2, Moments DEF RoomForChanges
<1> QED BY <1>0, <1>1, <1>2, <1>3
        DEF TrailIInv, TrailInv, RequestKnows, Changed, OwnChanges, ChangesComeFirst,
            TimesRise

LEMMA TrailStep ==
    ASSUME TrailIInv, TrailNext
    PROVE  TrailInv'
BY CallInv, BeginInv, SaveInv, EmitInv, AnswerInv, FailInv, HandleInv, RecordInv,
   RefuseInv, CrashInv, TickInv DEF TrailNext, Step, Listener

LEMMA InvStep == TrailIInv /\ [TrailNext]_trail => TrailIInv'
BY TrailTypes, TrailStep, TrailStays DEF TrailIInv

(***************************************************************************)
(* In every reachable state the types are right, an event is in one place  *)
(* only, and nothing is known of a change before it is committed.          *)
(***************************************************************************)
THEOREM TrailInvariance == TrailSpec => []TrailIInv
BY InvInit, InvStep, PTL DEF TrailSpec

\* Which steps touch what the properties of the trail are about.
LEMMA TrailOrNot ==
    ASSUME [TrailNext]_trail
    PROVE  \/ \E r \in Requests : Save(r)
           \/ \E n \in 1..MaxChanges : Record(n)
           \/ UNCHANGED <<events, changes>>
BY DEF TrailNext, Step, Listener, Create, UpdateStatus, Call, BeginInsert, Emit,
       Answer, Handle, Refuse, Fail, Crash, Tick, trail, history

(***************************************************************************)
(* The trail has one row for a change, and sorted by occurred_at it never  *)
(* has a change before what was in the trail when that was committed.      *)
(***************************************************************************)
THEOREM TrailIsOrdered == TrailSpec => []TrailTellsTheOrder
<1>1. TrailInit => TrailTellsTheOrder
  BY DEF TrailInit, TrailTellsTheOrder
<1>2. TrailIInv /\ TrailTellsTheOrder /\ [TrailNext]_trail => TrailTellsTheOrder'
  <2> SUFFICES ASSUME TrailIInv, TrailTellsTheOrder, [TrailNext]_trail
               PROVE  TrailTellsTheOrder'
    OBVIOUS
  <2>0. TrailTypeOK /\ ChangesComeFirst /\ TimesRise
    BY DEF TrailIInv, TrailInv
  <2>1. \A e \in events : e.change \in Recorded /\ e.change \in Numbers
    BY <2>0 DEF Recorded, ChangesComeFirst
  <2>3. ASSUME NEW r \in Requests, Save(r) PROVE TrailTellsTheOrder'
    <3>1. events' = events /\ \A m \in Numbers : changes'[m] = changes[m]
      BY <2>3, Appended DEF Save
    <3> QED BY <2>1, <3>1 DEF TrailTellsTheOrder
  <2>4. ASSUME NEW n \in 1..MaxChanges, Record(n) PROVE TrailTellsTheOrder'
    <3>1. /\ n \in inFlight /\ inserting[n] # Null /\ changes' = changes
          /\ n \in Numbers /\ n \notin Recorded
      BY <2>0, <2>4 DEF Record, history, ChangesComeFirst
    <3> DEFINE row == [change |-> n, occurredAt |-> inserting[n]]
    <3>2. /\ events' = events \cup {row}
          /\ row.change = n /\ row.occurredAt = inserting[n]
      BY <2>4 DEF Record
    <3> HIDE DEF row
    <3>3. ASSUME NEW m \in Numbers PROVE n \notin changes[m].after
      BY <2>0, <3>1, <3>3 DEF ChangesComeFirst
    <3>4. ASSUME NEW e \in events, e.change \in changes[n].after
          PROVE  e.occurredAt <= inserting[n]
      BY <2>0, <3>1, <3>4 DEF TimesRise
    <3>5. \A e \in events : e.change # n
      BY <2>1, <3>1
    <3> QED BY <2>1, <3>1, <3>2, <3>3, <3>4, <3>5 DEF TrailTellsTheOrder
  <2>5. CASE UNCHANGED <<events, changes>>
    BY <2>5 DEF TrailTellsTheOrder
  <2> QED BY <2>3, <2>4, <2>5, TrailOrNot
<1> QED BY <1>1, <1>2, TrailInvariance, PTL DEF TrailSpec

-----------------------------------------------------------------------------
(***************************************************************************)
(* What is lost, step by step.                                             *)
(***************************************************************************)

\* Of the steps of a request only a failure can lose an event.
LEMMA RequestLedger ==
    ASSUME TrailIInv, NEW r \in Requests,
           Create(r) \/ UpdateStatus(r) \/ BeginInsert(r) \/ Emit(r) \/ Answer(r)
    PROVE  UNCHANGED <<Recorded, Len(changes), Lost>>
<1>0. TrailTypeOK
  BY DEF TrailIInv
<1>1. Recorded' = Recorded /\ Numbers' = Numbers /\ Len(changes') = Len(changes)
  BY DEF Create, UpdateStatus, Call, BeginInsert, Emit, Answer, history,
         Recorded, Numbers
<1>2. CASE Create(r) \/ UpdateStatus(r)
  <2>1. PICK label \in {"begin", "save"}, o \in OrderIds, status \in Status :
            Call(r, label, o, status)
    BY <1>2, CreatedAssumption DEF Create, UpdateStatus
  <2>2. /\ pc[r] = "idle" /\ pc'[r] # "emit"
        /\ \A q \in Requests \ {r} : pc'[q] = pc[q]
        /\ change' = change /\ inFlight' = inFlight
    BY <1>0, <2>1 DEF Call, Goto, TrailTypeOK
  <2> QED BY <1>1, <2>2 DEF InMemory, Lost
<1>3. CASE BeginInsert(r)
  <2>1. /\ pc[r] = "begin" /\ pc'[r] # "emit"
        /\ \A q \in Requests \ {r} : pc'[q] = pc[q]
        /\ change' = change /\ inFlight' = inFlight
    BY <1>0, <1>3 DEF BeginInsert, Goto, TrailTypeOK
  <2> QED BY <1>1, <2>1 DEF InMemory, Lost
<1>4. CASE Emit(r)
  <2>1. /\ pc[r] = "emit" /\ pc'[r] # "emit"
        /\ \A q \in Requests \ {r} : pc'[q] = pc[q]
        /\ change' = change /\ inFlight' = inFlight \cup {change[r]}
    BY <1>0, <1>4 DEF Emit, Goto, TrailTypeOK
  <2> QED BY <1>1, <2>1 DEF InMemory, Lost
<1>5. CASE Answer(r)
  <2>1. /\ pc[r] = "answer" /\ pc'[r] # "emit" /\ inFlight' = inFlight
        /\ \A q \in Requests \ {r} : pc'[q] = pc[q] /\ change'[q] = change[q]
    BY <1>0, <1>5 DEF Answer, Release, Goto, TrailTypeOK
  <2> QED BY <1>1, <2>1 DEF InMemory, Lost
<1> QED BY <1>2, <1>3, <1>4, <1>5

LEMMA FailLedger ==
    ASSUME TrailIInv, NEW r \in Requests, Fail(r)
    PROVE  /\ UNCHANGED <<Recorded, Len(changes)>>
           /\ Lost \subseteq Lost' /\ Lost' \subseteq Lost \cup {change[r]}
           /\ Lost' # Lost => pc[r] = "emit" /\ pc'[r] = "idle"
<1>0. TrailTypeOK
  BY DEF TrailIInv
<1>1. Recorded' = Recorded /\ Numbers' = Numbers /\ Len(changes') = Len(changes)
  BY DEF Fail, history, Recorded, Numbers
<1>2. /\ pc'[r] = "idle" /\ inFlight' = inFlight
      /\ \A q \in Requests \ {r} : pc'[q] = pc[q] /\ change'[q] = change[q]
  BY <1>0 DEF Fail, Release, Goto, TrailTypeOK
<1>3. /\ InMemory' \subseteq InMemory
      /\ InMemory \subseteq InMemory' \cup {change[r]}
      /\ pc[r] # "emit" => InMemory' = InMemory
  BY <1>2 DEF InMemory
<1> QED BY <1>1, <1>2, <1>3 DEF Lost

LEMMA SaveLedger ==
    ASSUME TrailIInv, NEW r \in Requests, Save(r)
    PROVE  /\ Len(changes') = Len(changes) + 1
           /\ UNCHANGED <<Recorded, Lost>>
<1>0. TrailTypeOK
  BY DEF TrailIInv
<1> DEFINE n == Len(changes) + 1
<1>1. /\ Numbers' = Numbers \cup {n} /\ Len(changes') = n /\ n \notin Numbers
  BY Appended
<1>2. /\ pc[r] = "save" /\ pc'[r] = "emit" /\ change'[r] = n /\ inFlight' = inFlight
      /\ \A q \in Requests \ {r} : pc'[q] = pc[q] /\ change'[q] = change[q]
      /\ Recorded' = Recorded
  BY <1>0 DEF Save, Goto, TrailTypeOK, Recorded
<1> HIDE DEF n
<1>3. InMemory' = InMemory \cup {n}
  BY <1>2 DEF InMemory
<1>4. Lost' = Lost
  BY <1>1, <1>2, <1>3 DEF Lost
<1> QED BY <1>1, <1>2, <1>4 DEF n

LEMMA RecordLedger ==
    ASSUME TrailIInv, NEW n \in 1..MaxChanges, Record(n)
    PROVE  /\ n \in Numbers \ (Recorded \cup Lost)
           /\ Recorded' = Recorded \cup {n}
           /\ UNCHANGED <<Len(changes), Lost>>
<1>0. TrailTypeOK /\ ChangesComeFirst
  BY DEF TrailIInv, TrailInv
<1>1. /\ n \in inFlight /\ inFlight' = inFlight \ {n}
      /\ pc' = pc /\ change' = change /\ changes' = changes
  BY DEF Record, Settle, history
<1>2. Recorded' = Recorded \cup {n} /\ Numbers' = Numbers
  BY <1>0, <1>1, Inserted DEF Numbers
<1>3. n \in Numbers /\ n \notin Recorded /\ n \in InMemory
  BY <1>0, <1>1 DEF ChangesComeFirst, InMemory
<1>4. Lost' = Lost
  <2>1. InMemory' \subseteq InMemory /\ InMemory \subseteq InMemory' \cup {n}
    BY <1>1 DEF InMemory
  <2> QED BY <1>2, <1>3, <2>1 DEF Lost
<1>5. Len(changes') = Len(changes)
  BY <1>1
<1> QED BY <1>2, <1>3, <1>4, <1>5 DEF Lost

LEMMA RefuseLedger ==
    ASSUME TrailIInv, NEW n \in 1..MaxChanges, Refuse(n)
    PROVE  /\ UNCHANGED <<Recorded, Len(changes)>>
           /\ Lost \subseteq Lost' /\ Lost' \subseteq Lost \cup {n}
           /\ n \in refused'
<1>1. /\ n \in inFlight /\ inFlight' = inFlight \ {n}
      /\ pc' = pc /\ change' = change /\ n \in refused'
      /\ Recorded' = Recorded /\ Numbers' = Numbers /\ Len(changes') = Len(changes)
  BY DEF Refuse, Settle, Recorded, Numbers
<1>2. InMemory' \subseteq InMemory /\ InMemory \subseteq InMemory' \cup {n}
  BY <1>1 DEF InMemory
<1> QED BY <1>1, <1>2 DEF Lost

LEMMA CrashLedger ==
    ASSUME Crash
    PROVE  /\ UNCHANGED <<Recorded, Len(changes)>>
           /\ Lost' = Numbers \ Recorded
           /\ Stopped'
<1>1. /\ \A q \in Requests : pc'[q] = "idle"
      /\ inFlight' = {}
      /\ Recorded' = Recorded /\ Numbers' = Numbers /\ Len(changes') = Len(changes)
  BY DEF Crash, history, Recorded, Numbers
<1>2. InMemory' = {}
  BY <1>1 DEF InMemory
<1> QED BY <1>1, <1>2 DEF Lost, Stopped

LEMMA OtherLedger ==
    ASSUME Tick \/ (\E n \in 1..MaxChanges : Handle(n)) \/ UNCHANGED trail
    PROVE  UNCHANGED <<Recorded, Len(changes), Lost>>
<1>1. UNCHANGED <<events, pc, change, inFlight, changes>>
  BY DEF Tick, Handle, trail, history
<1>2. /\ Recorded' = Recorded /\ Numbers' = Numbers /\ Len(changes') = Len(changes)
      /\ InMemory' = InMemory
  BY <1>1 DEF Recorded, Numbers, InMemory
<1> QED BY <1>2 DEF Lost

-----------------------------------------------------------------------------
(***************************************************************************)
(* The trail implements AuditLedger.                                       *)
(***************************************************************************)
LEMMA LedgerStep ==
    ASSUME TrailIInv, [TrailNext]_trail
    PROVE  [Ledger!Next]_<<Len(changes), Recorded, Lost>>
<1>1. Ledger!Pending = Numbers \ (Recorded \cup Lost)
  BY DEF Ledger!Pending, Numbers
<1>2. Lost \subseteq Numbers /\ Lost \cap Recorded = {}
  BY DEF Lost
<1>3. ASSUME NEW n, UNCHANGED <<Recorded, Len(changes)>>,
             Lost \subseteq Lost', Lost' \subseteq Lost \cup {n}
      PROVE  [Ledger!Lose]_<<Len(changes), Recorded, Lost>>
  <2>1. Numbers' = Numbers
    BY <1>3 DEF Numbers
  <2>2. Lost' \subseteq Numbers /\ Lost' \cap Recorded = {}
    BY <1>3, <2>1 DEF Lost
  <2>3. CASE n \in Lost' \ Lost
    BY <1>1, <1>3, <2>2, <2>3 DEF Ledger!Lose
  <2>4. CASE n \notin Lost' \ Lost
    BY <1>3, <2>4
  <2> QED BY <2>3, <2>4
<1>4. ASSUME NEW r \in Requests,
             Create(r) \/ UpdateStatus(r) \/ BeginInsert(r) \/ Emit(r) \/ Answer(r)
      PROVE  UNCHANGED <<Len(changes), Recorded, Lost>>
  BY <1>4, RequestLedger
<1>5. ASSUME NEW r \in Requests, Save(r) PROVE Ledger!Commit
  BY <1>5, SaveLedger DEF Ledger!Commit
<1>6. ASSUME NEW r \in Requests, Fail(r)
      PROVE  [Ledger!Lose]_<<Len(changes), Recorded, Lost>>
  BY <1>3, <1>6, FailLedger
<1>7. ASSUME NEW n \in 1..MaxChanges, Record(n) PROVE Ledger!Record
  BY <1>1, <1>7, RecordLedger DEF Ledger!Record
<1>8. ASSUME NEW n \in 1..MaxChanges, Refuse(n)
      PROVE  [Ledger!Lose]_<<Len(changes), Recorded, Lost>>
  BY <1>3, <1>8, RefuseLedger
<1>9. CASE Crash
  <2>1. Lost' = Lost \cup Ledger!Pending
    BY <1>1, <1>2, <1>9, CrashLedger
  <2> QED BY <1>9, <2>1, CrashLedger DEF Ledger!Next, Ledger!Stop
<1>10. ASSUME Tick \/ (\E n \in 1..MaxChanges : Handle(n)) \/ UNCHANGED trail
       PROVE  UNCHANGED <<Len(changes), Recorded, Lost>>
  BY <1>10, OtherLedger
<1> QED BY <1>4, <1>5, <1>6, <1>7, <1>8, <1>9, <1>10
        DEF TrailNext, Step, Listener, Ledger!Next

(***************************************************************************)
(* AuditListener and AuditService keep the ledger: an event follows its    *)
(* change, stays, and does not turn up once it is lost.                    *)
(***************************************************************************)
THEOREM LedgerIsKept == TrailSpec => KeepsTheLedger
<1>1. TrailInit => Ledger!Init
  <2> SUFFICES ASSUME TrailInit PROVE Ledger!Init
    OBVIOUS
  <2>1. events = {} /\ changes = <<>>
    BY DEF TrailInit
  <2> QED BY <2>1 DEF Ledger!Init, Lost, Recorded, Numbers
<1>2. TrailIInv /\ [TrailNext]_trail =>
        [Ledger!Next]_<<Len(changes), Recorded, Lost>>
  BY LedgerStep
<1> QED BY <1>1, <1>2, TrailInvariance, PTL
        DEF TrailSpec, KeepsTheLedger, Ledger!Spec, Ledger!ledger

(***************************************************************************)
(* No event of create or updateStatus is lost without one of the three     *)
(* accidents: the process stops, the database refuses the insert, the      *)
(* handler throws after its commit and before its emitAsync.               *)
(***************************************************************************)
THEOREM LossesAreAccidents == TrailSpec => LossesHaveACause
<1> DEFINE Caused ==
        \A n \in Lost' \ Lost :
          \/ Stopped'
          \/ n \in refused'
          \/ \E r \in Requests :
               change[r] = n /\ pc[r] = "emit" /\ pc'[r] = "idle"
<1>1. TrailIInv /\ [TrailNext]_trail => [Caused]_trail
  <2> SUFFICES ASSUME TrailIInv, [TrailNext]_trail PROVE Caused
    OBVIOUS
  <2>1. ASSUME NEW r \in Requests,
               Create(r) \/ UpdateStatus(r) \/ BeginInsert(r) \/ Emit(r) \/ Answer(r)
        PROVE  Lost' = Lost
    BY <2>1, RequestLedger
  <2>2. ASSUME NEW r \in Requests, Save(r) PROVE Lost' = Lost
    BY <2>2, SaveLedger
  <2>3. ASSUME NEW r \in Requests, Fail(r) PROVE Caused
    BY <2>3, FailLedger
  <2>4. ASSUME NEW n \in 1..MaxChanges, Record(n) PROVE Lost' = Lost
    BY <2>4, RecordLedger
  <2>5. ASSUME NEW n \in 1..MaxChanges, Refuse(n) PROVE Caused
    BY <2>5, RefuseLedger
  <2>6. CASE Crash
    BY <2>6, CrashLedger
  <2>7. ASSUME Tick \/ (\E n \in 1..MaxChanges : Handle(n)) \/ UNCHANGED trail
        PROVE  Lost' = Lost
    BY <2>7, OtherLedger
  <2> QED BY <2>1, <2>2, <2>3, <2>4, <2>5, <2>6, <2>7 DEF TrailNext, Step, Listener
<1> QED BY <1>1, TrailInvariance, PTL DEF TrailSpec, LossesHaveACause

=============================================================================
