-------------------------- MODULE IsolationProofs --------------------------
(***************************************************************************)
(* What the documents promise of the sales orders and the code keeps only  *)
(* as long as nobody interferes.  Each handler reads, checks and saves in  *)
(* separate calls; here it is proved that it would be enough if what it    *)
(* has read stayed as it is until it saves, as a lock or a transaction     *)
(* around those calls would have it.  Each condition says just which row   *)
(* must not move, and between which calls.                                 *)
(***************************************************************************)
EXTENDS SalesOrdersProofs

(***************************************************************************)
(* updateStatus and changeTransport from their findOne to their save, and  *)
(* the first condition: no two of them work on one order at a time.        *)
(* Requests for other orders, creates, answers, events, crashes and the    *)
(* other services go on as before.                                         *)
(***************************************************************************)
Between(r) ==
    /\ pc[r] \in {"assertSchedule", "findTransport", "checkAuthorized", "reload", "write"}
    /\ dto[r] \notin CreateSalesOrderDto

NoOverlap ==
    \A q, r \in Requests :
        Between(q) /\ Between(r) /\ orderId[q] = orderId[r] => q = r

\* Then the copy in hand is the row, and what save leaves out does not differ.
Fresh ==
    \A r \in Requests :
        /\ Between(r) => loaded[r] = orders[orderId[r]]
        /\ pc[r] = "write" =>
             /\ "status" \in patch[r] \/ Entity(r).status = loaded[r].status
             /\ \/ "transportType" \in patch[r]
                \/ Entity(r).transportType = loaded[r].transportType

LEMMA BetweenHolds ==
    ASSUME IInv, NEW r \in Requests, Between(r)
    PROVE  HoldsOldRow(r)
BY DEF IInv, RequestKnows, Between

LEMMA ReloadCompares ==
    ASSUME IInv, Fresh, NEW r \in Requests, Reload(r)
    PROVE  /\ "status" \in patch'[r] \/ Entity(r).status = loaded[r].status
           /\ \/ "transportType" \in patch'[r]
              \/ Entity(r).transportType = loaded[r].transportType
<1>1. /\ pc[r] = "reload" /\ HoldsOldRow(r) /\ ChecksPassed(r)
      /\ dto[r] \notin CreateSalesOrderDto
  BY DEF Reload, IInv, RequestKnows, ChecksPassed, CreateSalesOrderDto,
     UpdateStatusDto, ChangeTransportDto
<1>2. loaded[r] = orders[orderId[r]]
  BY <1>1 DEF Fresh, Between
<1>3. patch'[r] = {column \in Columns : Entity(r)[column] # loaded[r][column]}
  BY <1>2 DEF Reload, IInv, TypeOK
<1>4. Entity(r) \in SalesOrder /\ loaded[r] \in SalesOrder
  BY <1>1, EntityFacts DEF HoldsOldRow
<1>5. /\ Entity(r)["status"] = Entity(r).status
      /\ loaded[r]["status"] = loaded[r].status
      /\ Entity(r)["transportType"] = Entity(r).transportType
      /\ loaded[r]["transportType"] = loaded[r].transportType
  OBVIOUS
<1> QED BY <1>3, <1>5 DEF Columns

LEMMA QuietFresh ==
    ASSUME IInv, Fresh, NEW q \in Requests, Quiet(q)
    PROVE  Fresh'
<1>0. /\ UNCHANGED <<orders, reached>> /\ TypeOK /\ RequestKnows(q)
      /\ \A r \in Requests \ {q} : SameSlot(r)
  BY QuietFrame DEF IInv, store
<1>1. ASSUME NEW r \in Requests, SameSlot(r)
      PROVE  /\ Between(r)' => loaded'[r] = orders'[orderId'[r]]
             /\ pc'[r] = "write" =>
                  /\ "status" \in patch'[r] \/ Entity(r)'.status = loaded'[r].status
                  /\ \/ "transportType" \in patch'[r]
                     \/ Entity(r)'.transportType = loaded'[r].transportType
  BY <1>0, <1>1 DEF Fresh, SameSlot, Between, Entity
<1>2. CASE \/ Receive(q) \/ Fail(q) \/ FindCustomer(q) \/ FindItems(q)
           \/ Emit(q) \/ Answer(q)
  <2>1. ~ Between(q)' /\ pc'[q] # "write"
    BY <1>0, <1>2 DEF Between, Receive, Create, UpdateStatus, ChangeTransport, Call, Fail,
       Reject, FindCustomer, FindItems, Emit, Answer, Require, Release, Goto, Keep,
       RequestKnows, TypeOK
  <2> QED BY <1>0, <1>1, <2>1 DEF Fresh
<1>3. CASE HandleAudit(q)
  <2>1. SameSlot(q)
    BY <1>3 DEF HandleAudit, SameSlot
  <2> QED BY <1>0, <1>1, <2>1 DEF Fresh
<1>4. CASE FindTransport(q) \/ CheckAuthorized(q) \/ assertConfirmedSchedule(q)
  <2>1. /\ pc'[q] # "write"
        /\ Between(q)' => /\ Between(q)
                          /\ loaded'[q] = loaded[q] /\ orderId'[q] = orderId[q]
    BY <1>0, <1>4 DEF Between, FindTransport, CheckAuthorized, assertConfirmedSchedule,
       Require, Release, Goto, Keep, TypeOK
  <2> QED BY <1>0, <1>1, <2>1 DEF Fresh
<1>5. CASE LoadForStatus(q) \/ LoadForTransport(q)
  <2>1. /\ pc'[q] # "write"
        /\ Between(q)' => loaded'[q] = orders'[orderId'[q]]
    BY <1>0, <1>5 DEF Between, LoadForStatus, LoadForTransport, Load, Reject, Release,
       Goto, TypeOK
  <2> QED BY <1>0, <1>1, <2>1 DEF Fresh
<1>6. CASE Reload(q)
  <2>1. /\ dto' = dto /\ loaded' = loaded /\ orderId' = orderId /\ pc[q] = "reload"
        /\ Between(q)' => Between(q)
    BY <1>6 DEF Reload, Between
  <2>2. Entity(q)' = Entity(q)
    BY <2>1 DEF Entity
  <2>3. loaded'[q] = loaded[q] /\ (Between(q)' => loaded'[q] = orders'[orderId'[q]])
    BY <1>0, <2>1 DEF Fresh
  <2>4. /\ "status" \in patch'[q] \/ Entity(q)'.status = loaded'[q].status
        /\ \/ "transportType" \in patch'[q]
           \/ Entity(q)'.transportType = loaded'[q].transportType
    BY <1>6, <2>2, <2>3, ReloadCompares
  <2> QED BY <1>0, <1>1, <2>3, <2>4 DEF Fresh
<1> QED BY <1>2, <1>3, <1>4, <1>5, <1>6 DEF Quiet

\* A write of q reaches no copy of the order it writes.
LEMMA WriteFresh ==
    ASSUME IInv, Fresh, NoOverlap, NEW q \in Requests, Write(q)
    PROVE  Fresh'
<1>1. /\ orderId[q] \in Orders /\ orders' = [orders EXCEPT ![orderId[q]] = orders'[orderId[q]]]
      /\ TypeOK
  BY WriteEffect DEF IInv
<1>2. /\ pc[q] = "write" /\ pc' = [pc EXCEPT ![q] = "emit"]
      /\ UNCHANGED <<dto, orderId, loaded, patch>>
  BY DEF Write, Goto
<1>3. Between(q)
  BY <1>2 DEF Between, IInv, RequestKnows, ChecksPassed, CreateSalesOrderDto,
     UpdateStatusDto, ChangeTransportDto
<1>4. ~ Between(q)' /\ pc'[q] # "write"
  BY <1>1, <1>2 DEF Between, TypeOK
<1>5. ASSUME NEW r \in Requests \ {q}
      PROVE  /\ Between(r)' => loaded'[r] = orders'[orderId'[r]]
             /\ pc'[r] = "write" =>
                  /\ "status" \in patch'[r] \/ Entity(r)'.status = loaded'[r].status
                  /\ \/ "transportType" \in patch'[r]
                     \/ Entity(r)'.transportType = loaded'[r].transportType
  <2>1. SameSlot(r) /\ Entity(r)' = Entity(r)
    BY <1>1, <1>2 DEF SameSlot, Entity, TypeOK
  <2>2. Between(r)' => Between(r) /\ orderId[r] # orderId[q]
    BY <1>3, <2>1 DEF NoOverlap, Between, SameSlot
  <2>3. Between(r)' => orderId[r] \in Orders
    BY <2>2, BetweenHolds DEF HoldsOldRow
  <2>4. Between(r)' => orders'[orderId[r]] = orders[orderId[r]]
    BY <1>1, <2>2, <2>3 DEF TypeOK
  <2> QED BY <2>1, <2>2, <2>4 DEF Fresh, SameSlot
<1> QED BY <1>4, <1>5 DEF Fresh

LEMMA InsertFresh ==
    ASSUME IInv, Fresh, NEW q \in Requests, InsertOrder(q)
    PROVE  Fresh'
<1>1. PICK o \in Orders :
        orders[o] = Null /\ orders' = [orders EXCEPT ![o] = NewOrder(dto[q])]
  BY InsertEffect
<1>2. /\ TypeOK /\ pc' = [pc EXCEPT ![q] = "emit"]
      /\ UNCHANGED <<dto, loaded, patch>>
      /\ \A r \in Requests \ {q} : orderId'[r] = orderId[r]
  BY DEF InsertOrder, Goto, IInv, TypeOK
<1>3. ~ Between(q)' /\ pc'[q] # "write"
  BY <1>2 DEF Between, TypeOK
<1>4. ASSUME NEW r \in Requests \ {q}
      PROVE  /\ Between(r)' => loaded'[r] = orders'[orderId'[r]]
             /\ pc'[r] = "write" =>
                  /\ "status" \in patch'[r] \/ Entity(r)'.status = loaded'[r].status
                  /\ \/ "transportType" \in patch'[r]
                     \/ Entity(r)'.transportType = loaded'[r].transportType
  <2>1. SameSlot(r) /\ Entity(r)' = Entity(r)
    BY <1>2 DEF SameSlot, Entity, TypeOK
  <2>2. Between(r)' => /\ Between(r) /\ orderId[r] \in Orders
                       /\ orders[orderId[r]] # Null
    BY <2>1, BetweenHolds DEF Between, SameSlot, HoldsOldRow, Exists
  <2>3. Between(r)' => orders'[orderId[r]] = orders[orderId[r]]
    BY <1>1, <1>2, <2>2 DEF TypeOK
  <2> QED BY <2>1, <2>2, <2>3 DEF Fresh, SameSlot
<1> QED BY <1>3, <1>4 DEF Fresh

LEMMA FreshInit == Init => Fresh
BY DEF Init, Fresh, Between

LEMMA FreshStep == IInv /\ Fresh /\ NoOverlap /\ [Next]_vars => Fresh'
<1> SUFFICES ASSUME IInv, Fresh, NoOverlap, [Next]_vars PROVE Fresh'
  OBVIOUS
<1>1. ASSUME NEW r \in Requests, Quiet(r) PROVE Fresh'
  BY <1>1, QuietFresh
<1>2. ASSUME NEW r \in Requests, InsertOrder(r) PROVE Fresh'
  BY <1>2, InsertFresh
<1>3. ASSUME NEW r \in Requests, Write(r) PROVE Fresh'
  BY <1>3, WriteFresh
<1>4. CASE OtherServices
  <2>1. UNCHANGED <<slots, store>>
    BY <1>4 DEF OtherServices, DefineSchedule, ConfirmSchedule, CreateCustomer,
       SetAuthorizedTransports, Authorize, Register, Elsewhere
  <2> QED BY <2>1 DEF slots, store, Fresh, Between, Entity
<1>5. CASE Crash
  BY <1>5 DEF Crash, Fresh, Between
<1>6. CASE UNCHANGED vars
  BY <1>6 DEF vars, tables, slots, Fresh, Between, Entity
<1> QED BY <1>1, <1>2, <1>3, <1>4, <1>5, <1>6 DEF Next, Step, Quiet

(***************************************************************************)
(* As long as no two of them overlap on one order, updateStatus and        *)
(* changeTransport save from a copy that is the present row.               *)
(***************************************************************************)
THEOREM CopiesAreFresh == Spec /\ []NoOverlap => []Fresh
BY FreshInit, FreshStep, Invariance, PTL DEF Spec

-----------------------------------------------------------------------------
(***************************************************************************)
(* The documented flow.                                                    *)
(***************************************************************************)
LEMMA WriteExact ==
    ASSUME IInv, Fresh, NEW r \in Requests, Write(r)
    PROVE  LET o == orderId[r] IN
           /\ o \in Orders /\ orders[o] \in SalesOrder /\ HoldsOldRow(r) /\ ChecksPassed(r)
           /\ loaded[r] = orders[o]
           /\ orders' = [orders EXCEPT ![o] = Entity(r)]
           /\ reached' = [reached EXCEPT ![o] = @ \cup {Entity(r).status}]
           /\ orders'[o] = Entity(r)
<1> DEFINE o == orderId[r]
<1>0. TypeOK /\ RequestKnows(r)
  BY DEF IInv
<1>1. /\ HoldsOldRow(r) /\ ChecksPassed(r) /\ o \in Orders
      /\ orders[o] \in SalesOrder /\ orders'[o] \in SalesOrder
      /\ orders' = [orders EXCEPT ![o] = orders'[o]]
      /\ reached' = [reached EXCEPT ![o] = @ \cup {orders'[o].status}]
      /\ orders'[o].customer = orders[o].customer
      /\ orders'[o].items = orders[o].items
      /\ orders'[o].status \in {orders[o].status, Entity(r).status}
      /\ "status" \in patch[r] => orders'[o].status = Entity(r).status
      /\ orders'[o].transportType \in {orders[o].transportType, Entity(r).transportType}
      /\ "transportType" \in patch[r] => orders'[o].transportType = Entity(r).transportType
  BY <1>0, WriteFacts
<1>2. /\ Entity(r) \in SalesOrder
      /\ Entity(r).customer = loaded[r].customer /\ Entity(r).items = loaded[r].items
  BY <1>1, EntityFacts
<1>3. /\ pc[r] = "write" /\ Between(r)
  BY <1>1 DEF Write, Between, ChecksPassed, CreateSalesOrderDto, UpdateStatusDto,
     ChangeTransportDto
<1>4. /\ loaded[r] = orders[o]
      /\ "status" \in patch[r] \/ Entity(r).status = loaded[r].status
      /\ \/ "transportType" \in patch[r]
         \/ Entity(r).transportType = loaded[r].transportType
  BY <1>3 DEF Fresh
<1>5. /\ orders'[o].customer = Entity(r).customer /\ orders'[o].items = Entity(r).items
      /\ orders'[o].status = Entity(r).status
      /\ orders'[o].transportType = Entity(r).transportType
  BY <1>1, <1>2, <1>4
<1>6. orders'[o] = Entity(r)
  <2>1. ASSUME NEW x \in SalesOrder, NEW y \in SalesOrder,
               x.customer = y.customer, x.items = y.items, x.status = y.status,
               x.transportType = y.transportType
        PROVE  x = y
    BY <2>1 DEF SalesOrder
  <2> QED BY <1>1, <1>2, <1>5, <2>1
<1> QED BY <1>1, <1>4, <1>6

\* The status a write leaves, the condition granted.
LEMMA WriteAdvances ==
    ASSUME IInv, Fresh, NEW r \in Requests, Write(r)
    PROVE  LET o == orderId[r]
               s == Entity(r).status IN
           /\ s \in SalesOrderStatus
           /\ s = orders[o].status \/ Follows(orders[o].status, s)
<1>1. /\ HoldsOldRow(r) /\ ChecksPassed(r) /\ loaded[r] = orders[orderId[r]]
      /\ orders[orderId[r]] \in SalesOrder
  BY WriteExact
<1>2. /\ Entity(r) \in SalesOrder
      /\ \/ Entity(r).status = loaded[r].status
         \/ canTransition(loaded[r].status, Entity(r).status)
  BY <1>1, EntityFacts
<1>3. \/ Entity(r).status = loaded[r].status
      \/ Follows(loaded[r].status, Entity(r).status)
  BY <1>1, <1>2, TransitionFollows DEF SalesOrder
<1> QED BY <1>1, <1>2, <1>3 DEF SalesOrder

(***************************************************************************)
(* "Apenas transicoes sequenciais": as long as requests for one order do   *)
(* not overlap, updateStatus takes it one step on and changeTransport      *)
(* leaves its status alone, whatever else the API does.                    *)
(***************************************************************************)
THEOREM SequentialWithoutOverlap == Spec /\ []NoOverlap => SequentialFlow
<1> DEFINE Flow ==
      \A o \in Orders : Exists(o) =>
          \/ orders'[o].status = orders[o].status
          \/ Follows(orders[o].status, orders'[o].status)
<1>1. IInv /\ Fresh /\ [Next]_vars => [Flow]_vars
  <2> SUFFICES ASSUME IInv, Fresh, [Next]_vars PROVE Flow
    OBVIOUS
  <2>1. CASE UNCHANGED store
    BY <2>1 DEF store
  <2>2. ASSUME NEW r \in Requests, InsertOrder(r) PROVE Flow
    BY <2>2, InsertEffect DEF Exists, IInv, TypeOK
  <2>3. ASSUME NEW r \in Requests, Write(r) PROVE Flow
    <3> DEFINE p == orderId[r]
    <3>1. /\ orders' = [orders EXCEPT ![p] = Entity(r)] /\ orders'[p] = Entity(r)
          /\ Entity(r).status = orders[p].status
               \/ Follows(orders[p].status, Entity(r).status)
      BY <2>3, WriteExact, WriteAdvances
    <3>2. \A o \in Orders \ {p} : orders'[o] = orders[o]
      BY <3>1 DEF IInv, TypeOK
    <3> QED BY <3>1, <3>2
  <2> QED BY <2>1, <2>2, <2>3, WhoWrites
<1> QED BY <1>1, CopiesAreFresh, Invariance, PTL DEF Spec, SequentialFlow

(***************************************************************************)
(* The same as a refinement: the orders table implements the lifecycle of  *)
(* the README, in which an order moves one step at a time and never back.  *)
(***************************************************************************)
THEOREM StrictWithoutOverlap == Spec /\ []NoOverlap => ImplementsStrictLifecycle
<1> DEFINE status == [o \in Orders |-> StatusOf(o)]
<1>1. Init => Lifecycle!Init
  BY DEF Init, Lifecycle!Init, StatusOf, Exists
<1>2. IInv /\ Fresh /\ [Next]_vars => [Lifecycle!StrictNext]_<<status, reached>>
  <2> SUFFICES ASSUME IInv, Fresh, [Next]_vars
               PROVE  Lifecycle!StrictNext \/ UNCHANGED <<status, reached>>
    OBVIOUS
  <2>1. CASE UNCHANGED store
    BY <2>1 DEF store, StatusOf, Exists
  <2>2. ASSUME NEW r \in Requests, InsertOrder(r) PROVE Lifecycle!StrictNext
    <3>1. PICK o \in Orders :
             /\ orders[o] = Null /\ reached[o] = {}
             /\ orders' = [orders EXCEPT ![o] = NewOrder(dto[r])]
             /\ reached' = [reached EXCEPT ![o] = {"CRIADA"}]
             /\ NewOrder(dto[r]) # Null
      BY <2>2, InsertEffect
    <3>2. status[o] = "NONE"
      BY <3>1 DEF StatusOf, Exists
    <3>3. status' = [status EXCEPT ![o] = "CRIADA"]
      BY <3>1 DEF StatusOf, Exists, NewOrder, IInv, TypeOK
    <3>4. reached' = [reached EXCEPT ![o] = @ \cup {"CRIADA"}]
      BY <3>1 DEF IInv, TypeOK
    <3> QED BY <3>2, <3>3, <3>4
            DEF Lifecycle!StrictNext, Lifecycle!Place, Lifecycle!Enter
  <2>3. ASSUME NEW r \in Requests, Write(r)
        PROVE  Lifecycle!StrictNext \/ UNCHANGED <<status, reached>>
    <3> DEFINE o == orderId[r]
               s == Entity(r).status
    <3>1. /\ o \in Orders /\ orders[o] \in SalesOrder /\ orders[o] # Null
          /\ orders' = [orders EXCEPT ![o] = Entity(r)] /\ orders'[o] = Entity(r)
          /\ reached' = [reached EXCEPT ![o] = @ \cup {s}]
          /\ Entity(r) # Null
      BY <2>3, WriteExact, EntityFacts, NullFacts
    <3>2. s \in SalesOrderStatus /\ (s = orders[o].status \/ Follows(orders[o].status, s))
      BY <2>3, WriteAdvances
    <3>3. status' = [status EXCEPT ![o] = s] /\ status[o] = orders[o].status
      BY <3>1 DEF StatusOf, Exists, IInv, TypeOK
    <3>4. orders[o].status # "NONE"
      BY <3>1 DEF SalesOrder, SalesOrderStatus
    <3>5. CASE s = orders[o].status
      <4>1. s \in reached[o]
        BY <3>1, <3>5 DEF IInv, NothingSkipped, Exists
      <4>2. reached' = reached
        BY <3>1, <4>1 DEF IInv, TypeOK
      <4>3. status' = status
        BY <3>3, <3>5
      <4> QED BY <4>2, <4>3
    <3>6. CASE Follows(orders[o].status, s)
      <4>1. Lifecycle!Advance(o, s)
        BY <3>1, <3>3, <3>6 DEF Lifecycle!Advance, Lifecycle!Enter,
           Lifecycle!Follows, Lifecycle!Position, Follows, Position
      <4>2. s \in Lifecycle!SalesOrderStatus /\ status[o] # "NONE"
        BY <3>2, <3>3, <3>4 DEF SalesOrderStatus, Lifecycle!SalesOrderStatus
      <4> QED BY <3>1, <4>1, <4>2 DEF Lifecycle!StrictNext
    <3> QED BY <3>2, <3>5, <3>6
  <2> QED BY <2>1, <2>2, <2>3, WhoWrites
<1> QED BY <1>1, <1>2, CopiesAreFresh, Invariance, PTL
        DEF Spec, ImplementsStrictLifecycle, Lifecycle!StrictSpec

(***************************************************************************)
(* A process that serves one request at a time keeps the flow, with no     *)
(* condition at all, while the other services go on between its awaits.    *)
(***************************************************************************)
THEOREM StrictOneAtATime ==
    ASSUME NEW slot, Requests = {slot}
    PROVE  Spec => ImplementsStrictLifecycle
<1>1. NoOverlap
  BY DEF NoOverlap
<1> QED BY <1>1, StrictWithoutOverlap, PTL

(***************************************************************************)
(* In which case the status of an order tells its history: it has been in  *)
(* the statuses up to its present one and in no other.                     *)
(***************************************************************************)
TellsHistory ==
    \A o \in Orders : Exists(o) =>
        reached[o] = {s \in SalesOrderStatus : Position[s] <= Position[orders[o].status]}

THEOREM StatusTellsHistory == Spec /\ []NoOverlap => []TellsHistory
<1>1. Init => TellsHistory
  BY DEF Init, TellsHistory, Exists
<1>2. IInv /\ Fresh /\ TellsHistory /\ [Next]_vars => TellsHistory'
  <2> SUFFICES ASSUME IInv, Fresh, TellsHistory, [Next]_vars PROVE TellsHistory'
    OBVIOUS
  <2>1. CASE UNCHANGED store
    BY <2>1 DEF store, TellsHistory, Exists
  <2>2. ASSUME NEW r \in Requests, InsertOrder(r) PROVE TellsHistory'
    <3>1. PICK p \in Orders :
             /\ orders' = [orders EXCEPT ![p] = NewOrder(dto[r])]
             /\ reached' = [reached EXCEPT ![p] = {"CRIADA"}]
      BY <2>2, InsertEffect
    <3>2. /\ orders'[p].status = "CRIADA" /\ reached'[p] = {"CRIADA"}
          /\ \A o \in Orders \ {p} : orders'[o] = orders[o] /\ reached'[o] = reached[o]
      BY <3>1 DEF NewOrder, IInv, TypeOK
    <3>3. {"CRIADA"} = {s \in SalesOrderStatus : Position[s] <= Position["CRIADA"]}
      BY DEF SalesOrderStatus, Position
    <3> QED BY <3>2, <3>3 DEF TellsHistory, Exists
  <2>3. ASSUME NEW r \in Requests, Write(r) PROVE TellsHistory'
    <3> DEFINE p == orderId[r]
               s == Entity(r).status
    <3>1. /\ p \in Orders /\ orders[p] \in SalesOrder /\ orders'[p] = Entity(r)
          /\ orders' = [orders EXCEPT ![p] = Entity(r)]
          /\ reached' = [reached EXCEPT ![p] = @ \cup {s}]
      BY <2>3, WriteExact
    <3>2. s \in SalesOrderStatus /\ (s = orders[p].status \/ Follows(orders[p].status, s))
      BY <2>3, WriteAdvances
    <3>3. /\ orders'[p].status = s /\ reached'[p] = reached[p] \cup {s}
          /\ \A o \in Orders \ {p} : orders'[o] = orders[o] /\ reached'[o] = reached[o]
      BY <3>1 DEF IInv, TypeOK
    <3>4. reached[p] = {q \in SalesOrderStatus : Position[q] <= Position[orders[p].status]}
      BY <3>1, NullFacts DEF TellsHistory, Exists
    <3>5. orders[p].status \in SalesOrderStatus
      BY <3>1 DEF SalesOrder
    <3>6. reached[p] \cup {s} = {q \in SalesOrderStatus : Position[q] <= Position[s]}
      BY <3>2, <3>4, <3>5, Positions DEF Follows
    <3> QED BY <3>3, <3>6 DEF TellsHistory, Exists
  <2> QED BY <2>1, <2>2, <2>3, WhoWrites
<1> QED BY <1>1, <1>2, CopiesAreFresh, Invariance, PTL DEF Spec

-----------------------------------------------------------------------------
(***************************************************************************)
(* Nothing another request wrote is lost: under the same condition a save  *)
(* changes the column its request was about and no other.                  *)
(***************************************************************************)
NothingIsLost ==
    [][\A o \in Orders : Exists(o) /\ orders'[o] # orders[o] =>
          \E r \in Requests :
              /\ orderId[r] = o
              /\ \/ /\ dto[r] \in UpdateStatusDto
                    /\ orders'[o] = [orders[o] EXCEPT !.status = dto[r].status]
                 \/ /\ dto[r] \in ChangeTransportDto
                    /\ orders'[o] = [orders[o] EXCEPT
                                        !.transportType = dto[r].transportType]]_vars

THEOREM NoLostUpdates == Spec /\ []NoOverlap => NothingIsLost
<1> DEFINE Kept ==
      \A o \in Orders : Exists(o) /\ orders'[o] # orders[o] =>
          \E r \in Requests :
              /\ orderId[r] = o
              /\ \/ /\ dto[r] \in UpdateStatusDto
                    /\ orders'[o] = [orders[o] EXCEPT !.status = dto[r].status]
                 \/ /\ dto[r] \in ChangeTransportDto
                    /\ orders'[o] = [orders[o] EXCEPT
                                        !.transportType = dto[r].transportType]
<1>1. IInv /\ Fresh /\ [Next]_vars => [Kept]_vars
  <2> SUFFICES ASSUME IInv, Fresh, [Next]_vars PROVE Kept
    OBVIOUS
  <2>1. CASE UNCHANGED store
    BY <2>1 DEF store
  <2>2. ASSUME NEW r \in Requests, InsertOrder(r) PROVE Kept
    BY <2>2, InsertEffect DEF Exists, IInv, TypeOK
  <2>3. ASSUME NEW r \in Requests, Write(r) PROVE Kept
    <3> DEFINE p == orderId[r]
    <3>1. /\ orders' = [orders EXCEPT ![p] = Entity(r)] /\ orders'[p] = Entity(r)
          /\ loaded[r] = orders[p] /\ ChecksPassed(r)
      BY <2>3, WriteExact
    <3>2. \A o \in Orders \ {p} : orders'[o] = orders[o]
      BY <3>1 DEF IInv, TypeOK
    <3>3. CASE dto[r] \in UpdateStatusDto
      <4>1. orders'[p] = [orders[p] EXCEPT !.status = dto[r].status]
        BY <3>1, <3>3 DEF Entity, UpdateStatusDto
      <4> QED BY <3>2, <3>3, <4>1
    <3>4. CASE dto[r] \in ChangeTransportDto
      <4>1. orders'[p] = [orders[p] EXCEPT !.transportType = dto[r].transportType]
        BY <3>1, <3>4 DEF Entity, ChangeTransportDto
      <4> QED BY <3>2, <3>4, <4>1
    <3> QED BY <3>1, <3>3, <3>4 DEF ChecksPassed
  <2> QED BY <2>1, <2>2, <2>3, WhoWrites
<1> QED BY <1>1, CopiesAreFresh, Invariance, PTL DEF Spec, NothingIsLost

-----------------------------------------------------------------------------
(***************************************************************************)
(* The second condition: the schedule that assertConfirmedSchedule has     *)
(* seen stays as it is until updateStatus has saved.                       *)
(***************************************************************************)
ScheduleHeld ==
    \A r \in Requests :
        pc[r] \in {"reload", "write"} /\ dto[r] \in UpdateStatusDto
          => scheduling'[orderId[r]] = scheduling[orderId[r]]

\* Then it is confirmed when the status is written.
StillConfirmed ==
    \A r \in Requests :
        /\ pc[r] \in {"reload", "write"}
        /\ dto[r] \in UpdateStatusDto /\ dto[r].status = "AGENDADA"
        => scheduling[orderId[r]] = "CONFIRMED"

LEMMA QuietKeepsConfirmed ==
    ASSUME IInv, StillConfirmed, NEW q \in Requests, Quiet(q)
    PROVE  StillConfirmed'
<1>0. /\ scheduling' = scheduling /\ TypeOK /\ RequestKnows(q)
      /\ \A r \in Requests \ {q} : SameSlot(r)
  BY QuietFrame DEF IInv, shared
<1>1. ASSUME NEW r \in Requests, SameSlot(r),
             pc'[r] \in {"reload", "write"}, dto'[r] \in UpdateStatusDto,
             dto'[r].status = "AGENDADA"
      PROVE  scheduling'[orderId'[r]] = "CONFIRMED"
  BY <1>0, <1>1 DEF StillConfirmed, SameSlot
<1>2. CASE \/ Receive(q) \/ Fail(q) \/ FindCustomer(q) \/ FindItems(q)
           \/ FindTransport(q) \/ LoadForTransport(q) \/ Emit(q) \/ Answer(q)
  <2>1. pc'[q] \notin {"reload", "write"}
    BY <1>0, <1>2 DEF Receive, Create, UpdateStatus, ChangeTransport, Call, Fail, Reject,
       FindCustomer, FindItems, FindTransport, LoadForTransport, Load, Emit, Answer,
       Require, Release, Goto, Keep, TypeOK
  <2> QED BY <1>0, <1>1, <2>1 DEF StillConfirmed
<1>3. CASE HandleAudit(q)
  <2>1. SameSlot(q)
    BY <1>3 DEF HandleAudit, SameSlot
  <2> QED BY <1>0, <1>1, <2>1 DEF StillConfirmed
<1>4. CASE CheckAuthorized(q)
  <2>1. pc'[q] \in {"reload", "write"} => dto'[q] \notin UpdateStatusDto
    BY <1>0, <1>4 DEF CheckAuthorized, Require, Release, Goto, Keep, TypeOK, RequestKnows,
       CreateSalesOrderDto, UpdateStatusDto, ChangeTransportDto
  <2> QED BY <1>0, <1>1, <2>1 DEF StillConfirmed
<1>5. CASE assertConfirmedSchedule(q)
  <2>1. pc'[q] \in {"reload", "write"} => scheduling'[orderId'[q]] = "CONFIRMED"
    BY <1>0, <1>5 DEF assertConfirmedSchedule, Require, Release, Goto, Keep, TypeOK
  <2> QED BY <1>0, <1>1, <2>1 DEF StillConfirmed
<1>6. CASE LoadForStatus(q)
  <2>1. pc'[q] \in {"reload", "write"} => dto'[q].status # "AGENDADA"
    BY <1>0, <1>6 DEF LoadForStatus, Load, Reject, Release, Goto, TypeOK
  <2> QED BY <1>0, <1>1, <2>1 DEF StillConfirmed
<1>7. CASE Reload(q)
  <2>1. pc[q] = "reload" /\ dto' = dto /\ orderId' = orderId
    BY <1>7 DEF Reload
  <2> QED BY <1>0, <1>1, <2>1 DEF StillConfirmed
<1> QED BY <1>2, <1>3, <1>4, <1>5, <1>6, <1>7 DEF Quiet

LEMMA StillConfirmedStep ==
    IInv /\ StillConfirmed /\ [Next]_vars /\ [ScheduleHeld]_vars => StillConfirmed'
<1> SUFFICES ASSUME IInv, StillConfirmed, [Next]_vars, [ScheduleHeld]_vars
             PROVE  StillConfirmed'
  OBVIOUS
<1>1. ASSUME NEW r \in Requests, Quiet(r) PROVE StillConfirmed'
  BY <1>1, QuietKeepsConfirmed
<1>2. ASSUME NEW q \in Requests, InsertOrder(q) \/ Write(q) PROVE StillConfirmed'
  <2>1. /\ pc' = [pc EXCEPT ![q] = "emit"] /\ dto' = dto /\ scheduling' = scheduling
        /\ \A r \in Requests \ {q} : orderId'[r] = orderId[r]
    BY <1>2 DEF InsertOrder, Write, Goto, shared, IInv, TypeOK
  <2> QED BY <2>1 DEF StillConfirmed, IInv, TypeOK
<1>3. CASE OtherServices
  <2>1. UNCHANGED slots
    BY <1>3 DEF OtherServices, DefineSchedule, ConfirmSchedule, CreateCustomer,
       SetAuthorizedTransports, Authorize, Register, Elsewhere
  <2>2. CASE ScheduleHeld
    BY <2>1, <2>2 DEF ScheduleHeld, StillConfirmed, slots
  <2>3. CASE UNCHANGED vars
    BY <2>3 DEF vars, tables, slots, StillConfirmed
  <2> QED BY <2>2, <2>3
<1>4. CASE Crash
  BY <1>4 DEF Crash, StillConfirmed
<1>5. CASE UNCHANGED vars
  BY <1>5 DEF vars, tables, slots, StillConfirmed
<1> QED BY <1>1, <1>2, <1>3, <1>4, <1>5 DEF Next, Step, Quiet

LEMMA StillConfirmedInit == Init => StillConfirmed
BY DEF Init, StillConfirmed

(***************************************************************************)
(* "AGENDADA exige um agendamento confirmado": an order becomes AGENDADA   *)
(* only while its schedule is confirmed, as long as requests for it do not *)
(* overlap and nobody redefines the schedule between the check of          *)
(* assertConfirmedSchedule and the save.                                   *)
(***************************************************************************)
THEOREM AgendadaWithHeldSchedule ==
    Spec /\ []NoOverlap /\ [][ScheduleHeld]_vars => AgendadaNeedsConfirmedSchedule
<1> DEFINE Confirmed ==
      \A o \in Orders :
          /\ orders'[o] # orders[o]
          /\ orders'[o].status = "AGENDADA"
          /\ orders[o].status # "AGENDADA"
          => scheduling[o] = "CONFIRMED"
<1>1. IInv /\ Fresh /\ StillConfirmed /\ [Next]_vars => [Confirmed]_vars
  <2> SUFFICES ASSUME IInv, Fresh, StillConfirmed, [Next]_vars PROVE Confirmed
    OBVIOUS
  <2>1. CASE UNCHANGED store
    BY <2>1 DEF store
  <2>2. ASSUME NEW r \in Requests, InsertOrder(r) PROVE Confirmed
    BY <2>2, InsertEffect DEF NewOrder, IInv, TypeOK
  <2>3. ASSUME NEW r \in Requests, Write(r) PROVE Confirmed
    <3> DEFINE p == orderId[r]
    <3>1. /\ orders' = [orders EXCEPT ![p] = Entity(r)] /\ orders'[p] = Entity(r)
          /\ loaded[r] = orders[p] /\ ChecksPassed(r)
          /\ orders[p] \in SalesOrder
      BY <2>3, WriteExact
    <3>2. \A o \in Orders \ {p} : orders'[o] = orders[o]
      BY <3>1 DEF IInv, TypeOK
    <3>3. CASE dto[r] \in UpdateStatusDto
      <4>1. Entity(r).status = dto[r].status
        BY <3>1, <3>3 DEF Entity, UpdateStatusDto, SalesOrder
      <4>2. dto[r].status = "AGENDADA" => scheduling[p] = "CONFIRMED"
        BY <2>3, <3>3 DEF StillConfirmed, Write
      <4> QED BY <3>1, <3>2, <4>1, <4>2
    <3>4. CASE dto[r] \in ChangeTransportDto
      <4>1. Entity(r).status = orders[p].status
        BY <3>1, <3>4 DEF Entity, ChangeTransportDto, SalesOrder
      <4> QED BY <3>1, <3>2, <4>1
    <3> QED BY <3>1, <3>3, <3>4 DEF ChecksPassed
  <2> QED BY <2>1, <2>2, <2>3, WhoWrites
<1> QED BY <1>1, StillConfirmedInit, StillConfirmedStep, CopiesAreFresh, Invariance, PTL
        DEF Spec, AgendadaNeedsConfirmedSchedule

-----------------------------------------------------------------------------
(***************************************************************************)
(* The third condition: the list that isTransportAuthorized has read for   *)
(* create stays as it is until the order is inserted.                      *)
(***************************************************************************)
ListHeld ==
    \A r \in Requests :
        pc[r] \in {"findItems", "insert"}
          => authorized'[dto[r].customer] = authorized[dto[r].customer]

StillAuthorized ==
    \A r \in Requests :
        pc[r] \in {"findItems", "insert"}
          => dto[r].transportType \in authorized[dto[r].customer]

LEMMA QuietKeepsAuthorized ==
    ASSUME IInv, StillAuthorized, NEW q \in Requests, Quiet(q)
    PROVE  StillAuthorized'
<1>0. /\ authorized' = authorized /\ TypeOK
      /\ \A r \in Requests \ {q} : SameSlot(r)
  BY QuietFrame DEF IInv, shared
<1>1. ASSUME NEW r \in Requests, SameSlot(r), pc'[r] \in {"findItems", "insert"}
      PROVE  dto'[r].transportType \in authorized'[dto'[r].customer]
  BY <1>0, <1>1 DEF StillAuthorized, SameSlot
<1>2. CASE \/ Receive(q) \/ Fail(q) \/ FindCustomer(q) \/ FindTransport(q)
           \/ LoadForStatus(q) \/ LoadForTransport(q) \/ assertConfirmedSchedule(q)
           \/ Reload(q) \/ Emit(q) \/ Answer(q)
  <2>1. pc'[q] \notin {"findItems", "insert"}
    BY <1>0, <1>2 DEF Receive, Create, UpdateStatus, ChangeTransport, Call, Fail, Reject,
       FindCustomer, FindTransport, LoadForStatus, LoadForTransport, Load,
       assertConfirmedSchedule, Reload, Emit, Answer, Require, Release, Goto, Keep, TypeOK
  <2> QED BY <1>0, <1>1, <2>1 DEF StillAuthorized
<1>3. CASE HandleAudit(q)
  <2>1. SameSlot(q)
    BY <1>3 DEF HandleAudit, SameSlot
  <2> QED BY <1>0, <1>1, <2>1 DEF StillAuthorized
<1>4. CASE CheckAuthorized(q)
  <2>1. pc'[q] \in {"findItems", "insert"} =>
          dto'[q].transportType \in authorized'[dto'[q].customer]
    BY <1>0, <1>4 DEF CheckAuthorized, CustomerOf, Require, Release, Goto, Keep, TypeOK
  <2> QED BY <1>0, <1>1, <2>1 DEF StillAuthorized
<1>5. CASE FindItems(q)
  <2>1. pc'[q] \in {"findItems", "insert"} => pc[q] = "findItems" /\ dto' = dto
    BY <1>0, <1>5 DEF FindItems, Require, Release, Goto, Keep, TypeOK
  <2> QED BY <1>0, <1>1, <2>1 DEF StillAuthorized
<1> QED BY <1>2, <1>3, <1>4, <1>5 DEF Quiet

LEMMA StillAuthorizedStep ==
    IInv /\ StillAuthorized /\ [Next]_vars /\ [ListHeld]_vars => StillAuthorized'
<1> SUFFICES ASSUME IInv, StillAuthorized, [Next]_vars, [ListHeld]_vars
             PROVE  StillAuthorized'
  OBVIOUS
<1>1. ASSUME NEW r \in Requests, Quiet(r) PROVE StillAuthorized'
  BY <1>1, QuietKeepsAuthorized
<1>2. ASSUME NEW q \in Requests, InsertOrder(q) \/ Write(q) PROVE StillAuthorized'
  <2>1. pc' = [pc EXCEPT ![q] = "emit"] /\ dto' = dto /\ authorized' = authorized
    BY <1>2 DEF InsertOrder, Write, Goto, shared
  <2> QED BY <2>1 DEF StillAuthorized, IInv, TypeOK
<1>3. CASE OtherServices
  <2>1. UNCHANGED slots
    BY <1>3 DEF OtherServices, DefineSchedule, ConfirmSchedule, CreateCustomer,
       SetAuthorizedTransports, Authorize, Register, Elsewhere
  <2>2. CASE ListHeld
    BY <2>1, <2>2 DEF ListHeld, StillAuthorized, slots
  <2>3. CASE UNCHANGED vars
    BY <2>3 DEF vars, tables, slots, StillAuthorized
  <2> QED BY <2>2, <2>3
<1>4. CASE Crash
  BY <1>4 DEF Crash, StillAuthorized
<1>5. CASE UNCHANGED vars
  BY <1>5 DEF vars, tables, slots, StillAuthorized
<1> QED BY <1>1, <1>2, <1>3, <1>4, <1>5 DEF Next, Step, Quiet

(***************************************************************************)
(* "So pode ser criada com um transporte que esteja nesta lista": true as  *)
(* long as nobody replaces the list of a customer between the check of     *)
(* create and its insert, however requests overlap otherwise.              *)
(***************************************************************************)
THEOREM CreatedWithHeldList ==
    Spec /\ [][ListHeld]_vars => CreatedWithAuthorizedTransport
<1> DEFINE Authorized ==
      \A o \in Orders : ~ Exists(o) /\ orders'[o] # Null =>
          orders'[o].transportType \in authorized[orders'[o].customer]
<1>1. IInv /\ StillAuthorized /\ [Next]_vars => [Authorized]_vars
  <2> SUFFICES ASSUME IInv, StillAuthorized, [Next]_vars PROVE Authorized
    OBVIOUS
  <2>1. CASE UNCHANGED store
    BY <2>1 DEF store, Exists
  <2>2. ASSUME NEW r \in Requests, InsertOrder(r) PROVE Authorized
    <3>1. PICK p \in Orders : orders' = [orders EXCEPT ![p] = NewOrder(dto[r])]
      BY <2>2, InsertEffect
    <3>2. NewOrder(dto[r]).transportType \in authorized[NewOrder(dto[r]).customer]
      BY <2>2 DEF InsertOrder, StillAuthorized, NewOrder
    <3> QED BY <3>1, <3>2 DEF Exists, IInv, TypeOK
  <2>3. ASSUME NEW r \in Requests, Write(r) PROVE Authorized
    BY <2>3, WriteEffect DEF Exists, IInv, TypeOK
  <2> QED BY <2>1, <2>2, <2>3, WhoWrites
<1>2. Init => StillAuthorized
  BY DEF Init, StillAuthorized
<1> QED BY <1>1, <1>2, StillAuthorizedStep, Invariance, PTL
        DEF Spec, CreatedWithAuthorizedTransport

=============================================================================
