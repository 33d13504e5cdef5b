------------------------- MODULE SalesOrdersProofs -------------------------
(***************************************************************************)
(* Proofs about SalesOrders for any sets of orders, customers, transport   *)
(* types, items and concurrent requests.                                   *)
(***************************************************************************)
EXTENDS SalesOrders, TLAPS

LEMMA NullFacts ==
    /\ Null \notin SalesOrder /\ Null \notin Dto
    /\ Null \notin AuditEventPayload /\ Null \notin Orders
BY NullAssumption

(***************************************************************************)
(* The table of the code is the documented flow: what it allows is the     *)
(* next position, so adding it to a closed set leaves the set closed.      *)
(***************************************************************************)
LEMMA TransitionFollows ==
    ASSUME NEW p \in SalesOrderStatus, NEW s, canTransition(p, s)
    PROVE  s \in SalesOrderStatus /\ Follows(p, s)
<1>1. CASE p = "CRIADA"
  BY <1>1 DEF canTransition, allowedTransitions, SALES_ORDER_TRANSITIONS,
     SalesOrderStatus, Follows, Position
<1>2. CASE p = "PLANEJADA"
  BY <1>2 DEF canTransition, allowedTransitions, SALES_ORDER_TRANSITIONS,
     SalesOrderStatus, Follows, Position
<1>3. CASE p = "AGENDADA"
  BY <1>3 DEF canTransition, allowedTransitions, SALES_ORDER_TRANSITIONS,
     SalesOrderStatus, Follows, Position
<1>4. CASE p = "EM_TRANSPORTE"
  BY <1>4 DEF canTransition, allowedTransitions, SALES_ORDER_TRANSITIONS,
     SalesOrderStatus, Follows, Position
<1>5. CASE p = "ENTREGUE"
  BY <1>5 DEF canTransition, allowedTransitions, SALES_ORDER_TRANSITIONS
<1> QED BY <1>1, <1>2, <1>3, <1>4, <1>5 DEF SalesOrderStatus

LEMMA Positions ==
    /\ \A s \in SalesOrderStatus : Position[s] \in 1..5
    /\ \A s, t \in SalesOrderStatus : Position[s] = Position[t] => s = t
    /\ \A s \in SalesOrderStatus : ~(Position[s] < Position["CRIADA"])
    /\ \A s \in SalesOrderStatus : s # "ENTREGUE" => Position[s] < Position["ENTREGUE"]
BY DEF SalesOrderStatus, Position

LEMMA FlowStarts == ASSUME NEW S, S = {"CRIADA"} PROVE FlowClosed(S)
BY Positions DEF FlowClosed

LEMMA FlowGrows ==
    ASSUME NEW S \in SUBSET SalesOrderStatus, NEW p \in S, NEW s,
           FlowClosed(S), canTransition(p, s)
    PROVE  FlowClosed(S \cup {s})
<1>1. s \in SalesOrderStatus /\ Position[s] = Position[p] + 1
  BY TransitionFollows DEF Follows
<1>2. ASSUME NEW q \in SalesOrderStatus, Position[q] < Position[s]
      PROVE  q \in S
  <2>1. Position[q] = Position[p] \/ Position[q] < Position[p]
    BY <1>1, <1>2, Positions
  <2> QED BY <2>1, Positions DEF FlowClosed
<1> QED BY <1>2 DEF FlowClosed

(***************************************************************************)
(* An order that has been delivered has been through the whole flow.       *)
(***************************************************************************)
LEMMA ClosedAtTheEnd ==
    ASSUME NEW S \in SUBSET SalesOrderStatus, FlowClosed(S), "ENTREGUE" \in S
    PROVE  S = SalesOrderStatus
BY Positions DEF FlowClosed

LEMMA TypeInit == Init => TypeOK
BY StockAssumption DEF Init, TypeOK, PC, SalesOrder, Ids

(***************************************************************************)
(* The entity handed to save: a row, of the same customer, with a status   *)
(* the order had or one that may follow it, and a transport that was once  *)
(* granted.                                                                *)
(***************************************************************************)
LEMMA EntityFacts ==
    ASSUME NEW r \in Requests, HoldsOldRow(r), ChecksPassed(r)
    PROVE  /\ Entity(r) \in SalesOrder
           /\ Entity(r).customer = loaded[r].customer
           /\ Entity(r).items = loaded[r].items
           /\ \/ Entity(r).status = loaded[r].status
              \/ /\ canTransition(loaded[r].status, Entity(r).status)
                 /\ Entity(r).status = "AGENDADA" => orderId[r] \in everConfirmed
<1>1. CASE dto[r] \in UpdateStatusDto
  <2>1. /\ canTransition(loaded[r].status, dto[r].status)
        /\ dto[r].status = "AGENDADA" => orderId[r] \in everConfirmed
    BY <1>1 DEF ChecksPassed, UpdateStatusDto, ChangeTransportDto
  <2>2. Entity(r) = [loaded[r] EXCEPT !.status = dto[r].status]
    BY <1>1 DEF Entity, UpdateStatusDto
  <2>3. /\ Entity(r) \in SalesOrder /\ Entity(r).status = dto[r].status
        /\ Entity(r).customer = loaded[r].customer
        /\ Entity(r).items = loaded[r].items
    BY <1>1, <2>2 DEF HoldsOldRow, SalesOrder, UpdateStatusDto
  <2> QED
    BY <2>1, <2>3 DEF HoldsOldRow
<1>2. CASE dto[r] \in ChangeTransportDto
  BY <1>2 DEF HoldsOldRow, ChecksPassed, Entity, SalesOrder,
     UpdateStatusDto, ChangeTransportDto
<1> QED BY <1>1, <1>2 DEF ChecksPassed

LEMMA EntityGranted ==
    ASSUME TransportOnceAuthorized, NEW r \in Requests,
           HoldsOldRow(r), ChecksPassed(r)
    PROVE  Granted(loaded[r].customer, Entity(r).transportType)
<1>1. loaded[r].transportType \in everAuthorized[loaded[r].customer]
  BY DEF HoldsOldRow, TransportOnceAuthorized, Exists
<1>2. CASE dto[r] \in UpdateStatusDto
  BY <1>1, <1>2 DEF Entity, UpdateStatusDto, HoldsOldRow, SalesOrder, Granted
<1>3. CASE dto[r] \in ChangeTransportDto
  BY <1>3 DEF Entity, ChecksPassed, UpdateStatusDto, ChangeTransportDto,
     HoldsOldRow, SalesOrder
<1> QED BY <1>2, <1>3 DEF ChecksPassed

(***************************************************************************)
(* What the UPDATE leaves in the row: each column is the one that was      *)
(* there or the one of the entity, and the status is the entity's whenever *)
(* that column was found to differ.                                        *)
(***************************************************************************)
LEMMA WriteFacts ==
    ASSUME TypeOK, NEW r \in Requests, RequestKnows(r), Write(r)
    PROVE  LET o == orderId[r] IN
           /\ HoldsOldRow(r) /\ ChecksPassed(r) /\ o \in Orders
           /\ orders[o] \in SalesOrder
           /\ orders' = [orders EXCEPT ![o] = orders'[o]]
           /\ reached' = [reached EXCEPT ![o] = @ \cup {orders'[o].status}]
           /\ carried' = [carried EXCEPT ![o] = @ \cup {orders'[o].transportType}]
           /\ orders'[o] \in SalesOrder
           /\ orders'[o].customer = orders[o].customer
           /\ orders'[o].items = orders[o].items
           /\ orders'[o].status \in {orders[o].status, Entity(r).status}
           /\ "status" \in patch[r] => orders'[o].status = Entity(r).status
           /\ orders'[o].transportType
                \in {orders[o].transportType, Entity(r).transportType}
           /\ "transportType" \in patch[r] =>
                orders'[o].transportType = Entity(r).transportType
<1> DEFINE o == orderId[r]
<1>1. HoldsOldRow(r) /\ ChecksPassed(r) /\ o \in Orders
  BY DEF Write, RequestKnows, HoldsOldRow
<1>2. orders[o] \in SalesOrder
  BY <1>1 DEF HoldsOldRow, Exists, TypeOK
<1>3. Entity(r) \in SalesOrder
  BY <1>1, EntityFacts
<1>4. PICK row :
        /\ row = [customer |-> IF "customer" \in patch[r]
                                 THEN Entity(r).customer ELSE orders[o].customer,
                  transportType |-> IF "transportType" \in patch[r]
                                      THEN Entity(r).transportType
                                      ELSE orders[o].transportType,
                  items |-> IF "items" \in patch[r]
                              THEN Entity(r).items ELSE orders[o].items,
                  status |-> IF "status" \in patch[r]
                               THEN Entity(r).status ELSE orders[o].status]
        /\ orders' = [orders EXCEPT ![o] = row]
        /\ reached' = [reached EXCEPT ![o] = @ \cup {row.status}]
        /\ carried' = [carried EXCEPT ![o] = @ \cup {row.transportType}]
  BY DEF Write
<1>5. /\ row \in SalesOrder
      /\ row.customer = orders[o].customer /\ row.items = orders[o].items
      /\ row.status \in {orders[o].status, Entity(r).status}
      /\ "status" \in patch[r] => row.status = Entity(r).status
      /\ row.transportType
           \in {orders[o].transportType, Entity(r).transportType}
      /\ "transportType" \in patch[r] => row.transportType = Entity(r).transportType
  <2>1. "customer" \notin patch[r] /\ "items" \notin patch[r]
    BY DEF Write, RequestKnows
  <2> HIDE DEF o
  <2> QED BY <1>2, <1>3, <1>4, <2>1 DEF SalesOrder
<1>6. orders'[o] = row
  BY <1>1, <1>4 DEF TypeOK
<1> QED
  BY <1>1, <1>2, <1>4, <1>5, <1>6

LEMMA TypeStep == IInv /\ [Next]_vars => TypeOK'
<1> SUFFICES ASSUME TypeOK, \A r \in Requests : RequestKnows(r), [Next]_vars
             PROVE  TypeOK'
  BY DEF IInv
<1> USE DEF TypeOK, store, shared
<1>1. ASSUME NEW r \in Requests, Create(r) PROVE TypeOK'
  BY <1>1 DEF Create, Call, Goto, PC, Dto
<1>2. ASSUME NEW r \in Requests, UpdateStatus(r) PROVE TypeOK'
  BY <1>2 DEF UpdateStatus, Call, Goto, PC, Dto
<1>3. ASSUME NEW r \in Requests, ChangeTransport(r) PROVE TypeOK'
  BY <1>3 DEF ChangeTransport, Call, Goto, PC, Dto
<1>4. ASSUME NEW r \in Requests, FindCustomer(r) PROVE TypeOK'
  BY <1>4 DEF FindCustomer, Require, Release, Keep, Goto, PC
<1>5. ASSUME NEW r \in Requests, FindTransport(r) PROVE TypeOK'
  BY <1>5 DEF FindTransport, Require, Release, Keep, Goto, PC
<1>6. ASSUME NEW r \in Requests, CheckAuthorized(r) PROVE TypeOK'
  BY <1>6 DEF CheckAuthorized, Require, Release, Keep, Goto, PC
<1>7. ASSUME NEW r \in Requests, FindItems(r) PROVE TypeOK'
  BY <1>7 DEF FindItems, Require, Release, Keep, Goto, PC
<1>8. ASSUME NEW r \in Requests, InsertOrder(r) PROVE TypeOK'
  BY <1>8, NullFacts DEF RequestKnows, InsertOrder, Goto, PC, FreeIds, NewOrder, SalesOrder,
     Dto, CreateSalesOrderDto, SalesOrderStatus
<1>9. ASSUME NEW r \in Requests, LoadForStatus(r) PROVE TypeOK'
  BY <1>9 DEF RequestKnows, LoadForStatus, Load, Reject, Release, Goto, PC
<1>10. ASSUME NEW r \in Requests, assertConfirmedSchedule(r) PROVE TypeOK'
  BY <1>10 DEF assertConfirmedSchedule, Require, Release, Keep, Goto, PC
<1>11. ASSUME NEW r \in Requests, LoadForTransport(r) PROVE TypeOK'
  BY <1>11 DEF RequestKnows, LoadForTransport, Load, Reject, Release, Goto, PC
<1>12. ASSUME NEW r \in Requests, Reload(r) PROVE TypeOK'
  BY <1>12 DEF Reload, Goto, PC
<1>13. ASSUME NEW r \in Requests, Answer(r) PROVE TypeOK'
  BY <1>13 DEF Answer, Release, Goto, PC
<1>14. ASSUME NEW r \in Requests, HandleAudit(r) PROVE TypeOK'
  BY <1>14 DEF HandleAudit
<1>15. ASSUME NEW r \in Requests, Fail(r) PROVE TypeOK'
  BY <1>15 DEF Fail, Reject, Release, Goto, PC
<1>16. ASSUME Crash PROVE TypeOK'
  BY <1>16 DEF Crash, PC
<1>17. ASSUME NEW o \in Orders, DefineSchedule(o) \/ ConfirmSchedule(o)
       PROVE  TypeOK'
  BY <1>17 DEF DefineSchedule, ConfirmSchedule, Table!Define, Table!Confirm,
               Elsewhere, slots, store
<1>18. ASSUME NEW c \in Customers, CreateCustomer(c) PROVE TypeOK'
  BY <1>18 DEF CreateCustomer, Authorize, Grants!Create, Grants!Grant,
               Elsewhere, slots, store, Ids
<1>19. ASSUME NEW c \in Customers, SetAuthorizedTransports(c) PROVE TypeOK'
  BY <1>19 DEF SetAuthorizedTransports, Authorize, Grants!Replace, Grants!Grant,
               Elsewhere, slots, store
<1>20. ASSUME NEW id \in TransportTypes \cup Items, Register(id) PROVE TypeOK'
  BY <1>20 DEF Register, Elsewhere, slots, Ids
<1>21. ASSUME NEW r \in Requests, Write(r) PROVE TypeOK'
  <2>1. /\ orderId[r] \in Orders
        /\ orders' = [orders EXCEPT ![orderId[r]] = orders'[orderId[r]]]
        /\ reached' = [reached EXCEPT
                         ![orderId[r]] = @ \cup {orders'[orderId[r]].status}]
        /\ carried' = [carried EXCEPT
                         ![orderId[r]] = @ \cup {orders'[orderId[r]].transportType}]
        /\ orders'[orderId[r]] \in SalesOrder
    BY <1>21, WriteFacts
  <2>2. /\ orders'[orderId[r]].status \in SalesOrderStatus
        /\ orders'[orderId[r]].transportType \in TransportTypes
    BY <2>1 DEF SalesOrder
  <2> QED
    BY <1>21, <2>1, <2>2 DEF Write, Goto, PC
<1>22. ASSUME NEW r \in Requests, Emit(r) PROVE TypeOK'
  BY <1>22 DEF RequestKnows, HoldsOldRow, ChecksPassed, Emit, Payload, Keep,
     Goto, PC, SalesOrder, AuditEventPayload, CreateSalesOrderDto,
     UpdateStatusDto, ChangeTransportDto
<1>23. CASE UNCHANGED vars
  BY <1>23 DEF vars, tables, slots, history
<1> QED
  BY <1>1, <1>2, <1>3, <1>4, <1>5, <1>6, <1>7, <1>8, <1>9, <1>10, <1>11, <1>12,
     <1>13, <1>14, <1>15, <1>16, <1>17, <1>18, <1>19, <1>20, <1>21, <1>22, <1>23
     DEF Next, Receive, Step, OtherServices

-----------------------------------------------------------------------------
(***************************************************************************)
(* What a step may do to what requests rely on: rows stay, with the same   *)
(* customer and items, and the histories only grow.                        *)
(***************************************************************************)
HistoryGrows ==
    /\ \A o \in Orders : orders[o] # Null =>
         /\ orders'[o] # Null /\ orders'[o].customer = orders[o].customer
         /\ orders'[o].items = orders[o].items
    /\ \A o \in Orders : reached[o] \subseteq reached'[o]
    /\ \A o \in Orders : carried[o] \subseteq carried'[o]
    /\ everConfirmed \subseteq everConfirmed'
    /\ \A c \in Customers : everAuthorized[c] \subseteq everAuthorized'[c]

SameSlot(r) ==
    /\ pc'[r] = pc[r] /\ dto'[r] = dto[r] /\ orderId'[r] = orderId[r]
    /\ loaded'[r] = loaded[r] /\ patch'[r] = patch[r]

(***************************************************************************)
(* A request that does not move keeps what it knows while others write.    *)
(***************************************************************************)
LEMMA CopyStays ==
    ASSUME HistoryGrows, NEW r \in Requests,
           dto'[r] = dto[r], orderId'[r] = orderId[r], loaded'[r] = loaded[r]
    PROVE  /\ HoldsOldRow(r) => HoldsOldRow(r)'
           /\ HoldsOldRow(r) /\ ChecksPassed(r) => ChecksPassed(r)'
           /\ orderId[r] \in Orders /\ StatusIsStored(r) => StatusIsStored(r)'
           /\ orderId[r] \in Orders /\ TransportIsStored(r)
                => TransportIsStored(r)'
<1>1. HoldsOldRow(r) => HoldsOldRow(r)'
  BY DEF HoldsOldRow, HistoryGrows, Exists, Granted, SalesOrder
<1>2. HoldsOldRow(r) /\ ChecksPassed(r) => ChecksPassed(r)'
  BY DEF HoldsOldRow, ChecksPassed, HistoryGrows, Granted, SalesOrder,
     UpdateStatusDto, ChangeTransportDto, canTransition
<1>3. orderId[r] \in Orders /\ StatusIsStored(r) => StatusIsStored(r)'
  BY DEF StatusIsStored, Entity, HistoryGrows
<1>4. orderId[r] \in Orders /\ TransportIsStored(r) => TransportIsStored(r)'
  BY DEF TransportIsStored, Entity, HistoryGrows
<1> QED BY <1>1, <1>2, <1>3, <1>4

LEMMA KnowledgeStays ==
    ASSUME HistoryGrows, NEW r \in Requests, SameSlot(r), RequestKnows(r)
    PROVE  RequestKnows(r)'
<1>1. /\ HoldsOldRow(r) => HoldsOldRow(r)'
      /\ HoldsOldRow(r) /\ ChecksPassed(r) => ChecksPassed(r)'
      /\ HoldsOldRow(r) /\ StatusIsStored(r) => StatusIsStored(r)'
      /\ HoldsOldRow(r) /\ TransportIsStored(r) => TransportIsStored(r)'
  BY CopyStays DEF SameSlot, HoldsOldRow
<1>2. dto[r] \in CreateSalesOrderDto /\ Granted(dto[r].customer, dto[r].transportType)
        => Granted(dto[r].customer, dto[r].transportType)'
  BY DEF Granted, SameSlot, HistoryGrows, CreateSalesOrderDto
<1>3. orderId[r] \in Orders /\ Exists(orderId[r]) => Exists(orderId[r])'
  BY DEF Exists, SameSlot, HistoryGrows
<1> QED
  BY <1>1, <1>2, <1>3 DEF RequestKnows, SameSlot, canTransition

(***************************************************************************)
(* So does an event the listener still holds.                              *)
(***************************************************************************)
Truthful(e) ==
    /\ Exists(e.order)
    /\ e.action = "SALES_ORDER_STATUS_CHANGED" =>
         /\ Follows(e.previous, e.new)
         /\ {e.previous, e.new} \subseteq reached[e.order]
    /\ e.action = "SALES_ORDER_TRANSPORT_CHANGED" =>
         {e.previous, e.new} \subseteq carried[e.order]

LEMMA EventsStay ==
    ASSUME TypeOK, HistoryGrows, EventsTellTheTruth,
           \A r \in Requests : event'[r] \in {event[r], Null}
    PROVE  EventsTellTheTruth'
<1> SUFFICES ASSUME NEW r \in Requests, NEW e, e = event'[r], e # Null
             PROVE  Truthful(e)'
  BY DEF EventsTellTheTruth, Truthful
<1>1. e = event[r] /\ e \in AuditEventPayload
  BY DEF TypeOK
<1>2. e.order \in Orders
  BY <1>1 DEF AuditEventPayload
<1>3. Truthful(e)
  BY <1>1 DEF EventsTellTheTruth, Truthful
<1> QED
  BY <1>2, <1>3 DEF Truthful, HistoryGrows, Exists

-----------------------------------------------------------------------------
(***************************************************************************)
(* The steps of a request that touch neither a table nor a history.        *)
(***************************************************************************)
Quiet(r) ==
    \/ Receive(r) \/ HandleAudit(r) \/ Fail(r)
    \/ FindCustomer(r) \/ FindTransport(r) \/ CheckAuthorized(r) \/ FindItems(r)
    \/ LoadForStatus(r) \/ assertConfirmedSchedule(r) \/ LoadForTransport(r)
    \/ Reload(r) \/ Emit(r) \/ Answer(r)

LEMMA QuietFrame ==
    ASSUME TypeOK, NEW r \in Requests, Quiet(r)
    PROVE  /\ UNCHANGED <<store, shared>>
           /\ \A q \in Requests \ {r} : SameSlot(q) /\ event'[q] = event[q]
<1> USE DEF TypeOK, SameSlot, store, shared, Goto
<1>1. CASE Receive(r)
  BY <1>1 DEF Receive, Create, UpdateStatus, ChangeTransport, Call
<1>2. CASE HandleAudit(r)
  BY <1>2 DEF HandleAudit
<1>3. CASE Fail(r) \/ Answer(r)
  BY <1>3 DEF Fail, Reject, Answer, Release
<1>4. CASE FindCustomer(r) \/ FindTransport(r) \/ CheckAuthorized(r)
  BY <1>4 DEF FindCustomer, FindTransport, CheckAuthorized, Require, Release,
     Keep
<1>5. CASE FindItems(r) \/ assertConfirmedSchedule(r)
  BY <1>5 DEF FindItems, assertConfirmedSchedule, Require, Release, Keep
<1>6. CASE LoadForStatus(r) \/ LoadForTransport(r)
  BY <1>6 DEF LoadForStatus, LoadForTransport, Load, Reject, Release
<1>7. CASE Reload(r)
  BY <1>7 DEF Reload
<1>8. CASE Emit(r)
  BY <1>8 DEF Emit, Keep
<1> QED BY <1>1, <1>2, <1>3, <1>4, <1>5, <1>6, <1>7, <1>8 DEF Quiet

LEMMA QuietGrows == UNCHANGED <<store, shared>> => HistoryGrows
BY DEF HistoryGrows, store, shared

(***************************************************************************)
(* Each quiet step leaves its request knowing what it must know next: this *)
(* is where the checks of the handlers are used.                           *)
(***************************************************************************)
LEMMA QuietLearns ==
    ASSUME IInv, TypeOK', NEW r \in Requests, Quiet(r)
    PROVE  RequestKnows(r)'
<1> USE DEF Goto, store, shared
<1>0. /\ TypeOK /\ RequestKnows(r) /\ HistoryGrows
      /\ UNCHANGED <<store, shared>>
  BY QuietFrame, QuietGrows DEF IInv
<1>1. ASSUME pc'[r] = "idle" PROVE RequestKnows(r)'
  BY <1>1 DEF RequestKnows
<1>2. ASSUME Release(r) PROVE RequestKnows(r)'
  BY <1>0, <1>1, <1>2 DEF Release, TypeOK
<1>3. CASE Receive(r)
  BY <1>0, <1>3 DEF Receive, Create, UpdateStatus, ChangeTransport, Call,
     RequestKnows, TypeOK
<1>4. CASE HandleAudit(r)
  BY <1>0, <1>4, KnowledgeStays DEF HandleAudit, SameSlot
<1>5. CASE Fail(r) \/ Answer(r)
  BY <1>2, <1>5 DEF Fail, Reject, Answer
<1>6. CASE FindCustomer(r)
  BY <1>0, <1>2, <1>6 DEF FindCustomer, Require, Keep, RequestKnows, TypeOK
<1>7. ASSUME dto'[r] = dto[r], orderId'[r] = orderId[r], loaded'[r] = loaded[r]
      PROVE  /\ HoldsOldRow(r) => HoldsOldRow(r)'
             /\ HoldsOldRow(r) /\ ChecksPassed(r) => ChecksPassed(r)'
             /\ HoldsOldRow(r) /\ StatusIsStored(r) => StatusIsStored(r)'
             /\ HoldsOldRow(r) /\ TransportIsStored(r) => TransportIsStored(r)'
  BY <1>0, <1>7, CopyStays DEF HoldsOldRow
<1>8. CASE FindTransport(r)
  BY <1>0, <1>2, <1>7, <1>8 DEF FindTransport, Require, Keep, RequestKnows, TypeOK
<1>9. CASE CheckAuthorized(r)
  <2>1. ASSUME Goto(r, IF dto[r].kind = "create" THEN "findItems" ELSE "reload"),
               Keep, dto[r].transportType \in authorized[CustomerOf(r)]
        PROVE  RequestKnows(r)'
    <3>1. CASE dto[r] \in CreateSalesOrderDto
      <4>1. pc'[r] = "findItems" /\ dto'[r] = dto[r]
        BY <1>0, <2>1, <3>1 DEF Keep, CreateSalesOrderDto, TypeOK
      <4>2. Granted(dto[r].customer, dto[r].transportType)'
        BY <1>0, <2>1, <3>1, <4>1 DEF CustomerOf, CreateSalesOrderDto, IInv,
           HistoryCovers, Granted
      <4> QED BY <3>1, <4>1, <4>2 DEF RequestKnows
    <3>2. CASE dto[r] \in ChangeTransportDto /\ HoldsOldRow(r)
      <4>1. /\ pc'[r] = "reload" /\ dto'[r] = dto[r]
            /\ orderId'[r] = orderId[r] /\ loaded'[r] = loaded[r]
        BY <1>0, <2>1, <3>2 DEF Keep, ChangeTransportDto, TypeOK
      <4>2. Granted(loaded[r].customer, dto[r].transportType)
        BY <2>1, <3>2 DEF CustomerOf, ChangeTransportDto, HoldsOldRow,
           SalesOrder, IInv, HistoryCovers, Granted
      <4>3. ChecksPassed(r)
        BY <3>2, <4>2 DEF ChecksPassed
      <4>4. HoldsOldRow(r)' /\ ChecksPassed(r)'
        BY <1>7, <3>2, <4>1, <4>3
      <4> QED BY <4>1, <4>4 DEF RequestKnows
    <3> QED BY <1>0, <1>9, <3>1, <3>2 DEF RequestKnows, CheckAuthorized
  <2> QED BY <1>2, <1>9, <2>1 DEF CheckAuthorized, Require
<1>10. CASE FindItems(r)
  BY <1>0, <1>2, <1>10 DEF FindItems, Require, Keep, RequestKnows, Granted, TypeOK
<1>11. CASE LoadForStatus(r) \/ LoadForTransport(r)
  <2> DEFINE row == orders[orderId[r]]
  <2>1. orderId[r] \in Orders
    BY <1>0, <1>11 DEF LoadForStatus, LoadForTransport, RequestKnows
  <2>2. ASSUME NEW label, Load(r, label), row # Null
        PROVE  /\ HoldsOldRow(r)' /\ loaded'[r] = row /\ dto'[r] = dto[r]
               /\ pc'[r] = label
    <3>1. row \in SalesOrder
      BY <2>1, <2>2 DEF IInv, TypeOK
    <3>2. row.status \in reached[orderId[r]]
          /\ row.transportType \in carried[orderId[r]]
      BY <2>1, <2>2 DEF IInv, NothingSkipped, TransportOnceAuthorized, Exists
    <3> QED
      BY <1>0, <2>1, <2>2, <3>1, <3>2 DEF Load, HoldsOldRow, Exists, Granted, TypeOK
  <2>3. CASE LoadForStatus(r)
    <3>1. CASE row # Null /\ canTransition(row.status, dto[r].status)
      <4>1. PICK label \in {"assertSchedule", "reload"} :
              /\ Load(r, label)
              /\ label = "reload" => dto[r].status # "AGENDADA"
        BY <2>3, <3>1 DEF LoadForStatus
      <4>2. /\ HoldsOldRow(r)' /\ dto'[r] = dto[r] /\ pc'[r] = label
            /\ loaded'[r] = row
        BY <2>2, <3>1, <4>1
      <4>3. dto'[r] \in UpdateStatusDto
        BY <1>0, <2>3, <4>2 DEF LoadForStatus, RequestKnows
      <4>4. canTransition(loaded[r].status, dto[r].status)'
        BY <3>1, <4>2 DEF canTransition
      <4>5. CASE label = "assertSchedule"
        BY <4>2, <4>3, <4>4, <4>5 DEF RequestKnows
      <4>6. CASE label = "reload"
        <5>1. ChecksPassed(r)'
          BY <4>1, <4>2, <4>3, <4>4, <4>6 DEF ChecksPassed
        <5> QED BY <4>2, <4>6, <5>1 DEF RequestKnows
      <4> QED BY <4>1, <4>5, <4>6
    <3> QED BY <1>2, <2>3, <3>1 DEF LoadForStatus, Reject
  <2>4. CASE LoadForTransport(r)
    BY <1>0, <1>2, <2>2, <2>4 DEF LoadForTransport, Reject, RequestKnows
  <2> QED BY <1>11, <2>3, <2>4
<1>12. CASE assertConfirmedSchedule(r)
  <2>1. HoldsOldRow(r) /\ dto[r] \in UpdateStatusDto
        /\ canTransition(loaded[r].status, dto[r].status)
    BY <1>0, <1>12 DEF assertConfirmedSchedule, RequestKnows
  <2>2. ASSUME scheduling[orderId[r]] = "CONFIRMED", Goto(r, "reload"), Keep
        PROVE  RequestKnows(r)'
    <3>1. ChecksPassed(r)
      BY <2>1, <2>2 DEF ChecksPassed, HoldsOldRow, IInv, HistoryCovers
    <3>2. HoldsOldRow(r)' /\ ChecksPassed(r)' /\ pc'[r] = "reload"
      BY <1>0, <1>7, <2>1, <2>2, <3>1 DEF Keep, TypeOK
    <3> QED BY <3>2 DEF RequestKnows
  <2> QED BY <1>2, <1>12, <2>2 DEF assertConfirmedSchedule, Require
<1>13. CASE Reload(r)
  <2> DEFINE row == orders[orderId[r]]
  <2>1. HoldsOldRow(r) /\ ChecksPassed(r)
    BY <1>0, <1>13 DEF Reload, RequestKnows
  <2>2. /\ HoldsOldRow(r)' /\ ChecksPassed(r)' /\ pc'[r] = "write"
        /\ StatusIsStored(r) => StatusIsStored(r)'
        /\ TransportIsStored(r) => TransportIsStored(r)'
    BY <1>0, <1>7, <1>13, <2>1 DEF Reload, TypeOK
  <2>3. /\ row.status \in reached[orderId[r]]
        /\ row.transportType \in carried[orderId[r]]
    BY <2>1 DEF HoldsOldRow, IInv, NothingSkipped, TransportOnceAuthorized
  <2>4. patch'[r] = {column \in Columns : Entity(r)[column] # row[column]}
    BY <1>0, <1>13 DEF Reload, TypeOK
  <2>5. "status" \in patch'[r] \/ StatusIsStored(r)
    <3>1. CASE Entity(r).status = row.status
      BY <2>3, <3>1 DEF StatusIsStored
    <3>2. CASE Entity(r)["status"] # row["status"]
      BY <2>4, <3>2 DEF Columns
    <3> QED BY <3>1, <3>2
  <2>6. patch'[r] \subseteq {"transportType", "status"}
    <3>1. Entity(r).customer = row.customer /\ Entity(r).items = row.items
      BY <2>1, EntityFacts DEF HoldsOldRow
    <3>2. "customer" \notin patch'[r] /\ "items" \notin patch'[r]
      BY <2>4, <3>1
    <3> QED BY <2>4, <3>2 DEF Columns
  <2>7. "transportType" \in patch'[r] \/ TransportIsStored(r)
    <3>1. CASE Entity(r).transportType = row.transportType
      BY <2>3, <3>1 DEF TransportIsStored
    <3>2. CASE Entity(r)["transportType"] # row["transportType"]
      BY <2>4, <3>2 DEF Columns
    <3> QED BY <3>1, <3>2
  <2> QED BY <2>2, <2>5, <2>6, <2>7 DEF RequestKnows
<1>14. CASE Emit(r)
  <2>1. /\ pc'[r] = "answer" /\ dto'[r] = dto[r] /\ orderId'[r] = orderId[r]
        /\ loaded'[r] = loaded[r] /\ UNCHANGED orders
    BY <1>0, <1>14 DEF Emit, Keep, TypeOK
  <2>2. \/ /\ dto[r] \in CreateSalesOrderDto
           /\ orderId[r] \in Orders /\ Exists(orderId[r])
        \/ /\ HoldsOldRow(r) /\ ChecksPassed(r)
           /\ StatusIsStored(r) /\ TransportIsStored(r)
    BY <1>0, <1>14 DEF Emit, RequestKnows
  <2> QED BY <1>7, <2>1, <2>2 DEF RequestKnows, Exists
<1> QED
  BY <1>3, <1>4, <1>5, <1>6, <1>8, <1>9, <1>10, <1>11, <1>12, <1>13, <1>14
     DEF Quiet

(***************************************************************************)
(* Only Emit hands the listener something new, and it is the truth.        *)
(***************************************************************************)
LEMMA QuietTruth ==
    ASSUME IInv, TypeOK', NEW r \in Requests, Quiet(r)
    PROVE  EventsTellTheTruth'
<1>1. /\ HistoryGrows /\ UNCHANGED <<store, shared>>
      /\ \A q \in Requests \ {r} : event'[q] = event[q]
  BY QuietFrame, QuietGrows DEF IInv
<1>2. ASSUME event'[r] \in {event[r], Null} PROVE EventsTellTheTruth'
  BY <1>1, <1>2, EventsStay DEF IInv
<1>3. CASE Emit(r)
  <2> DEFINE e == Payload(r)
  <2>1. event' = [event EXCEPT ![r] = e]
    BY <1>3 DEF Emit
  <2>2. Truthful(e)
    <3>1. CASE dto[r] \in CreateSalesOrderDto /\ Exists(orderId[r])
      BY <3>1 DEF Truthful, Payload, CreateSalesOrderDto
    <3>2. CASE /\ HoldsOldRow(r) /\ ChecksPassed(r)
               /\ StatusIsStored(r) /\ TransportIsStored(r)
      <4>1. CASE dto[r] \in UpdateStatusDto
        <5>1. canTransition(loaded[r].status, dto[r].status)
          BY <3>2, <4>1 DEF ChecksPassed, UpdateStatusDto, ChangeTransportDto
        <5>2. Follows(loaded[r].status, dto[r].status)
          BY <3>2, <5>1, TransitionFollows DEF HoldsOldRow, SalesOrder
        <5> QED
          BY <3>2, <4>1, <5>2 DEF Truthful, Payload, UpdateStatusDto,
             HoldsOldRow, StatusIsStored, Entity, SalesOrder, Follows
      <4>2. CASE dto[r] \in ChangeTransportDto
        BY <3>2, <4>2 DEF Truthful, Payload, ChangeTransportDto, HoldsOldRow,
           TransportIsStored, Entity, SalesOrder
      <4> QED BY <3>2, <4>1, <4>2 DEF ChecksPassed
    <3> QED BY <1>3, <3>1, <3>2 DEF Emit, IInv, RequestKnows
  <2> QED
    BY <1>1, <2>1, <2>2 DEF EventsTellTheTruth, Truthful, IInv, TypeOK, store,
       shared, Exists
<1>4. CASE ~Emit(r)
  <2>1. event'[r] \in {event[r], Null}
    BY <1>4 DEF Quiet, Receive, Create, UpdateStatus, ChangeTransport, Call,
       HandleAudit, Fail, Reject, FindCustomer, FindTransport, CheckAuthorized,
       FindItems, Require, LoadForStatus, assertConfirmedSchedule,
       LoadForTransport, Load, Reload, Answer, IInv, TypeOK
  <2> QED BY <1>2, <2>1
<1> QED BY <1>3, <1>4

-----------------------------------------------------------------------------
(***************************************************************************)
(* The two steps that write the table.                                     *)
(***************************************************************************)
LEMMA InsertStep ==
    ASSUME IInv, TypeOK', NEW r \in Requests, InsertOrder(r)
    PROVE  IInv'
<1> USE DEF shared
<1>1. TypeOK /\ dto[r] \in CreateSalesOrderDto
      /\ Granted(dto[r].customer, dto[r].transportType)
  BY DEF IInv, InsertOrder, RequestKnows
<1>2. PICK o \in FreeIds :
        /\ orders' = [orders EXCEPT ![o] = NewOrder(dto[r])]
        /\ reached' = [reached EXCEPT ![o] = {"CRIADA"}]
        /\ carried' = [carried EXCEPT ![o] = {dto[r].transportType}]
        /\ orderId' = [orderId EXCEPT ![r] = o]
  BY DEF InsertOrder
<1>3. o \in Orders /\ orders[o] = Null /\ reached[o] = {} /\ carried[o] = {}
  BY <1>2 DEF FreeIds, IInv, NothingSkipped, TransportOnceAuthorized, Exists
<1>4. NewOrder(dto[r]) \in SalesOrder
  BY <1>1 DEF NewOrder, SalesOrder, CreateSalesOrderDto, SalesOrderStatus
<1>5. /\ orders'[o] = NewOrder(dto[r]) /\ orders'[o] # Null
      /\ reached'[o] = {"CRIADA"} /\ carried'[o] = {dto[r].transportType}
      /\ \A p \in Orders \ {o} : /\ orders'[p] = orders[p]
                                /\ reached'[p] = reached[p]
                                /\ carried'[p] = carried[p]
  BY <1>1, <1>2, <1>3, <1>4, NullFacts DEF TypeOK
<1>6. HistoryGrows
  BY <1>3, <1>5 DEF HistoryGrows, InsertOrder
<1>7. NothingSkipped'
  <2>1. FlowClosed(reached'[o])
    BY <1>5, FlowStarts
  <2> QED BY <1>3, <1>5, <2>1 DEF NothingSkipped, NewOrder, Exists, IInv,
            FlowClosed
<1>8. ScheduledOnceConfirmed'
  BY <1>5 DEF ScheduledOnceConfirmed, InsertOrder, IInv
<1>9. TransportOnceAuthorized'
  <2>1. /\ orders'[o].customer = dto[r].customer
        /\ orders'[o].transportType = dto[r].transportType
    BY <1>5 DEF NewOrder
  <2>2. everAuthorized' = everAuthorized
    BY DEF InsertOrder
  <2> QED
    BY <1>1, <1>5, <2>1, <2>2 DEF TransportOnceAuthorized, Exists, Granted, IInv
<1>10. HistoryCovers'
  BY DEF HistoryCovers, InsertOrder, IInv
<1>11. EventsTellTheTruth'
  BY <1>6, EventsStay DEF InsertOrder, IInv
<1>12. ASSUME NEW q \in Requests PROVE RequestKnows(q)'
  <2>1. CASE q = r
    <3>1. pc'[r] = "emit" /\ dto'[r] = dto[r] /\ orderId'[r] = o
      BY <1>1, <1>2 DEF InsertOrder, Goto, TypeOK
    <3> QED BY <1>1, <1>3, <1>5, <2>1, <3>1 DEF RequestKnows, Exists
  <2>2. CASE q # r
    <3>1. SameSlot(q)
      BY <1>1, <1>2, <2>2 DEF SameSlot, InsertOrder, Goto, TypeOK
    <3> QED BY <1>6, <3>1, KnowledgeStays DEF IInv
  <2> QED BY <2>1, <2>2
<1> QED BY <1>7, <1>8, <1>9, <1>10, <1>11, <1>12 DEF IInv

LEMMA WriteStep ==
    ASSUME IInv, TypeOK', NEW r \in Requests, Write(r)
    PROVE  IInv'
<1> DEFINE o == orderId[r]
           row == orders'[o]
<1>1. TypeOK /\ RequestKnows(r)
  BY DEF IInv
<1>2. /\ HoldsOldRow(r) /\ ChecksPassed(r) /\ o \in Orders
      /\ orders[o] \in SalesOrder /\ row \in SalesOrder
      /\ orders' = [orders EXCEPT ![o] = row]
      /\ reached' = [reached EXCEPT ![o] = @ \cup {row.status}]
      /\ carried' = [carried EXCEPT ![o] = @ \cup {row.transportType}]
      /\ row.customer = orders[o].customer /\ row.items = orders[o].items
      /\ row.status \in {orders[o].status, Entity(r).status}
      /\ "status" \in patch[r] => row.status = Entity(r).status
      /\ row.transportType \in {orders[o].transportType, Entity(r).transportType}
      /\ "transportType" \in patch[r] =>
           row.transportType = Entity(r).transportType
  BY <1>1, WriteFacts
<1>3. /\ Entity(r).customer = loaded[r].customer
      /\ \/ Entity(r).status = loaded[r].status
         \/ /\ canTransition(loaded[r].status, Entity(r).status)
            /\ Entity(r).status = "AGENDADA" => o \in everConfirmed
      /\ Granted(loaded[r].customer, Entity(r).transportType)
  BY <1>2, EntityFacts, EntityGranted DEF IInv
<1>4. /\ orders[o] # Null /\ row # Null
      /\ loaded[r].status \in reached[o]
      /\ loaded[r].customer = orders[o].customer
      /\ orders[o].status \in reached[o] /\ FlowClosed(reached[o])
      /\ carried[o] \subseteq everAuthorized[orders[o].customer]
      /\ orders[o].transportType \in carried[o]
  BY <1>2, NullFacts DEF HoldsOldRow, IInv, NothingSkipped,
     TransportOnceAuthorized, Exists
<1>5. /\ reached'[o] = reached[o] \cup {row.status}
      /\ carried'[o] = carried[o] \cup {row.transportType}
      /\ \A p \in Orders \ {o} : /\ orders'[p] = orders[p]
                                /\ reached'[p] = reached[p]
                                /\ carried'[p] = carried[p]
  BY <1>1, <1>2 DEF TypeOK
<1>6. UNCHANGED shared
  BY DEF Write
<1>7. HistoryGrows
  BY <1>2, <1>4, <1>5, <1>6 DEF HistoryGrows, shared
<1>8. FlowClosed(reached'[o])
  <2>1. CASE row.status \in reached[o]
    BY <1>4, <1>5, <2>1, reached'[o] = reached[o]
  <2>2. CASE canTransition(loaded[r].status, row.status)
    BY <1>1, <1>2, <1>4, <1>5, <2>2, FlowGrows DEF TypeOK
  <2> QED BY <1>2, <1>3, <1>4, <2>1, <2>2
<1>9. NothingSkipped'
  <2>1. row.status \in reached'[o] /\ row # Null
    BY <1>4, <1>5
  <2> HIDE DEF row
  <2>2. row = orders'[o]
    BY DEF row
  <2> QED BY <1>5, <1>8, <2>1, <2>2 DEF NothingSkipped, Exists, IInv, FlowClosed
<1>10. ScheduledOnceConfirmed'
  BY <1>2, <1>3, <1>4, <1>5, <1>6 DEF ScheduledOnceConfirmed, IInv, shared
<1>11. TransportOnceAuthorized'
  BY <1>2, <1>3, <1>4, <1>5, <1>6 DEF TransportOnceAuthorized, Granted, Exists,
     IInv, shared
<1>12. HistoryCovers'
  BY <1>6 DEF HistoryCovers, IInv, shared
<1>13. EventsTellTheTruth'
  BY <1>7, EventsStay DEF Write, IInv
<1>14. ASSUME NEW q \in Requests PROVE RequestKnows(q)'
  <2>1. CASE q = r
    <3>1. /\ pc'[r] = "emit" /\ dto'[r] = dto[r] /\ orderId'[r] = o
          /\ loaded'[r] = loaded[r]
      BY <1>1 DEF Write, Goto, TypeOK
    <3>2. HoldsOldRow(r)' /\ ChecksPassed(r)'
      BY <1>2, <1>7, <3>1, CopyStays
    <3>3. StatusIsStored(r)'
      <4>1. Entity(r).status \in reached'[o]
        BY <1>1, <1>2, <1>5 DEF RequestKnows, StatusIsStored, Write
      <4>2. Entity(r)' = Entity(r)
        BY <3>1 DEF Entity
      <4> QED BY <3>1, <4>1, <4>2 DEF StatusIsStored
    <3>4. TransportIsStored(r)'
      <4>1. Entity(r).transportType \in carried'[o]
        BY <1>1, <1>2, <1>5 DEF RequestKnows, TransportIsStored, Write
      <4>2. Entity(r)' = Entity(r)
        BY <3>1 DEF Entity
      <4> QED BY <3>1, <4>1, <4>2 DEF TransportIsStored
    <3> QED BY <2>1, <3>1, <3>2, <3>3, <3>4 DEF RequestKnows
  <2>2. CASE q # r
    <3>1. SameSlot(q)
      BY <1>1, <2>2 DEF SameSlot, Write, Goto, TypeOK
    <3> QED BY <1>7, <3>1, KnowledgeStays DEF IInv
  <2> QED BY <2>1, <2>2
<1> QED BY <1>9, <1>10, <1>11, <1>12, <1>13, <1>14 DEF IInv

-----------------------------------------------------------------------------
(***************************************************************************)
(* Steps that leave the orders alone: the quiet ones, those of the other   *)
(* services, a crash.                                                      *)
(***************************************************************************)
LEMMA OrdersAloneStep ==
    ASSUME IInv, TypeOK', HistoryGrows, UNCHANGED store, HistoryCovers',
           EventsTellTheTruth', \A r \in Requests : RequestKnows(r)'
    PROVE  IInv'
<1>1. NothingSkipped'
  BY DEF NothingSkipped, Exists, store, IInv
<1>2. ScheduledOnceConfirmed'
  BY DEF ScheduledOnceConfirmed, HistoryGrows, store, IInv
<1>3. TransportOnceAuthorized'
  BY DEF TransportOnceAuthorized, HistoryGrows, Exists, store, IInv, TypeOK,
     SalesOrder
<1> QED BY <1>1, <1>2, <1>3 DEF IInv

LEMMA QuietStep ==
    ASSUME IInv, TypeOK', NEW r \in Requests, Quiet(r)
    PROVE  IInv'
<1>1. /\ TypeOK /\ HistoryGrows /\ UNCHANGED store /\ UNCHANGED shared
      /\ \A q \in Requests \ {r} : SameSlot(q)
  BY QuietFrame, QuietGrows DEF IInv
<1>2. HistoryCovers'
  BY <1>1 DEF HistoryCovers, shared, IInv
<1>3. \A q \in Requests : RequestKnows(q)'
  BY <1>1, KnowledgeStays, QuietLearns DEF IInv
<1> QED BY <1>1, <1>2, <1>3, QuietTruth, OrdersAloneStep

LEMMA OtherServicesStep ==
    ASSUME IInv, TypeOK', OtherServices
    PROVE  IInv'
<1> USE DEF Elsewhere
<1>1. ASSUME UNCHANGED <<slots, store>>, HistoryCovers',
             everConfirmed \subseteq everConfirmed',
             \A c \in Customers : everAuthorized[c] \subseteq everAuthorized'[c]
      PROVE  IInv'
  <2>1. HistoryGrows
    BY <1>1 DEF HistoryGrows, store
  <2>2. EventsTellTheTruth'
    BY <1>1, <2>1, EventsStay DEF slots, IInv
  <2>3. \A r \in Requests : RequestKnows(r)'
    BY <1>1, <2>1, KnowledgeStays DEF SameSlot, slots, IInv
  <2> QED BY <1>1, <2>1, <2>2, <2>3, OrdersAloneStep
<1>2. ASSUME NEW o \in Orders, DefineSchedule(o) \/ ConfirmSchedule(o)
      PROVE  IInv'
  <2>1. HistoryCovers'
    BY <1>2 DEF DefineSchedule, ConfirmSchedule, Table!Define, Table!Confirm,
                HistoryCovers, IInv, TypeOK
  <2> QED BY <1>1, <1>2, <2>1 DEF DefineSchedule, ConfirmSchedule
<1>3. ASSUME NEW c \in Customers, NEW S \in SUBSET TransportTypes,
             Authorize(c, S), Grants!Grant(c, S)
      PROVE  IInv'
  <2>1. \A d \in Customers : everAuthorized[d] \subseteq everAuthorized'[d]
    BY <1>3 DEF Authorize, IInv, TypeOK
  <2>2. HistoryCovers'
    BY <1>3 DEF Authorize, Grants!Grant, HistoryCovers, IInv, TypeOK
  <2> QED BY <1>1, <1>3, <2>1, <2>2 DEF Authorize
<1>4. ASSUME NEW id \in TransportTypes \cup Items, Register(id) PROVE IInv'
  BY <1>1, <1>4 DEF Register, HistoryCovers, IInv
<1> QED
  BY <1>2, <1>3, <1>4 DEF OtherServices, CreateCustomer, SetAuthorizedTransports,
     Grants!Create, Grants!Replace

LEMMA CrashStep == ASSUME IInv, TypeOK', Crash PROVE IInv'
<1>1. UNCHANGED store /\ UNCHANGED shared
  BY DEF Crash
<1>2. HistoryGrows
  BY <1>1, QuietGrows
<1>3. HistoryCovers'
  BY <1>1 DEF HistoryCovers, shared, IInv
<1>4. EventsTellTheTruth'
  BY DEF Crash, EventsTellTheTruth
<1>5. \A r \in Requests : RequestKnows(r)'
  BY DEF Crash, RequestKnows
<1> QED BY <1>1, <1>2, <1>3, <1>4, <1>5, OrdersAloneStep

-----------------------------------------------------------------------------
(***************************************************************************)
(* IInv is inductive.                                                      *)
(***************************************************************************)
LEMMA InvInit == Init => IInv
<1> SUFFICES ASSUME Init PROVE IInv
  OBVIOUS
<1>1. TypeOK
  BY TypeInit
<1>2. NothingSkipped /\ ScheduledOnceConfirmed /\ TransportOnceAuthorized
  BY DEF Init, NothingSkipped, ScheduledOnceConfirmed, TransportOnceAuthorized,
     Exists
<1>3. HistoryCovers /\ EventsTellTheTruth
  BY DEF Init, HistoryCovers, EventsTellTheTruth
<1>4. \A r \in Requests : RequestKnows(r)
  BY DEF Init, RequestKnows
<1> QED BY <1>1, <1>2, <1>3, <1>4 DEF IInv

LEMMA InvStep == IInv /\ [Next]_vars => IInv'
<1> SUFFICES ASSUME IInv, [Next]_vars PROVE IInv'
  OBVIOUS
<1>1. TypeOK'
  BY TypeStep
<1>2. ASSUME NEW r \in Requests,
             Receive(r) \/ Step(r) \/ HandleAudit(r) \/ Fail(r)
      PROVE  IInv'
  <2>1. Quiet(r) \/ InsertOrder(r) \/ Write(r)
    BY <1>2 DEF Quiet, Step
  <2> QED BY <1>1, <2>1, QuietStep, InsertStep, WriteStep
<1>3. CASE Crash
  BY <1>1, <1>3, CrashStep
<1>4. CASE OtherServices
  BY <1>1, <1>4, OtherServicesStep
<1>5. CASE UNCHANGED vars
  <2>1. UNCHANGED store /\ UNCHANGED shared /\ UNCHANGED slots
    BY <1>5 DEF vars, tables, history, slots, store, shared
  <2>2. HistoryGrows
    BY <2>1, QuietGrows
  <2>3. HistoryCovers' /\ EventsTellTheTruth'
    BY <2>1, <2>2, EventsStay DEF HistoryCovers, shared, slots, IInv
  <2>4. \A r \in Requests : RequestKnows(r)'
    BY <2>1, <2>2, KnowledgeStays DEF SameSlot, slots, IInv
  <2> QED BY <1>1, <2>1, <2>2, <2>3, <2>4, OrdersAloneStep
<1> QED BY <1>2, <1>3, <1>4, <1>5 DEF Next

(***************************************************************************)
(* The inductive invariant holds in every behaviour of the handlers, for   *)
(* any number of concurrent requests.                                      *)
(***************************************************************************)
THEOREM Invariance == Spec => []IInv
BY InvInit, InvStep, PTL DEF Spec

(***************************************************************************)
(* The variables keep their types: no handler stores a row with a missing  *)
(* or foreign value.                                                       *)
(***************************************************************************)
THEOREM TypeCorrect == Spec => []TypeOK
<1>1. IInv => TypeOK BY DEF IInv
<1> QED BY <1>1, Invariance, PTL

(***************************************************************************)
(* However stale the rows that updateStatus and changeTransport check and  *)
(* write back, no order is ever in a status without having been in the one *)
(* before it.                                                              *)
(***************************************************************************)
THEOREM NoSkipping == Spec => []NothingSkipped
<1>1. IInv => NothingSkipped BY DEF IInv
<1> QED BY <1>1, Invariance, PTL

(***************************************************************************)
(* An order that shows ENTREGUE has been in each of the five statuses.     *)
(***************************************************************************)
THEOREM DeliveredWentThroughAll ==
    Spec => [](\A o \in Orders :
                  Exists(o) /\ orders[o].status = "ENTREGUE"
                     => reached[o] = SalesOrderStatus)
<1>1. IInv => \A o \in Orders :
                  Exists(o) /\ orders[o].status = "ENTREGUE"
                     => reached[o] = SalesOrderStatus
  BY ClosedAtTheEnd DEF IInv, TypeOK, NothingSkipped
<1> QED BY <1>1, Invariance, PTL

(***************************************************************************)
(* No order gets to AGENDADA whose schedule was never CONFIRMED.           *)
(***************************************************************************)
THEOREM SchedulingRequired == Spec => []ScheduledOnceConfirmed
<1>1. IInv => ScheduledOnceConfirmed BY DEF IInv
<1> QED BY <1>1, Invariance, PTL

(***************************************************************************)
(* No order ever had a transport that its customer was never granted.      *)
(***************************************************************************)
THEOREM AuthorizationRequired == Spec => []TransportOnceAuthorized
<1>1. IInv => TransportOnceAuthorized BY DEF IInv
<1> QED BY <1>1, Invariance, PTL

(***************************************************************************)
(* The audit listener is never handed a transition that did not happen, or *)
(* a transport the order never had.                                        *)
(***************************************************************************)
THEOREM TruthfulAudit == Spec => []EventsTellTheTruth
<1>1. IInv => EventsTellTheTruth BY DEF IInv
<1> QED BY <1>1, Invariance, PTL

(***************************************************************************)
(* A change of status or of transport that reaches its response has taken  *)
(* effect.                                                                 *)
(***************************************************************************)
THEOREM AnswersAreTrue == Spec => []AnsweredIsDone
<1>1. IInv => AnsweredIsDone
  <2> SUFFICES ASSUME IInv, NEW r \in Requests, pc[r] = "answer"
               PROVE  /\ Exists(orderId[r])
                      /\ dto[r].kind = "updateStatus"
                           => dto[r].status \in reached[orderId[r]]
                      /\ dto[r].kind = "changeTransport"
                           => dto[r].transportType \in carried[orderId[r]]
    BY DEF AnsweredIsDone
  <2>1. CASE dto[r] \in CreateSalesOrderDto /\ Exists(orderId[r])
    BY <2>1 DEF CreateSalesOrderDto
  <2>2. CASE /\ HoldsOldRow(r) /\ ChecksPassed(r)
             /\ StatusIsStored(r) /\ TransportIsStored(r)
    BY <2>2 DEF HoldsOldRow, ChecksPassed, StatusIsStored, TransportIsStored,
       Entity, SalesOrder, UpdateStatusDto, ChangeTransportDto
  <2> QED BY <2>1, <2>2 DEF IInv, RequestKnows
<1> QED BY <1>1, Invariance, PTL

-----------------------------------------------------------------------------
(***************************************************************************)
(* Only two steps change the orders, and this is how.                      *)
(***************************************************************************)
LEMMA WhoWrites ==
    ASSUME IInv, [Next]_vars
    PROVE  \/ UNCHANGED store
           \/ \E r \in Requests : InsertOrder(r)
           \/ \E r \in Requests : Write(r)
<1>1. ASSUME NEW r \in Requests, Quiet(r) PROVE UNCHANGED store
  BY <1>1, QuietFrame DEF IInv
<1>2. CASE OtherServices
  BY <1>2 DEF OtherServices, DefineSchedule, ConfirmSchedule, CreateCustomer,
     SetAuthorizedTransports, Authorize, Register, Elsewhere
<1>3. CASE Crash
  BY <1>3 DEF Crash
<1>4. CASE UNCHANGED vars
  BY <1>4 DEF vars, tables, history, store
<1> QED BY <1>1, <1>2, <1>3, <1>4 DEF Next, Step, Quiet

LEMMA InsertEffect ==
    ASSUME IInv, NEW r \in Requests, InsertOrder(r)
    PROVE  \E o \in Orders :
             /\ orders[o] = Null /\ reached[o] = {}
             /\ orders' = [orders EXCEPT ![o] = NewOrder(dto[r])]
             /\ reached' = [reached EXCEPT ![o] = {"CRIADA"}]
             /\ NewOrder(dto[r]) # Null
<1>1. PICK o \in FreeIds :
        /\ orders' = [orders EXCEPT ![o] = NewOrder(dto[r])]
        /\ reached' = [reached EXCEPT ![o] = {"CRIADA"}]
  BY DEF InsertOrder
<1>2. dto[r] \in CreateSalesOrderDto
  BY DEF InsertOrder, IInv, RequestKnows
<1>3. NewOrder(dto[r]) \in SalesOrder
  BY <1>2 DEF NewOrder, SalesOrder, CreateSalesOrderDto, SalesOrderStatus
<1> QED BY <1>1, <1>3, NullFacts DEF FreeIds, IInv, NothingSkipped, Exists

LEMMA WriteEffect ==
    ASSUME IInv, NEW r \in Requests, Write(r)
    PROVE  LET o == orderId[r]
               row == orders'[o] IN
           /\ o \in Orders /\ orders[o] # Null /\ row # Null
           /\ orders' = [orders EXCEPT ![o] = row]
           /\ reached' = [reached EXCEPT ![o] = @ \cup {row.status}]
           /\ row.customer = orders[o].customer /\ row.items = orders[o].items
           /\ loaded[r] # Null /\ loaded[r].status \in reached[o]
           /\ \/ row.status = orders[o].status
              \/ row.status = loaded[r].status
              \/ Follows(loaded[r].status, row.status)
<1> DEFINE o == orderId[r]
           row == orders'[o]
<1>1. TypeOK /\ RequestKnows(r)
  BY DEF IInv
<1>2. /\ HoldsOldRow(r) /\ ChecksPassed(r) /\ o \in Orders
      /\ orders' = [orders EXCEPT ![o] = row]
      /\ reached' = [reached EXCEPT ![o] = @ \cup {row.status}]
      /\ row \in SalesOrder
      /\ row.customer = orders[o].customer /\ row.items = orders[o].items
      /\ row.status \in {orders[o].status, Entity(r).status}
  BY <1>1, WriteFacts
<1>3. \/ Entity(r).status = loaded[r].status
      \/ Follows(loaded[r].status, Entity(r).status)
  BY <1>2, EntityFacts, TransitionFollows DEF HoldsOldRow, SalesOrder
<1>4. /\ orders[o] # Null /\ row # Null /\ loaded[r] # Null
      /\ loaded[r].status \in reached[o]
  BY <1>2, NullFacts DEF HoldsOldRow, Exists
<1>5. \/ row.status = orders[o].status
      \/ row.status = loaded[r].status
      \/ Follows(loaded[r].status, row.status)
  BY <1>2, <1>3 DEF Follows
<1> QED BY <1>2, <1>4, <1>5

(***************************************************************************)
(* No step takes an order away or changes its customer or its items.       *)
(***************************************************************************)
THEOREM IdentityKept == Spec => OrdersKeepTheirIdentity
<1> DEFINE Kept == \A o \in Orders : Exists(o) =>
                     /\ orders'[o] # Null
                     /\ orders'[o].customer = orders[o].customer
                     /\ orders'[o].items = orders[o].items
<1>1. IInv /\ [Next]_vars => [Kept]_vars
  <2> SUFFICES ASSUME IInv, [Next]_vars PROVE Kept
    OBVIOUS
  <2>1. CASE UNCHANGED store
    BY <2>1 DEF store, Exists
  <2>2. ASSUME NEW r \in Requests, InsertOrder(r) PROVE Kept
    BY <2>2, InsertEffect DEF Exists, IInv, TypeOK
  <2>3. ASSUME NEW r \in Requests, Write(r) PROVE Kept
    BY <2>3, WriteEffect DEF Exists, IInv, TypeOK
  <2> QED BY <2>1, <2>2, <2>3, WhoWrites
<1> QED BY <1>1, Invariance, PTL DEF Spec, OrdersKeepTheirIdentity

(***************************************************************************)
(* The only way for an order to go back is a request that read it in an    *)
(* earlier status and is still to write: without one, every write leaves   *)
(* the status or takes it one step on.                                     *)
(***************************************************************************)
THEOREM StaleCopiesAreTheCause == Spec => OnlyStaleCopiesGoBack
<1> DEFINE Forward ==
      \A o \in Orders :
          /\ Exists(o)
          /\ \A r \in Holders(o) : loaded[r].status = orders[o].status
          => \/ orders'[o].status = orders[o].status
             \/ Follows(orders[o].status, orders'[o].status)
<1>1. IInv /\ [Next]_vars => [Forward]_vars
  <2> SUFFICES ASSUME IInv, [Next]_vars PROVE Forward
    OBVIOUS
  <2>1. CASE UNCHANGED store
    BY <2>1 DEF store
  <2>2. ASSUME NEW r \in Requests, InsertOrder(r) PROVE Forward
    BY <2>2, InsertEffect DEF Exists, IInv, TypeOK
  <2>3. ASSUME NEW r \in Requests, Write(r) PROVE Forward
    <3> DEFINE o == orderId[r]
    <3>1. /\ orders' = [orders EXCEPT ![o] = orders'[o]] /\ loaded[r] # Null
          /\ \/ orders'[o].status = orders[o].status
             \/ orders'[o].status = loaded[r].status
             \/ Follows(loaded[r].status, orders'[o].status)
      BY <2>3, WriteEffect
    <3>2. \A p \in Orders \ {o} : orders'[p] = orders[p]
      BY <3>1 DEF IInv, TypeOK
    <3>3. r \in Holders(o)
      BY <3>1 DEF Holders
    <3> QED BY <3>1, <3>2, <3>3 DEF Follows
  <2> QED BY <2>1, <2>2, <2>3, WhoWrites
<1> QED BY <1>1, Invariance, PTL DEF Spec, OnlyStaleCopiesGoBack

(***************************************************************************)
(* The orders table implements OrderLifecycle: every row written is the    *)
(* placing of an order, an advance from a status it had, or a fall back to *)
(* one.                                                                    *)
(***************************************************************************)
THEOREM Refinement == Spec => ImplementsLifecycle
<1> DEFINE status == [o \in Orders |-> StatusOf(o)]
<1>1. Init => Lifecycle!Init
  BY DEF Init, Lifecycle!Init, StatusOf, Exists
<1>2. IInv /\ [Next]_vars => [Lifecycle!Next]_<<status, reached>>
  <2> SUFFICES ASSUME IInv, [Next]_vars
               PROVE  Lifecycle!Next \/ UNCHANGED <<status, reached>>
    OBVIOUS
  <2>1. CASE UNCHANGED store
    BY <2>1 DEF store, StatusOf, Exists
  <2>2. ASSUME NEW r \in Requests, InsertOrder(r) PROVE Lifecycle!Next
    <3>1. PICK o \in Orders :
             /\ orders[o] = Null /\ reached[o] = {}
             /\ orders' = [orders EXCEPT ![o] = NewOrder(dto[r])]
             /\ reached' = [reached EXCEPT ![o] = {"CRIADA"}]
             /\ NewOrder(dto[r]) # Null
      BY <2>2, InsertEffect
    <3>2. status[o] = "NONE"
      BY <3>1 DEF StatusOf, Exists
    <3>3. status' = [status EXCEPT ![o] = "CRIADA"]
      BY <3>1 DEF StatusOf, Exists, NewOrder, IInv, TypeOK
    <3>4. reached' = [reached EXCEPT ![o] = @ \cup {"CRIADA"}]
      BY <3>1 DEF IInv, TypeOK
    <3> QED BY <3>2, <3>3, <3>4 DEF Lifecycle!Next, Lifecycle!Place, Lifecycle!Enter
  <2>3. ASSUME NEW r \in Requests, Write(r) PROVE Lifecycle!Next
    <3> DEFINE o == orderId[r]
               s == orders'[o].status
    <3>1. /\ o \in Orders /\ orders[o] # Null /\ orders'[o] # Null
          /\ orders' = [orders EXCEPT ![o] = orders'[o]]
          /\ reached' = [reached EXCEPT ![o] = @ \cup {s}]
          /\ loaded[r].status \in reached[o]
          /\ \/ s = orders[o].status
             \/ s = loaded[r].status
             \/ Follows(loaded[r].status, s)
      BY <2>3, WriteEffect
    <3>2. status' = [status EXCEPT ![o] = s]
      BY <3>1 DEF StatusOf, Exists, IInv, TypeOK
    <3>3. s \in Lifecycle!SalesOrderStatus
      BY <3>1, TypeStep DEF TypeOK, SalesOrder, SalesOrderStatus,
         Lifecycle!SalesOrderStatus
    <3>4. orders[o].status \in reached[o]
      BY <3>1 DEF IInv, NothingSkipped, Exists
    <3>5. CASE s \in reached[o]
      BY <3>1, <3>2, <3>5 DEF Lifecycle!Next, Lifecycle!FallBack, Lifecycle!Enter
    <3>6. CASE Follows(loaded[r].status, s)
      <4>1. Lifecycle!Enter(o, s)
        BY <3>1, <3>2 DEF Lifecycle!Enter
      <4>2. Lifecycle!LateAdvance(o)
        BY <3>1, <3>3, <3>6, <4>1 DEF Lifecycle!LateAdvance,
           Lifecycle!Follows, Lifecycle!Position, Follows, Position
      <4> QED BY <3>1, <4>2 DEF Lifecycle!Next
    <3> QED BY <3>1, <3>4, <3>5, <3>6
  <2> QED BY <2>1, <2>2, <2>3, WhoWrites
<1> QED BY <1>1, <1>2, Invariance, PTL DEF Spec, ImplementsLifecycle, Lifecycle!Spec

-----------------------------------------------------------------------------
(***************************************************************************)
(* Where the services meet: the other services move the tables by steps of *)
(* ScheduleTable and TransportGrants, and the handlers here keep to them.  *)
(***************************************************************************)
LEMMA HandlersShareNothing ==
    ASSUME IInv, [Next]_vars
    PROVE  UNCHANGED shared \/ (UNCHANGED store /\ OtherServices)
<1>1. ASSUME NEW r \in Requests, Quiet(r) PROVE UNCHANGED shared
  BY <1>1, QuietFrame DEF IInv
<1>2. ASSUME NEW r \in Requests, InsertOrder(r) \/ Write(r) PROVE UNCHANGED shared
  BY <1>2 DEF InsertOrder, Write
<1>3. CASE OtherServices
  BY <1>3 DEF OtherServices, DefineSchedule, ConfirmSchedule, CreateCustomer,
     SetAuthorizedTransports, Authorize, Register, Elsewhere
<1>4. CASE Crash
  BY <1>4 DEF Crash
<1>5. CASE UNCHANGED vars
  BY <1>5 DEF vars, tables, history, shared
<1> QED BY <1>1, <1>2, <1>3, <1>4, <1>5 DEF Next, Step, Quiet

(***************************************************************************)
(* What the scheduling service relies on: an order, once there, stays, and *)
(* no handler of the sales orders touches a schedule.                      *)
(***************************************************************************)
THEOREM KeepsTheScheduleTable == Spec => Table!Spec
<1> DEFINE placed == {o \in Orders : orders[o] # Null}
<1>1. Init => Table!Init
  BY DEF Init, Table!Init
<1>2. IInv /\ [Next]_vars => [Table!Next]_<<placed, scheduling>>
  <2> SUFFICES ASSUME IInv, [Next]_vars
               PROVE  Table!Next \/ UNCHANGED <<placed, scheduling>>
    OBVIOUS
  <2>1. CASE UNCHANGED store /\ UNCHANGED shared
    BY <2>1 DEF store, shared
  <2>2. CASE UNCHANGED store /\ OtherServices
    <3>1. ASSUME NEW o \in Orders, DefineSchedule(o) \/ ConfirmSchedule(o)
          PROVE  Table!Next
      BY <3>1 DEF DefineSchedule, ConfirmSchedule, Table!Next
    <3>2. ASSUME NEW c \in Customers, CreateCustomer(c) \/ SetAuthorizedTransports(c)
          PROVE  UNCHANGED <<placed, scheduling>>
      BY <2>2, <3>2 DEF CreateCustomer, SetAuthorizedTransports, Authorize, store
    <3>3. ASSUME NEW id, Register(id) PROVE UNCHANGED <<placed, scheduling>>
      BY <2>2, <3>3 DEF Register, store
    <3> QED BY <2>2, <3>1, <3>2, <3>3 DEF OtherServices
  <2>3. ASSUME NEW r \in Requests, InsertOrder(r), UNCHANGED shared
        PROVE  Table!Next
    <3>1. PICK o \in Orders :
             /\ orders' = [orders EXCEPT ![o] = NewOrder(dto[r])]
             /\ NewOrder(dto[r]) # Null
      BY <2>3, InsertEffect
    <3>2. placed' = placed \cup {o}
      BY <3>1 DEF IInv, TypeOK
    <3> QED BY <2>3, <3>2 DEF Table!Next, Table!Place, shared
  <2>4. ASSUME NEW r \in Requests, Write(r), UNCHANGED shared
        PROVE  UNCHANGED <<placed, scheduling>>
    BY <2>4, WriteEffect DEF IInv, TypeOK, shared
  <2> QED BY <2>1, <2>2, <2>3, <2>4, WhoWrites, HandlersShareNothing
<1> QED BY <1>1, <1>2, Invariance, PTL DEF Spec, Table!Spec

(***************************************************************************)
(* What the customers service relies on: nobody else registers a customer  *)
(* or a transport type, or changes a list.  The tables may have rows from  *)
(* the start, which TransportGrants begins without.                        *)
(***************************************************************************)
THEOREM KeepsTheGrants ==
    Spec => [][Grants!Next]_<<registered \cap Customers,
                              registered \cap TransportTypes, authorized>>
<1> DEFINE customers == registered \cap Customers
           transports == registered \cap TransportTypes
<1>1. IInv /\ [Next]_vars => [Grants!Next]_<<customers, transports, authorized>>
  <2> SUFFICES ASSUME IInv, [Next]_vars
               PROVE  Grants!Next \/ UNCHANGED <<customers, transports, authorized>>
    OBVIOUS
  <2>1. CASE UNCHANGED shared
    BY <2>1 DEF shared
  <2>2. ASSUME NEW o \in Orders, DefineSchedule(o) \/ ConfirmSchedule(o)
        PROVE  UNCHANGED <<customers, transports, authorized>>
    BY <2>2 DEF DefineSchedule, ConfirmSchedule
  <2>3. ASSUME NEW c \in Customers, CreateCustomer(c) \/ SetAuthorizedTransports(c)
        PROVE  Grants!Next
    BY <2>3 DEF CreateCustomer, SetAuthorizedTransports, Grants!Next
  <2>4. ASSUME NEW id \in TransportTypes \cup Items, Register(id)
        PROVE  Grants!Next \/ UNCHANGED <<customers, transports, authorized>>
    <3>1. /\ id \notin Customers /\ authorized' = authorized
          /\ registered' = registered \cup {id}
      BY <2>4, IdsAssumption DEF Register
    <3>2. customers' = customers
      BY <3>1
    <3>3. CASE id \in TransportTypes
      <4>1. transports' = transports \cup {id}
        BY <3>1, <3>3
      <4> QED BY <3>1, <3>2, <3>3, <4>1 DEF Grants!Next, Grants!Register
    <3>4. CASE id \notin TransportTypes
      BY <3>1, <3>2, <3>4
    <3> QED BY <3>3, <3>4
  <2> QED BY <2>1, <2>2, <2>3, <2>4, HandlersShareNothing DEF OtherServices
<1> QED BY <1>1, Invariance, PTL DEF Spec

=============================================================================
