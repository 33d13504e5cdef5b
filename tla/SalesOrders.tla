---------------------------- MODULE SalesOrders ----------------------------
(***************************************************************************)
(* The write side of the sales orders: the handlers create, updateStatus   *)
(* and changeTransport of SalesOrdersService, run by any number of         *)
(* concurrent requests against one database.                               *)
(*                                                                         *)
(* A handler is cut at its awaits: every action below is the code between  *)
(* two database calls, and any other request, the scheduling service or    *)
(* the customers service may run in between.  No handler opens a           *)
(* transaction around its reads and its write, takes a lock or checks a    *)
(* version.  The tables that other services write are moved by the actions *)
(* under "The other services".                                             *)
(***************************************************************************)
EXTENDS OrderFlow, FiniteSets

CONSTANTS
    Orders,          \* the uuids the database gives to sales orders
    Customers,       \* customer ids a client may send, registered or not
    TransportTypes,  \* transport type ids
    Items,           \* item ids
    Requests,        \* slots for requests the process serves at one time
    Stocked,         \* the ids already registered when the process starts
    Null             \* no row, no value

Ids == Customers \cup TransportTypes \cup Items

Columns == {"customer", "transportType", "items", "status"}

SalesOrder ==
    [customer : Customers, transportType : TransportTypes,
     items : SUBSET Items, status : SalesOrderStatus]

CreateSalesOrderDto ==
    [kind : {"create"}, customer : Customers, transportType : TransportTypes,
     items : SUBSET Items \ {{}}]

UpdateStatusDto == [kind : {"updateStatus"}, status : SalesOrderStatus]

ChangeTransportDto ==
    [kind : {"changeTransport"}, transportType : TransportTypes]

Dto == CreateSalesOrderDto \cup UpdateStatusDto \cup ChangeTransportDto

\* previousState and newState of a payload, for the columns the flow is about.
AuditEventPayload ==
    [action : {"SALES_ORDER_CREATED"}, order : Orders,
     new : {"CRIADA"}]
    \cup
    [action : {"SALES_ORDER_STATUS_CHANGED"}, order : Orders,
     previous : SalesOrderStatus, new : SalesOrderStatus]
    \cup
    [action : {"SALES_ORDER_TRANSPORT_CHANGED"}, order : Orders,
     previous : TransportTypes, new : TransportTypes]

ASSUME StockAssumption == Stocked \subseteq Ids
\* The tables draw their uuids apart: the id of a row of one names none of another.
ASSUME IdsAssumption ==
    /\ Customers \cap TransportTypes = {} /\ Customers \cap Items = {}
    /\ TransportTypes \cap Items = {}
ASSUME NullAssumption  ==
    Null \notin SalesOrder \cup Dto \cup AuditEventPayload \cup Orders

VARIABLES
    orders,          \* table sales_orders with its items
    registered,      \* ids present in customers, transport_types and items
    authorized,      \* table customer_authorized_transport_types
    scheduling,      \* schedules.status of each order, "NONE" without a row
    pc,              \* the await each request stands at
    dto,             \* the body of the request
    orderId,         \* the order it is about
    loaded,          \* the entity its findOne returned
    patch,           \* the columns save found to differ from the stored row
    event,           \* the payload it emitted and the listener still holds
    reached,         \* history: the statuses each order has been in
    carried,         \* history: the transports each order has had
    everConfirmed,   \* history: orders whose schedule was once CONFIRMED
    everAuthorized   \* history: transports each customer was once granted

tables  == <<orders, registered, authorized, scheduling>>
slots   == <<pc, dto, orderId, loaded, patch, event>>
history == <<reached, carried, everConfirmed, everAuthorized>>
vars    == <<tables, slots, history>>

shared  == <<registered, authorized, scheduling, everConfirmed, everAuthorized>>
store   == <<orders, reached, carried>>

PC == {"idle", "findCustomer", "findTransport", "checkAuthorized", "findItems",
       "insert", "updateStatus", "assertSchedule", "changeTransport",
       "reload", "write", "emit", "answer"}

TypeOK ==
    /\ orders \in [Orders -> SalesOrder \cup {Null}]
    /\ registered \subseteq Ids
    /\ authorized \in [Customers -> SUBSET TransportTypes]
    /\ scheduling \in [Orders -> {"NONE", "PENDING", "CONFIRMED"}]
    /\ pc \in [Requests -> PC]
    /\ dto \in [Requests -> Dto \cup {Null}]
    /\ orderId \in [Requests -> Orders \cup {Null}]
    /\ loaded \in [Requests -> SalesOrder \cup {Null}]
    /\ patch \in [Requests -> SUBSET Columns]
    /\ event \in [Requests -> AuditEventPayload \cup {Null}]
    /\ reached \in [Orders -> SUBSET SalesOrderStatus]
    /\ carried \in [Orders -> SUBSET TransportTypes]
    /\ everConfirmed \subseteq Orders
    /\ everAuthorized \in [Customers -> SUBSET TransportTypes]

Init ==
    /\ orders = [o \in Orders |-> Null]
    /\ registered = Stocked
    /\ authorized \in [Customers -> SUBSET (TransportTypes \cap Stocked)]
    /\ \A c \in Customers \ Stocked : authorized[c] = {}
    /\ scheduling = [o \in Orders |-> "NONE"]
    /\ pc = [r \in Requests |-> "idle"]
    /\ dto = [r \in Requests |-> Null]
    /\ orderId = [r \in Requests |-> Null]
    /\ loaded = [r \in Requests |-> Null]
    /\ patch = [r \in Requests |-> {}]
    /\ event = [r \in Requests |-> Null]
    /\ reached = [o \in Orders |-> {}]
    /\ carried = [o \in Orders |-> {}]
    /\ everConfirmed = {}
    /\ everAuthorized = authorized

-----------------------------------------------------------------------------
(* Moving a request.                                                       *)

Goto(r, label) == pc' = [pc EXCEPT ![r] = label]

Keep == UNCHANGED <<dto, orderId, loaded, patch>>

\* The handler returns or throws: its local variables are gone.
Release(r) ==
    /\ Goto(r, "idle")
    /\ dto' = [dto EXCEPT ![r] = Null]
    /\ orderId' = [orderId EXCEPT ![r] = Null]
    /\ loaded' = [loaded EXCEPT ![r] = Null]
    /\ patch' = [patch EXCEPT ![r] = {}]

\* A check of the service: the exception ends the request, else it goes on.
Require(r, holds, label) ==
    /\ IF holds THEN Goto(r, label) /\ Keep ELSE Release(r)
    /\ UNCHANGED <<event, store, shared>>

\* A request comes in for the handler whose first await is at label.
Call(r, label, body, o) ==
    /\ pc[r] = "idle" /\ event[r] = Null
    /\ Goto(r, label)
    /\ dto' = [dto EXCEPT ![r] = body]
    /\ orderId' = [orderId EXCEPT ![r] = o]
    /\ UNCHANGED <<loaded, patch, event, store, shared>>

-----------------------------------------------------------------------------
(* create                                                                  *)

\* Bound: ids are finite here, so creates in flight never outnumber the free.
FreeIds == {o \in Orders : orders[o] = Null}
Creating == {r \in Requests : dto[r] \in CreateSalesOrderDto /\ orderId[r] = Null}

Create(r) ==
    /\ Cardinality(Creating) < Cardinality(FreeIds)
    /\ \E body \in CreateSalesOrderDto : Call(r, "findCustomer", body, Null)

FindCustomer(r) ==
    /\ pc[r] = "findCustomer"
    /\ Require(r, dto[r].customer \in registered, "findTransport")

FindItems(r) ==
    /\ pc[r] = "findItems"
    /\ Require(r, dto[r].items \subseteq registered, "insert")

\* Mutants: the body is stored as it is; an order starts in PLANEJADA.
NewOrder_Body(body) == body

NewOrder_Planned(body) ==
    [customer |-> body.customer, transportType |-> body.transportType,
     items |-> body.items, status |-> "PLANEJADA"]

NewOrder(body) ==
    [customer |-> body.customer, transportType |-> body.transportType,
     items |-> body.items, status |-> "CRIADA"]

InsertOrder(r) ==
    /\ pc[r] = "insert"
    /\ \E o \in FreeIds :
         /\ orders' = [orders EXCEPT ![o] = NewOrder(dto[r])]
         /\ reached' = [reached EXCEPT ![o] = {"CRIADA"}]
         /\ carried' = [carried EXCEPT ![o] = {dto[r].transportType}]
         /\ orderId' = [orderId EXCEPT ![r] = o]
    /\ Goto(r, "emit")
    /\ UNCHANGED <<dto, loaded, patch, event, shared>>

-----------------------------------------------------------------------------
(* Shared by create and changeTransport: transportTypes.findOne and        *)
(* isTransportAuthorized, whose customer cannot be missing since nothing   *)
(* deletes one.                                                            *)

CustomerOf(r) ==
    IF dto[r].kind = "create" THEN dto[r].customer ELSE loaded[r].customer

\* Mutant: create goes on to its items without the authorization check.
FindTransport_CreateUnchecked(r) ==
    /\ pc[r] = "findTransport"
    /\ Require(r, dto[r].transportType \in registered,
               IF dto[r].kind = "create" THEN "findItems" ELSE "checkAuthorized")

FindTransport(r) ==
    /\ pc[r] = "findTransport"
    /\ Require(r, dto[r].transportType \in registered, "checkAuthorized")

\* Mutant: changeTransport does not ask whether the customer may use it.
CheckAuthorized_CreateOnly(r) ==
    /\ pc[r] = "checkAuthorized"
    /\ IF dto[r].kind = "create"
         THEN Require(r, dto[r].transportType \in authorized[CustomerOf(r)],
                      "findItems")
         ELSE Require(r, TRUE, "reload")

CheckAuthorized(r) ==
    /\ pc[r] = "checkAuthorized"
    /\ Require(r, dto[r].transportType \in authorized[CustomerOf(r)],
               IF dto[r].kind = "create" THEN "findItems" ELSE "reload")

-----------------------------------------------------------------------------
(* updateStatus and changeTransport                                        *)

UpdateStatus(r) ==
    \E o \in Orders, body \in UpdateStatusDto : Call(r, "updateStatus", body, o)

ChangeTransport(r) ==
    \E o \in Orders, body \in ChangeTransportDto :
        Call(r, "changeTransport", body, o)

\* findOne(id): the row is kept in the handler, stale from here on.
Load(r, label) ==
    /\ loaded' = [loaded EXCEPT ![r] = orders[orderId[r]]]
    /\ Goto(r, label)
    /\ UNCHANGED <<dto, orderId, patch, event, store, shared>>

Reject(r) == Release(r) /\ UNCHANGED <<event, store, shared>>

LoadForStatus(r) ==
    /\ pc[r] = "updateStatus"
    /\ LET row == orders[orderId[r]] IN
       IF row # Null /\ canTransition(row.status, dto[r].status)
         THEN Load(r, IF dto[r].status = "AGENDADA" THEN "assertSchedule"
                                                    ELSE "reload")
         ELSE Reject(r)

\* Mutant: a schedule that exists is enough.
assertConfirmedSchedule_Exists(r) ==
    /\ pc[r] = "assertSchedule"
    /\ Require(r, scheduling[orderId[r]] # "NONE", "reload")

assertConfirmedSchedule(r) ==
    /\ pc[r] = "assertSchedule"
    /\ Require(r, scheduling[orderId[r]] = "CONFIRMED", "reload")

LoadForTransport(r) ==
    /\ pc[r] = "changeTransport"
    /\ IF orders[orderId[r]] # Null THEN Load(r, "findTransport") ELSE Reject(r)

\* Mutant: what the handler has of the items is not what the row has.
Entity_NoItems(r) ==
    IF dto[r].kind = "updateStatus"
      THEN [loaded[r] EXCEPT !.status = dto[r].status]
      ELSE [loaded[r] EXCEPT !.transportType = dto[r].transportType,
                             !.items = {}]

\* The entity handed to save: the stale row with the requested column set.
Entity(r) ==
    IF dto[r].kind = "updateStatus"
      THEN [loaded[r] EXCEPT !.status = dto[r].status]
      ELSE [loaded[r] EXCEPT !.transportType = dto[r].transportType]

\* Mutant: a save that silently gives up when the row has changed.
Reload_GiveUp(r) ==
    /\ pc[r] = "reload"
    /\ LET row == orders[orderId[r]] IN
       patch' = [patch EXCEPT ![r] = IF row = loaded[r] THEN {"status"} ELSE {}]
    /\ Goto(r, "write")
    /\ UNCHANGED <<dto, orderId, loaded, event, store, shared>>

\* save first reads the row again and keeps the columns that differ from it...
Reload(r) ==
    /\ pc[r] = "reload"
    /\ LET row == orders[orderId[r]] IN
       patch' = [patch EXCEPT ![r] =
           {column \in Columns : Entity(r)[column] # row[column]}]
    /\ Goto(r, "write")
    /\ UNCHANGED <<dto, orderId, loaded, event, store, shared>>

\* ... and then updates those columns, whatever the row has become.
Write(r) ==
    /\ pc[r] = "write"
    /\ LET o == orderId[r]
           Merged(column) ==
               IF column \in patch[r] THEN Entity(r)[column] ELSE orders[o][column]
           row == [customer |-> Merged("customer"),
                   transportType |-> Merged("transportType"),
                   items |-> Merged("items"), status |-> Merged("status")]
       IN /\ orders' = [orders EXCEPT ![o] = row]
          /\ reached' = [reached EXCEPT ![o] = @ \cup {row.status}]
          /\ carried' = [carried EXCEPT ![o] = @ \cup {row.transportType}]
    /\ Goto(r, "emit")
    /\ UNCHANGED <<dto, orderId, loaded, patch, event, shared>>

-----------------------------------------------------------------------------
(* The end of every handler: the audit event, the final findOne, the       *)
(* response.                                                               *)

\* Mutant: previous is read from the entity after it has been changed.
Payload_ReadTooLate(r) ==
    CASE dto[r].kind = "create" ->
           [action |-> "SALES_ORDER_CREATED", order |-> orderId[r],
            new |-> "CRIADA"]
      [] dto[r].kind = "updateStatus" ->
           [action |-> "SALES_ORDER_STATUS_CHANGED", order |-> orderId[r],
            previous |-> Entity(r).status, new |-> dto[r].status]
      [] dto[r].kind = "changeTransport" ->
           [action |-> "SALES_ORDER_TRANSPORT_CHANGED", order |-> orderId[r],
            previous |-> Entity(r).transportType,
            new |-> dto[r].transportType]

Payload(r) ==
    CASE dto[r].kind = "create" ->
           [action |-> "SALES_ORDER_CREATED", order |-> orderId[r],
            new |-> "CRIADA"]
      [] dto[r].kind = "updateStatus" ->
           [action |-> "SALES_ORDER_STATUS_CHANGED", order |-> orderId[r],
            previous |-> loaded[r].status, new |-> dto[r].status]
      [] dto[r].kind = "changeTransport" ->
           [action |-> "SALES_ORDER_TRANSPORT_CHANGED", order |-> orderId[r],
            previous |-> loaded[r].transportType, new |-> dto[r].transportType]

\* emitAsync: the listener is called later, and the handler does not wait.
Emit(r) ==
    /\ pc[r] = "emit"
    /\ event' = [event EXCEPT ![r] = Payload(r)]
    /\ Goto(r, "answer")
    /\ Keep
    /\ UNCHANGED <<store, shared>>

Answer(r) ==
    /\ pc[r] = "answer"
    /\ Release(r)
    /\ UNCHANGED <<event, store, shared>>

\* The listener has stored the payload, or failed and swallowed the error.
HandleAudit(r) ==
    /\ event[r] # Null
    /\ event' = [event EXCEPT ![r] = Null]
    /\ UNCHANGED <<pc, dto, orderId, loaded, patch, store, shared>>

\* A database call throws, at "emit" after a commit that was not acknowledged.
Fail(r) == pc[r] # "idle" /\ Reject(r)

\* The process dies: requests and events in memory are lost, tables stay.
Crash ==
    /\ pc' = [r \in Requests |-> "idle"]
    /\ dto' = [r \in Requests |-> Null]
    /\ orderId' = [r \in Requests |-> Null]
    /\ loaded' = [r \in Requests |-> Null]
    /\ patch' = [r \in Requests |-> {}]
    /\ event' = [r \in Requests |-> Null]
    /\ UNCHANGED <<store, shared>>

-----------------------------------------------------------------------------
(* The other services, one action per effect they have on the tables that  *)
(* the handlers above read, as ScheduleTable and TransportGrants have it.  *)
(* Nothing is ever deleted.                                                *)

Table == INSTANCE ScheduleTable WITH
             placed <- {o \in Orders : orders[o] # Null}, status <- scheduling

Grants == INSTANCE TransportGrants WITH
              CustomerIds <- Customers, customers <- registered \cap Customers,
              transports <- registered \cap TransportTypes, lists <- authorized

Elsewhere == UNCHANGED <<slots, store>>

DefineSchedule(o) ==
    /\ Elsewhere
    /\ Table!Define(o)
    /\ UNCHANGED <<registered, authorized, everConfirmed, everAuthorized>>

ConfirmSchedule(o) ==
    /\ Elsewhere
    /\ Table!Confirm(o)
    /\ everConfirmed' = everConfirmed \cup {o}
    /\ UNCHANGED <<registered, authorized, everAuthorized>>

\* The list of c becomes S, whose members the service has looked up.
Authorize(c, S) ==
    /\ Elsewhere
    /\ everAuthorized' = [everAuthorized EXCEPT ![c] = @ \cup S]
    /\ UNCHANGED <<scheduling, everConfirmed>>

CreateCustomer(c) ==
    /\ registered' = registered \cup {c}
    /\ \E S \in SUBSET TransportTypes : Authorize(c, S) /\ Grants!Create(c, S)

SetAuthorizedTransports(c) ==
    /\ UNCHANGED registered
    /\ \E S \in SUBSET TransportTypes : Authorize(c, S) /\ Grants!Replace(c, S)

Register(id) ==
    /\ id \notin registered
    /\ registered' = registered \cup {id}
    /\ Elsewhere
    /\ UNCHANGED <<authorized, scheduling, everConfirmed, everAuthorized>>

-----------------------------------------------------------------------------

\* The code a request runs from one await to the next.
Step(r) ==
    \/ FindCustomer(r) \/ FindTransport(r) \/ CheckAuthorized(r)
    \/ FindItems(r) \/ InsertOrder(r)
    \/ LoadForStatus(r) \/ assertConfirmedSchedule(r) \/ LoadForTransport(r)
    \/ Reload(r) \/ Write(r) \/ Emit(r) \/ Answer(r)

Receive(r) == Create(r) \/ UpdateStatus(r) \/ ChangeTransport(r)

OtherServices ==
    \/ \E o \in Orders : DefineSchedule(o) \/ ConfirmSchedule(o)
    \/ \E c \in Customers : CreateCustomer(c) \/ SetAuthorizedTransports(c)
    \/ \E id \in TransportTypes \cup Items : Register(id)

Next ==
    \/ \E r \in Requests : Receive(r) \/ Step(r) \/ HandleAudit(r) \/ Fail(r)
    \/ Crash
    \/ OtherServices

Spec == Init /\ [][Next]_vars

-----------------------------------------------------------------------------
(* Properties                                                              *)

Exists(o) == orders[o] # Null

(***************************************************************************)
(* The flow cannot be jumped.  updateStatus checks a row that may be stale *)
(* when it writes, and changeTransport may write an old status back, yet   *)
(* an order never gets into a status without having been in the one before *)
(* it.                                                                     *)
(***************************************************************************)
NothingSkipped ==
    \A o \in Orders :
        IF Exists(o) THEN orders[o].status \in reached[o] /\ FlowClosed(reached[o])
                     ELSE reached[o] = {}

(***************************************************************************)
(* An order that has been in AGENDADA had a confirmed schedule at some     *)
(* time: the check of assertConfirmedSchedule cannot be bypassed, though   *)
(* the schedule may be back in PENDING when the status is written.         *)
(***************************************************************************)
ScheduledOnceConfirmed ==
    \A o \in Orders : "AGENDADA" \in reached[o] => o \in everConfirmed

(***************************************************************************)
(* Every transport an order has had was granted to its customer at some    *)
(* time, also when several changeTransport and updateStatus write the row. *)
(***************************************************************************)
TransportOnceAuthorized ==
    \A o \in Orders :
        IF Exists(o) THEN /\ orders[o].transportType \in carried[o]
                          /\ carried[o] \subseteq everAuthorized[orders[o].customer]
                     ELSE carried[o] = {}

(***************************************************************************)
(* What the listener is given really happened: the order is there, a       *)
(* status event names a legal transition between statuses it has been in,  *)
(* a transport event names transports it has had.                          *)
(***************************************************************************)
EventsTellTheTruth ==
    \A r \in Requests : event[r] # Null =>
        LET e == event[r] IN
        /\ Exists(e.order)
        /\ e.action = "SALES_ORDER_STATUS_CHANGED" =>
             /\ Follows(e.previous, e.new)
             /\ {e.previous, e.new} \subseteq reached[e.order]
        /\ e.action = "SALES_ORDER_TRANSPORT_CHANGED" =>
             {e.previous, e.new} \subseteq carried[e.order]

(***************************************************************************)
(* Lost work: a change of status or of transport that is about to be       *)
(* answered took effect, even when save found nothing to write or another  *)
(* request overtook it.                                                    *)
(***************************************************************************)
AnsweredIsDone ==
    \A r \in Requests : pc[r] = "answer" =>
        /\ Exists(orderId[r])
        /\ dto[r].kind = "updateStatus" => dto[r].status \in reached[orderId[r]]
        /\ dto[r].kind = "changeTransport" =>
             dto[r].transportType \in carried[orderId[r]]

(***************************************************************************)
(* Nobody rewrites what an order is for: once inserted it stays, with its  *)
(* customer and items, whichever handler saves a whole entity over it.     *)
(***************************************************************************)
OrdersKeepTheirIdentity ==
    [][\A o \in Orders : Exists(o) =>
          /\ orders'[o] # Null
          /\ orders'[o].customer = orders[o].customer
          /\ orders'[o].items = orders[o].items]_vars

(***************************************************************************)
(* Who can send an order back: as long as every request that holds a copy  *)
(* of the order read it in its present status, the next write leaves the   *)
(* status or moves it one step on.  In particular ENTREGUE is the end.     *)
(***************************************************************************)
Holders(o) == {r \in Requests : orderId[r] = o /\ loaded[r] # Null}

OnlyStaleCopiesGoBack ==
    [][\A o \in Orders :
          /\ Exists(o)
          /\ \A r \in Holders(o) : loaded[r].status = orders[o].status
          => \/ orders'[o].status = orders[o].status
             \/ Follows(orders[o].status, orders'[o].status)]_vars

(***************************************************************************)
(* The flow of README.md, "apenas transicoes sequenciais": one step at a   *)
(* time.  It holds of one request at a time and fails for two.             *)
(***************************************************************************)
SequentialFlow ==
    [][\A o \in Orders : Exists(o) =>
          \/ orders'[o].status = orders[o].status
          \/ Follows(orders[o].status, orders'[o].status)]_vars

(***************************************************************************)
(* README.md, "AGENDADA exige um agendamento confirmado": when the status  *)
(* becomes AGENDADA the schedule is confirmed.                             *)
(***************************************************************************)
AgendadaNeedsConfirmedSchedule ==
    [][\A o \in Orders :
          /\ orders'[o] # orders[o]
          /\ orders'[o].status = "AGENDADA"
          /\ orders[o].status # "AGENDADA"
          => scheduling[o] = "CONFIRMED"]_vars

(***************************************************************************)
(* customer.entity.ts, "so pode ser criada com um transporte que esteja    *)
(* nesta lista": the transport is on the list when the order is created.   *)
(***************************************************************************)
CreatedWithAuthorizedTransport ==
    [][\A o \in Orders : ~Exists(o) /\ orders'[o] # Null =>
          orders'[o].transportType \in authorized[orders'[o].customer]]_vars

(***************************************************************************)
(* The lifecycle the orders table implements, and the one it implements    *)
(* when requests come one after the other.                                 *)
(***************************************************************************)
StatusOf(o) == IF Exists(o) THEN orders[o].status ELSE "NONE"

Lifecycle == INSTANCE OrderLifecycle WITH
                 status <- [o \in Orders |-> StatusOf(o)]

ImplementsLifecycle == Lifecycle!Spec

ImplementsStrictLifecycle == Lifecycle!StrictSpec

-----------------------------------------------------------------------------
(***************************************************************************)
(* Why the invariants above hold: what a request knows at each await.      *)
(* None of it speaks of the present row, only of facts that stay true      *)
(* while others write: the history of the order, its customer.             *)
(***************************************************************************)

Granted(c, t) == t \in everAuthorized[c]

\* The copy in hand is a row the order once had.
HoldsOldRow(r) ==
    /\ orderId[r] \in Orders /\ Exists(orderId[r])
    /\ loaded[r] \in SalesOrder
    /\ loaded[r].customer = orders[orderId[r]].customer
    /\ loaded[r].items = orders[orderId[r]].items
    /\ loaded[r].status \in reached[orderId[r]]
    /\ loaded[r].transportType \in carried[orderId[r]]

ChecksPassed(r) ==
    \/ /\ dto[r] \in UpdateStatusDto
       /\ canTransition(loaded[r].status, dto[r].status)
       /\ dto[r].status = "AGENDADA" => orderId[r] \in everConfirmed
    \/ /\ dto[r] \in ChangeTransportDto
       /\ Granted(loaded[r].customer, dto[r].transportType)

\* What the request stands for is in the table, or was.
StatusIsStored(r) == Entity(r).status \in reached[orderId[r]]

TransportIsStored(r) == Entity(r).transportType \in carried[orderId[r]]

RequestKnows(r) ==
    /\ pc[r] \in {"findCustomer", "findItems", "insert"} =>
         dto[r] \in CreateSalesOrderDto
    /\ pc[r] \in {"findItems", "insert"} =>
         Granted(dto[r].customer, dto[r].transportType)
    /\ pc[r] \in {"findTransport", "checkAuthorized"} =>
         \/ dto[r] \in CreateSalesOrderDto
         \/ dto[r] \in ChangeTransportDto /\ HoldsOldRow(r)
    /\ pc[r] = "updateStatus" =>
         dto[r] \in UpdateStatusDto /\ orderId[r] \in Orders
    /\ pc[r] = "changeTransport" =>
         dto[r] \in ChangeTransportDto /\ orderId[r] \in Orders
    /\ pc[r] = "assertSchedule" =>
         /\ HoldsOldRow(r)
         /\ dto[r] \in UpdateStatusDto
         /\ canTransition(loaded[r].status, dto[r].status)
    /\ pc[r] \in {"reload", "write"} => HoldsOldRow(r) /\ ChecksPassed(r)
    /\ pc[r] = "write" =>
         /\ patch[r] \subseteq {"transportType", "status"}
         /\ "status" \in patch[r] \/ StatusIsStored(r)
         /\ "transportType" \in patch[r] \/ TransportIsStored(r)
    /\ pc[r] \in {"emit", "answer"} =>
         \/ /\ dto[r] \in CreateSalesOrderDto
            /\ orderId[r] \in Orders /\ Exists(orderId[r])
         \/ /\ HoldsOldRow(r) /\ ChecksPassed(r)
            /\ StatusIsStored(r) /\ TransportIsStored(r)

\* The tables that the checks read agree with their history.
HistoryCovers ==
    /\ \A o \in Orders : scheduling[o] = "CONFIRMED" => o \in everConfirmed
    /\ \A c \in Customers : authorized[c] \subseteq everAuthorized[c]

IInv ==
    /\ TypeOK
    /\ NothingSkipped
    /\ ScheduledOnceConfirmed
    /\ TransportOnceAuthorized
    /\ HistoryCovers
    /\ EventsTellTheTruth
    /\ \A r \in Requests : RequestKnows(r)

=============================================================================
