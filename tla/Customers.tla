----------------------------- MODULE Customers -----------------------------
(***************************************************************************)
(* CustomersService: create, update (PATCH) and setAuthorizedTransports    *)
(* (PUT), run by concurrent requests over the tables customers and         *)
(* customer_authorized_transport_types.  As in SalesOrders a handler is    *)
(* cut at its awaits.                                                      *)
(*                                                                         *)
(* The list of authorized transports is a many-to-many relation of the     *)
(* entity.  save does not store the list: it reads the row and then the    *)
(* list again, and inserts and deletes the rows of the join table that     *)
(* make the difference.  PATCH has the list in its entity too.  Of the     *)
(* plain columns the model keeps document, the one with a constraint.      *)
(*                                                                         *)
(* The target of the compiler is ES2023, so an instance of a dto class has *)
(* every field of the class, undefined when the body does not name it.     *)
(* Object.assign copies those too, and save passes over them: a PATCH only *)
(* writes the columns it was sent, while PUT saves all that it has loaded. *)
(***************************************************************************)
EXTENDS Naturals, FiniteSets

CONSTANTS
    CustomerIds,      \* the uuids the database gives to customers
    Documents,        \* fiscal documents
    TransportTypes,   \* transport type ids a client may send
    Requests,         \* slots for requests served at one time
    Null              \* no row, no value

Customer ==
    [document : Documents, authorizedTransportTypes : SUBSET TransportTypes]

CreateCustomerDto ==
    [kind : {"create"}, document : Documents,
     transportTypeIds : SUBSET TransportTypes]

\* Null: undefined, the document is not among the fields of the PATCH.
UpdateCustomerDto == [kind : {"update"}, document : Documents \cup {Null}]

SetAuthorizedTransportsDto ==
    [kind : {"setAuthorizedTransports"},
     transportTypeIds : SUBSET TransportTypes]

Dto == CreateCustomerDto \cup UpdateCustomerDto \cup SetAuthorizedTransportsDto

\* What save has decided to do.
Patch ==
    [document : BOOLEAN, add : SUBSET TransportTypes,
     remove : SUBSET TransportTypes]

NoPatch == [document |-> FALSE, add |-> {}, remove |-> {}]

ASSUME NullAssumption ==
    Null \notin Customer \cup Dto \cup CustomerIds \cup Documents

VARIABLES
    customers,        \* both tables: the row of each id with its list
    transportTypes,   \* ids in the table transport_types
    pc,               \* the await each request stands at
    dto,              \* its body
    customerId,       \* its customer
    loaded,           \* the entity its findOne returned
    patch,            \* what save found to differ
    overtaken         \* history: requests whose customer another one saved

slots == <<pc, dto, customerId, loaded, patch>>
vars  == <<customers, transportTypes, slots, overtaken>>

PC == {"idle", "findOne", "assertDocument", "findByIds", "insert", "reload",
       "reloadList", "write", "answer"}

TypeOK ==
    /\ customers \in [CustomerIds -> Customer \cup {Null}]
    /\ transportTypes \subseteq TransportTypes
    /\ pc \in [Requests -> PC]
    /\ dto \in [Requests -> Dto \cup {Null}]
    /\ customerId \in [Requests -> CustomerIds \cup {Null}]
    /\ loaded \in [Requests -> Customer \cup {Null}]
    /\ patch \in [Requests -> Patch]
    /\ overtaken \subseteq Requests

Init ==
    /\ customers = [c \in CustomerIds |-> Null]
    /\ transportTypes = {}
    /\ pc = [r \in Requests |-> "idle"]
    /\ dto = [r \in Requests |-> Null]
    /\ customerId = [r \in Requests |-> Null]
    /\ loaded = [r \in Requests |-> Null]
    /\ patch = [r \in Requests |-> NoPatch]
    /\ overtaken = {}

-----------------------------------------------------------------------------
(* Moving a request.                                                       *)

tables == <<customers, transportTypes, overtaken>>

Goto(r, label) == pc' = [pc EXCEPT ![r] = label]

\* The handler returns or throws.
Release(r) ==
    /\ Goto(r, "idle")
    /\ dto' = [dto EXCEPT ![r] = Null]
    /\ customerId' = [customerId EXCEPT ![r] = Null]
    /\ loaded' = [loaded EXCEPT ![r] = Null]
    /\ patch' = [patch EXCEPT ![r] = NoPatch]
    /\ UNCHANGED tables

\* A check: the exception ends the request, else it goes on.
Require(r, holds, label) ==
    IF holds
      THEN Goto(r, label) /\ UNCHANGED <<tables, dto, customerId, loaded, patch>>
      ELSE Release(r)

Call(r, label, body, c) ==
    /\ pc[r] = "idle"
    /\ Goto(r, label)
    /\ dto' = [dto EXCEPT ![r] = body]
    /\ customerId' = [customerId EXCEPT ![r] = c]
    /\ overtaken' = overtaken \ {r}
    /\ UNCHANGED <<customers, transportTypes, loaded, patch>>

\* Bound: ids are finite here, so creates in flight never outnumber the free.
FreeIds == {c \in CustomerIds : customers[c] = Null}
Creating == {r \in Requests : dto[r] \in CreateCustomerDto /\ customerId[r] = Null}

Create(r) ==
    /\ Cardinality(Creating) < Cardinality(FreeIds)
    /\ \E body \in CreateCustomerDto : Call(r, "assertDocument", body, Null)

Update(r) ==
    \E c \in CustomerIds, body \in UpdateCustomerDto : Call(r, "findOne", body, c)

SetAuthorizedTransports(r) ==
    \E c \in CustomerIds, body \in SetAuthorizedTransportsDto :
        Call(r, "findOne", body, c)

-----------------------------------------------------------------------------
(* The handlers.                                                           *)

Holders(document) ==
    {c \in CustomerIds : customers[c] # Null /\ customers[c].document = document}

NewDocument(r, row) == dto[r].document \notin {Null, row.document}

\* findOne, and where update and setAuthorizedTransports go on from there.
FindOne(r) ==
    /\ pc[r] = "findOne"
    /\ LET row == customers[customerId[r]] IN
       IF row = Null
         THEN Release(r)
         ELSE /\ loaded' = [loaded EXCEPT ![r] = row]
              /\ Goto(r, CASE dto[r].kind = "update" ->
                                IF NewDocument(r, row) THEN "assertDocument"
                                                       ELSE "reload"
                           [] dto[r].kind = "setAuthorizedTransports" ->
                                IF dto[r].transportTypeIds = {} THEN "reload"
                                                                ELSE "findByIds")
              /\ UNCHANGED <<tables, dto, customerId, patch>>

assertDocumentAvailable(r) ==
    /\ pc[r] = "assertDocument"
    /\ Require(r, Holders(dto[r].document) = {},
               IF dto[r].kind = "update" THEN "reload"
               ELSE IF dto[r].transportTypeIds = {} THEN "insert"
               ELSE "findByIds")

\* Mutant: ids that are not found are left in the list.
FindByIds_Any(r) ==
    /\ pc[r] = "findByIds"
    /\ Require(r, TRUE, IF dto[r].kind = "create" THEN "insert" ELSE "reload")

\* TransportTypesService.findByIds: every id must be there.
FindByIds(r) ==
    /\ pc[r] = "findByIds"
    /\ Require(r, dto[r].transportTypeIds \subseteq transportTypes,
               IF dto[r].kind = "create" THEN "insert" ELSE "reload")

\* The document of the entity handed to save, Null when it is undefined.
AssignedDocument(r) ==
    IF dto[r].kind = "setAuthorizedTransports" THEN loaded[r].document
                                               ELSE dto[r].document

\* Mutants: PATCH clears the list; PUT authorizes every transport there is.
AssignedList_Patch(r) ==
    IF dto[r].kind = "update" THEN {} ELSE dto[r].transportTypeIds

AssignedList_All(r) ==
    IF dto[r].kind = "update" THEN loaded[r].authorizedTransportTypes
    ELSE IF dto[r].kind = "create" THEN dto[r].transportTypeIds
    ELSE transportTypes

AssignedList(r) ==
    IF dto[r].kind = "update" THEN loaded[r].authorizedTransportTypes
                              ELSE dto[r].transportTypeIds

\* The entity handed to save.
Entity(r) ==
    [document |-> AssignedDocument(r), authorizedTransportTypes |-> AssignedList(r)]

\* Mutant: the column document without its constraint.
Unique_None(c, document) == TRUE

\* UNIQUE (document), seen by the row of c.
Unique(c, document) == Holders(document) \subseteq {c}

Store(r, c, row) ==
    /\ customers' = [customers EXCEPT ![c] = row]
    /\ overtaken' = overtaken \cup
           {q \in Requests \ {r} : customerId[q] = c /\ loaded[q] # Null}
    /\ UNCHANGED transportTypes

Insert(r) ==
    /\ pc[r] = "insert"
    /\ \E c \in FreeIds :
         IF Unique(c, dto[r].document)
           THEN /\ Store(r, c, Entity(r))
                /\ customerId' = [customerId EXCEPT ![r] = c]
                /\ Goto(r, "answer")
                /\ UNCHANGED <<dto, loaded, patch>>
           ELSE Release(r)

\* Mutant: a field that is undefined is written as well.
Reload_Undefined(r) ==
    /\ pc[r] = "reload"
    /\ patch' = [patch EXCEPT ![r].document =
                     Entity(r).document # customers[customerId[r]].document]
    /\ Goto(r, "reloadList")
    /\ UNCHANGED <<tables, dto, customerId, loaded>>

\* save reads the row again...
Reload(r) ==
    /\ pc[r] = "reload"
    /\ patch' = [patch EXCEPT ![r].document =
           Entity(r).document \notin {Null, customers[customerId[r]].document}]
    /\ Goto(r, "reloadList")
    /\ UNCHANGED <<tables, dto, customerId, loaded>>

\* Mutant: what is on the list and not in the entity is left there.
ReloadList_AddOnly(r) ==
    /\ pc[r] = "reloadList"
    /\ LET list   == customers[customerId[r]].authorizedTransportTypes
           wanted == Entity(r).authorizedTransportTypes IN
       patch' = [patch EXCEPT ![r].add = wanted \ list]
    /\ Goto(r, "write")
    /\ UNCHANGED <<tables, dto, customerId, loaded>>

\* ... then its list, in a query of its own...
ReloadList(r) ==
    /\ pc[r] = "reloadList"
    /\ LET list   == customers[customerId[r]].authorizedTransportTypes
           wanted == Entity(r).authorizedTransportTypes IN
       patch' = [patch EXCEPT ![r].add = wanted \ list,
                              ![r].remove = list \ wanted]
    /\ Goto(r, "write")
    /\ UNCHANGED <<tables, dto, customerId, loaded>>

\* ... and makes the difference in one transaction.  A document that is taken
\* or a row of the join table that is there already rolls it back: a 500.
Write(r) ==
    /\ pc[r] = "write"
    /\ LET c   == customerId[r]
           row == customers[c] IN
       IF /\ patch[r].document => Unique(c, Entity(r).document)
          /\ patch[r].add \cap row.authorizedTransportTypes = {}
         THEN /\ Store(r, c,
                       [document |-> IF patch[r].document THEN Entity(r).document
                                                          ELSE row.document,
                        authorizedTransportTypes |->
                            (row.authorizedTransportTypes \cup patch[r].add)
                                \ patch[r].remove])
              /\ Goto(r, "answer")
              /\ UNCHANGED <<dto, customerId, loaded, patch>>
         ELSE Release(r)

Answer(r) == pc[r] = "answer" /\ Release(r)

\* A database call throws.
Fail(r) == pc[r] # "idle" /\ Release(r)

\* The process dies and starts again.
Crash ==
    /\ pc' = [r \in Requests |-> "idle"]
    /\ dto' = [r \in Requests |-> Null]
    /\ customerId' = [r \in Requests |-> Null]
    /\ loaded' = [r \in Requests |-> Null]
    /\ patch' = [r \in Requests |-> NoPatch]
    /\ UNCHANGED tables

\* TransportTypesService.create.
RegisterTransport(t) ==
    /\ t \notin transportTypes
    /\ transportTypes' = transportTypes \cup {t}
    /\ UNCHANGED <<customers, overtaken, slots>>

-----------------------------------------------------------------------------

Step(r) ==
    \/ FindOne(r) \/ assertDocumentAvailable(r) \/ FindByIds(r) \/ Insert(r)
    \/ Reload(r) \/ ReloadList(r) \/ Write(r) \/ Answer(r)

Receive(r) == Create(r) \/ Update(r) \/ SetAuthorizedTransports(r)

Next ==
    \/ \E r \in Requests : Receive(r) \/ Step(r) \/ Fail(r)
    \/ Crash
    \/ \E t \in TransportTypes : RegisterTransport(t)

Spec == Init /\ [][Next]_vars

-----------------------------------------------------------------------------
(* Properties                                                              *)

Exists(c) == customers[c] # Null

Saves(r) == pc[r] \in {"insert", "write"} /\ pc'[r] = "answer"

(***************************************************************************)
(* A document belongs to one customer, although two requests may both have *)
(* passed assertDocumentAvailable, and a PUT may write an old one back.    *)
(***************************************************************************)
DocumentsUnique ==
    \A c, d \in CustomerIds :
        Exists(c) /\ Exists(d) /\ customers[c].document = customers[d].document
            => c = d

(***************************************************************************)
(* A list only names transport types that exist: what SalesOrders assumes  *)
(* of the customers service.  It holds also of the lists that a PATCH      *)
(* carries along from its own load.                                        *)
(***************************************************************************)
AuthorizedAreRegistered ==
    \A c \in CustomerIds :
        Exists(c) => customers[c].authorizedTransportTypes \subseteq transportTypes

(***************************************************************************)
(* Lost updates need a race.  A request that no other has overtaken leaves *)
(* its customer exactly as it was asked to: PATCH does not touch the list, *)
(* PUT replaces the list and touches nothing else.                         *)
(***************************************************************************)
UndisturbedSavesAreExact ==
    [][\A r \in Requests : Saves(r) /\ r \notin overtaken =>
          LET c   == customerId'[r]
              new == customers'[c] IN
          CASE dto[r].kind = "create" ->
                 /\ new.document = dto[r].document
                 /\ new.authorizedTransportTypes = dto[r].transportTypeIds
            [] dto[r].kind = "update" ->
                 /\ new.document = IF dto[r].document = Null
                                     THEN customers[c].document
                                     ELSE dto[r].document
                 /\ new.authorizedTransportTypes =
                        customers[c].authorizedTransportTypes
            [] dto[r].kind = "setAuthorizedTransports" ->
                 /\ new.document = customers[c].document
                 /\ new.authorizedTransportTypes = dto[r].transportTypeIds]_vars

(***************************************************************************)
(* How a revoked transport comes back.  A transport that gets on a list    *)
(* was asked for by the request that puts it there, or that request is a   *)
(* PATCH that had loaded the list with it and that others have overtaken.  *)
(***************************************************************************)
OnlyStalePatchRevives ==
    [][\A c \in CustomerIds, t \in TransportTypes :
          /\ Exists(c) /\ t \notin customers[c].authorizedTransportTypes
          /\ t \in customers'[c].authorizedTransportTypes
          => \E r \in Requests :
               /\ Saves(r) /\ customerId[r] = c
               /\ \/ /\ dto[r].kind = "setAuthorizedTransports"
                     /\ t \in dto[r].transportTypeIds
                  \/ /\ dto[r].kind = "update" /\ r \in overtaken
                     /\ t \in loaded[r].authorizedTransportTypes]_vars

(***************************************************************************)
(* docs/API.md, "PUT .../transport-types substitui a lista": the list is   *)
(* the one of the request when it has been saved.                          *)
(***************************************************************************)
PutReplacesTheList ==
    [][\A r \in Requests :
          Saves(r) /\ dto[r].kind = "setAuthorizedTransports" =>
             customers'[customerId[r]].authorizedTransportTypes
                 = dto[r].transportTypeIds]_vars

(***************************************************************************)
(* The tables keep to what SalesOrders takes them to do: a customer comes  *)
(* once, with its list, and a list only ever becomes one of transport      *)
(* types that exist, also when the differences of two saves add up.        *)
(***************************************************************************)
ListOf(c) == IF Exists(c) THEN customers[c].authorizedTransportTypes ELSE {}

Grants == INSTANCE TransportGrants WITH
              customers <- {c \in CustomerIds : Exists(c)},
              transports <- transportTypes, lists <- [c \in CustomerIds |-> ListOf(c)]

ImplementsTransportGrants == Grants!Spec

-----------------------------------------------------------------------------
(***************************************************************************)
(* Why they hold: what a request knows at each await.                      *)
(***************************************************************************)

\* The copy in hand, and that it is the present row unless overtaken.
HoldsOldRow(r) ==
    /\ dto[r].kind # "create" /\ customerId[r] \in CustomerIds
    /\ Exists(customerId[r])
    /\ loaded[r] \in Customer
    /\ loaded[r].authorizedTransportTypes \subseteq transportTypes
    /\ r \notin overtaken => loaded[r] = customers[customerId[r]]

\* The transports of the body have been looked up.
BodyKnown(r) ==
    dto[r].kind # "update" => dto[r].transportTypeIds \subseteq transportTypes

DocumentCompared(r) ==
    /\ patch[r].document => Entity(r).document # Null
    /\ r \notin overtaken =>
         patch[r].document =
            (Entity(r).document \notin {Null, customers[customerId[r]].document})

ListCompared(r) ==
    LET list   == customers[customerId[r]].authorizedTransportTypes
        wanted == Entity(r).authorizedTransportTypes IN
    /\ patch[r].add \subseteq wanted
    /\ r \notin overtaken =>
         patch[r].add = wanted \ list /\ patch[r].remove = list \ wanted

RequestKnows(r) ==
    /\ pc[r] # "idle" => dto[r] \in Dto
    /\ pc[r] = "findOne" =>
         dto[r].kind # "create" /\ customerId[r] \in CustomerIds
    /\ pc[r] = "assertDocument" =>
         /\ dto[r].kind # "setAuthorizedTransports"
         /\ dto[r].kind = "update" => HoldsOldRow(r)
    /\ pc[r] = "findByIds" =>
         /\ dto[r].kind # "update"
         /\ dto[r].kind # "create" => HoldsOldRow(r)
    /\ pc[r] = "insert" => dto[r].kind = "create" /\ BodyKnown(r)
    /\ pc[r] \in {"reload", "reloadList", "write"} =>
         HoldsOldRow(r) /\ BodyKnown(r)
    /\ pc[r] \in {"reloadList", "write"} => DocumentCompared(r)
    /\ pc[r] = "write" => ListCompared(r)

IInv ==
    /\ TypeOK
    /\ DocumentsUnique
    /\ AuthorizedAreRegistered
    /\ \A r \in Requests : RequestKnows(r)

=============================================================================
