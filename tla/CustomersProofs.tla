-------------------------- MODULE CustomersProofs --------------------------
(***************************************************************************)
(* Proofs about Customers for any customers, documents, transport types    *)
(* and requests.                                                           *)
(***************************************************************************)
EXTENDS Customers, TLAPS

LEMMA NullFacts ==
    /\ Null \notin Customer /\ Null \notin Dto
    /\ Null \notin CustomerIds /\ Null \notin Documents
BY NullAssumption

\* The three kinds of body and what each carries.
LEMMA Bodies ==
    ASSUME NEW body \in Dto
    PROVE  /\ body.kind \in {"create", "update", "setAuthorizedTransports"}
           /\ body.kind # "update" =>
                body.transportTypeIds \subseteq TransportTypes
           /\ body.kind # "setAuthorizedTransports" =>
                body.document \in Documents \cup {Null}
           /\ body.kind = "create" =>
                body.document \in Documents /\ body \in CreateCustomerDto
           /\ body \in CreateCustomerDto => body.kind = "create"
BY DEF Dto, CreateCustomerDto, UpdateCustomerDto, SetAuthorizedTransportsDto

(***************************************************************************)
(* The entity handed to save is a row, but for the document of a PATCH     *)
(* that names none; its list is that of the body or, for a PATCH, the list *)
(* that was loaded.                                                        *)
(***************************************************************************)
LEMMA EntityFacts ==
    ASSUME NEW r \in Requests, dto[r] \in Dto,
           dto[r].kind # "create" => loaded[r] \in Customer
    PROVE  /\ Entity(r).document # Null => Entity(r) \in Customer
           /\ Entity(r).authorizedTransportTypes \in SUBSET TransportTypes
           /\ dto[r].kind # "update" =>
                Entity(r).authorizedTransportTypes = dto[r].transportTypeIds
           /\ dto[r].kind = "update" =>
                /\ Entity(r).authorizedTransportTypes =
                       loaded[r].authorizedTransportTypes
                /\ Entity(r).document = dto[r].document
           /\ dto[r].kind = "create" =>
                Entity(r) \in Customer /\ Entity(r).document = dto[r].document
           /\ dto[r].kind = "setAuthorizedTransports" =>
                Entity(r).document = loaded[r].document
<1>1. CASE dto[r].kind = "create"
  BY <1>1, Bodies, NullFacts DEF Entity, AssignedDocument, AssignedList, Customer
<1>2. CASE dto[r].kind = "update"
  BY <1>2, Bodies DEF Entity, AssignedDocument, AssignedList, Customer
<1>3. CASE dto[r].kind = "setAuthorizedTransports"
  BY <1>3, Bodies DEF Entity, AssignedDocument, AssignedList, Customer
<1> QED BY <1>1, <1>2, <1>3, Bodies

-----------------------------------------------------------------------------
(***************************************************************************)
(* The row that a successful UPDATE leaves.                                *)
(***************************************************************************)
Merge(row, r) ==
    [document |-> IF patch[r].document THEN Entity(r).document ELSE row.document,
     authorizedTransportTypes |->
         (row.authorizedTransportTypes \cup patch[r].add) \ patch[r].remove]

Succeeds(r) ==
    /\ patch[r].document => Unique(customerId[r], Entity(r).document)
    /\ patch[r].add \cap customers[customerId[r]].authorizedTransportTypes = {}

LEMMA WriteCases ==
    ASSUME NEW r \in Requests, Write(r)
    PROVE  \/ Release(r)
           \/ /\ Succeeds(r)
              /\ Store(r, customerId[r], Merge(customers[customerId[r]], r))
              /\ Goto(r, "answer")
              /\ UNCHANGED <<dto, customerId, loaded, patch>>
BY DEF Write, Merge, Succeeds

LEMMA MergeFacts ==
    ASSUME TypeOK, NEW r \in Requests, RequestKnows(r), pc[r] = "write"
    PROVE  LET row == customers[customerId[r]] IN
           /\ row \in Customer /\ Merge(row, r) \in Customer
           /\ customerId[r] \in CustomerIds
           /\ patch[r].document => Entity(r) \in Customer
           /\ patch[r] \in Patch /\ loaded[r] \in Customer
           /\ dto[r] \in Dto
<1>1. /\ customerId[r] \in CustomerIds /\ loaded[r] \in Customer
      /\ customers[customerId[r]] \in Customer /\ patch[r] \in Patch
      /\ dto[r] \in Dto
  BY DEF TypeOK, RequestKnows, HoldsOldRow, Exists
<1>2. patch[r].document => Entity(r) \in Customer
  BY <1>1, EntityFacts DEF RequestKnows, DocumentCompared
<1> QED BY <1>1, <1>2 DEF Merge, Customer, Patch

-----------------------------------------------------------------------------
LEMMA TypeInit == Init => TypeOK
BY DEF Init, TypeOK, PC, Patch, NoPatch

LEMMA TypeStep == IInv /\ [Next]_vars => TypeOK'
<1> SUFFICES ASSUME TypeOK, \A r \in Requests : RequestKnows(r), [Next]_vars
             PROVE  TypeOK'
  BY DEF IInv
<1> USE DEF TypeOK, tables, Goto, PC
<1>1. ASSUME NEW r \in Requests, Receive(r) PROVE TypeOK'
  BY <1>1 DEF Receive, Create, Update, SetAuthorizedTransports, Call, Dto
<1>2. ASSUME NEW r \in Requests, Release(r) PROVE TypeOK'
  BY <1>2 DEF Release, NoPatch, Patch
<1>3. ASSUME NEW r \in Requests, FindOne(r) PROVE TypeOK'
  <2>1. customerId[r] \in CustomerIds /\ dto[r] \in Dto /\ dto[r].kind # "create"
    BY <1>3 DEF FindOne, RequestKnows
  <2> QED BY <1>2, <1>3, <2>1, Bodies DEF FindOne
<1>4. ASSUME NEW r \in Requests, assertDocumentAvailable(r) \/ FindByIds(r)
      PROVE  TypeOK'
  BY <1>2, <1>4 DEF assertDocumentAvailable, FindByIds, Require
<1>5. ASSUME NEW r \in Requests, NEW c \in CustomerIds, NEW row \in Customer,
             Store(r, c, row), Goto(r, "answer"),
             customerId' \in {customerId, [customerId EXCEPT ![r] = c]},
             UNCHANGED <<dto, loaded, patch>>
      PROVE  TypeOK'
  BY <1>5 DEF Store
<1>6. ASSUME NEW r \in Requests, Insert(r) PROVE TypeOK'
  <2>1. Entity(r) \in Customer
    BY <1>6, EntityFacts DEF Insert, RequestKnows
  <2> QED BY <1>2, <1>5, <1>6, <2>1 DEF Insert, FreeIds
<1>7. ASSUME NEW r \in Requests, Reload(r) PROVE TypeOK'
  BY <1>7 DEF Reload, Patch
<1>8. ASSUME NEW r \in Requests, ReloadList(r) PROVE TypeOK'
  <2> DEFINE list   == customers[customerId[r]].authorizedTransportTypes
             wanted == Entity(r).authorizedTransportTypes
  <2>1. list \subseteq TransportTypes /\ wanted \subseteq TransportTypes
    <3>1. /\ dto[r] \in Dto /\ loaded[r] \in Customer
          /\ customers[customerId[r]] \in Customer
      BY <1>8 DEF ReloadList, RequestKnows, HoldsOldRow, Exists
    <3> QED BY <3>1, EntityFacts DEF Customer
  <2>2. [patch[r] EXCEPT !.add = wanted \ list, !.remove = list \ wanted] \in Patch
    BY <2>1 DEF Patch
  <2>3. patch' = [patch EXCEPT ![r] =
                    [patch[r] EXCEPT !.add = wanted \ list, !.remove = list \ wanted]]
    BY <1>8 DEF ReloadList
  <2> HIDE DEF list, wanted
  <2> QED BY <1>8, <2>2, <2>3 DEF ReloadList
<1>9. ASSUME NEW r \in Requests, Write(r) PROVE TypeOK'
  <2>1. /\ customerId[r] \in CustomerIds
        /\ Merge(customers[customerId[r]], r) \in Customer
    BY <1>9, MergeFacts DEF Write
  <2> QED BY <1>2, <1>5, <1>9, <2>1, WriteCases
<1>10. ASSUME NEW r \in Requests, Answer(r) \/ Fail(r) PROVE TypeOK'
  BY <1>2, <1>10 DEF Answer, Fail
<1>11. CASE Crash
  BY <1>11 DEF Crash, NoPatch, Patch
<1>12. ASSUME NEW t \in TransportTypes, RegisterTransport(t) PROVE TypeOK'
  BY <1>12 DEF RegisterTransport, slots
<1>13. CASE UNCHANGED vars
  BY <1>13 DEF vars, slots
<1> QED
  BY <1>1, <1>3, <1>4, <1>6, <1>7, <1>8, <1>9, <1>10, <1>11, <1>12, <1>13
     DEF Next, Step

-----------------------------------------------------------------------------
(***************************************************************************)
(* What a step may do to what another request relies on.                   *)
(***************************************************************************)
Grows ==
    /\ transportTypes \subseteq transportTypes'
    /\ \A c \in CustomerIds : customers[c] # Null => customers'[c] # Null

SameSlot(r) ==
    /\ pc'[r] = pc[r] /\ dto'[r] = dto[r] /\ customerId'[r] = customerId[r]
    /\ loaded'[r] = loaded[r] /\ patch'[r] = patch[r]

\* Whoever changes the row marks r as overtaken.
MarksOvertaken(r) ==
    loaded[r] # Null /\ r \notin overtaken' =>
        /\ r \notin overtaken
        /\ customers'[customerId[r]] = customers[customerId[r]]

LEMMA KnowledgeStays ==
    ASSUME Grows, NEW r \in Requests, SameSlot(r), MarksOvertaken(r),
           RequestKnows(r)
    PROVE  RequestKnows(r)'
<1> USE DEF SameSlot
<1>1. Entity(r)' = Entity(r)
  BY DEF Entity, AssignedDocument, AssignedList
<1>2. HoldsOldRow(r) => loaded[r] # Null
  BY NullFacts DEF HoldsOldRow
<1>3. HoldsOldRow(r) => HoldsOldRow(r)'
  BY <1>2 DEF HoldsOldRow, Grows, MarksOvertaken, Exists
<1>4. BodyKnown(r) => BodyKnown(r)'
  BY DEF BodyKnown, Grows
<1>5. HoldsOldRow(r) /\ DocumentCompared(r) => DocumentCompared(r)'
  BY <1>1, <1>2 DEF DocumentCompared, MarksOvertaken
<1>6. HoldsOldRow(r) /\ ListCompared(r) => ListCompared(r)'
  BY <1>1, <1>2 DEF ListCompared, MarksOvertaken
<1> QED BY <1>3, <1>4, <1>5, <1>6 DEF RequestKnows

LEMMA TablesStay ==
    ASSUME IInv, transportTypes \subseteq transportTypes', UNCHANGED customers
    PROVE  Grows /\ DocumentsUnique' /\ AuthorizedAreRegistered'
BY DEF IInv, Grows, DocumentsUnique, AuthorizedAreRegistered, Exists

(***************************************************************************)
(* The tables after a save.                                                *)
(***************************************************************************)
LEMMA StoreStep ==
    ASSUME IInv, NEW r \in Requests, NEW c \in CustomerIds, NEW row \in Customer,
           Store(r, c, row), Unique(c, row.document),
           row.authorizedTransportTypes \subseteq transportTypes
    PROVE  /\ Grows /\ DocumentsUnique' /\ AuthorizedAreRegistered'
           /\ \A q \in Requests \ {r} : MarksOvertaken(q)
<1>1. /\ customers'[c] = row /\ row # Null
      /\ \A d \in CustomerIds \ {c} : customers'[d] = customers[d]
      /\ transportTypes' = transportTypes
  BY NullFacts DEF Store, IInv, TypeOK
<1>2. Grows
  BY <1>1 DEF Grows
<1>3. DocumentsUnique'
  <2>1. \A d \in CustomerIds \ {c} :
            customers[d] # Null => customers[d].document # row.document
    BY DEF Unique, Holders
  <2> QED BY <1>1, <2>1 DEF DocumentsUnique, IInv, Exists
<1>4. AuthorizedAreRegistered'
  BY <1>1 DEF AuthorizedAreRegistered, IInv, Exists
<1>5. ASSUME NEW q \in Requests \ {r} PROVE MarksOvertaken(q)
  BY <1>1 DEF MarksOvertaken, Store, IInv, TypeOK
<1> QED BY <1>2, <1>3, <1>4, <1>5

-----------------------------------------------------------------------------
(***************************************************************************)
(* The steps of a request that store nothing.                              *)
(***************************************************************************)
Quiet(r) ==
    \/ Receive(r) \/ Release(r) \/ FindOne(r) \/ assertDocumentAvailable(r)
    \/ FindByIds(r) \/ Reload(r) \/ ReloadList(r)

LEMMA QuietFrame ==
    ASSUME TypeOK, NEW r \in Requests, Quiet(r)
    PROVE  /\ UNCHANGED <<customers, transportTypes>>
           /\ overtaken' \in {overtaken, overtaken \ {r}}
           /\ \A q \in Requests \ {r} : SameSlot(q)
<1> USE DEF TypeOK, SameSlot, tables, Goto
<1>1. CASE Receive(r)
  BY <1>1 DEF Receive, Create, Update, SetAuthorizedTransports, Call
<1>2. CASE Release(r)
  BY <1>2 DEF Release
<1>3. CASE FindOne(r)
  BY <1>2, <1>3 DEF FindOne
<1>4. CASE assertDocumentAvailable(r) \/ FindByIds(r)
  BY <1>2, <1>4 DEF assertDocumentAvailable, FindByIds, Require
<1>5. CASE Reload(r) \/ ReloadList(r)
  BY <1>5 DEF Reload, ReloadList
<1> QED BY <1>1, <1>2, <1>3, <1>4, <1>5 DEF Quiet

LEMMA QuietLearns ==
    ASSUME IInv, TypeOK', NEW r \in Requests, Quiet(r)
    PROVE  RequestKnows(r)'
<1> USE DEF tables, Goto
<1>0. /\ TypeOK /\ RequestKnows(r)
      /\ UNCHANGED <<customers, transportTypes>>
  BY QuietFrame DEF IInv
<1>1. CASE Release(r)
  BY <1>0, <1>1 DEF Release, TypeOK, RequestKnows
<1>2. CASE Receive(r)
  BY <1>0, <1>2 DEF Receive, Create, Update, SetAuthorizedTransports, Call,
     RequestKnows, TypeOK, Dto, CreateCustomerDto, UpdateCustomerDto,
     SetAuthorizedTransportsDto
\* The request goes on with the same body and, once it has one, the same copy.
<1>3. ASSUME UNCHANGED <<tables, dto, customerId, loaded>>
      PROVE  /\ HoldsOldRow(r) => HoldsOldRow(r)'
             /\ BodyKnown(r) => BodyKnown(r)'
             /\ Entity(r)' = Entity(r)
  BY <1>3 DEF HoldsOldRow, BodyKnown, Entity, AssignedDocument, AssignedList,
     Exists
<1>4. CASE FindOne(r) /\ ~Release(r)
  <2> DEFINE row == customers[customerId[r]]
  <2>1. /\ dto[r] \in Dto /\ dto[r].kind # "create"
        /\ customerId[r] \in CustomerIds /\ row # Null
    BY <1>0, <1>4 DEF FindOne, RequestKnows
  <2>2. /\ loaded'[r] = row /\ UNCHANGED <<overtaken, dto, customerId>>
        /\ pc'[r] = CASE dto[r].kind = "update" ->
                           IF NewDocument(r, row) THEN "assertDocument"
                                                  ELSE "reload"
                      [] dto[r].kind = "setAuthorizedTransports" ->
                           IF dto[r].transportTypeIds = {} THEN "reload"
                                                           ELSE "findByIds"
    BY <1>0, <1>4 DEF FindOne, TypeOK
  <2>3. HoldsOldRow(r)'
    <3>1. row \in Customer /\ row.authorizedTransportTypes \subseteq transportTypes
      BY <1>0, <2>1 DEF TypeOK, IInv, AuthorizedAreRegistered, Exists
    <3> QED BY <1>0, <2>1, <2>2, <3>1 DEF HoldsOldRow, Exists
  <2>4. CASE dto[r].kind = "update"
    <3>1. pc'[r] \in {"assertDocument", "reload"}
      BY <2>2, <2>4
    <3>2. BodyKnown(r)'
      BY <2>2, <2>4 DEF BodyKnown
    <3> QED BY <2>1, <2>2, <2>3, <2>4, <3>1, <3>2 DEF RequestKnows
  <2>5. CASE dto[r].kind = "setAuthorizedTransports"
    <3>1. pc'[r] = IF dto[r].transportTypeIds = {} THEN "reload" ELSE "findByIds"
      BY <2>2, <2>5
    <3>2. pc'[r] = "reload" => BodyKnown(r)'
      BY <2>2, <3>1 DEF BodyKnown
    <3> QED BY <2>1, <2>2, <2>3, <2>5, <3>1, <3>2 DEF RequestKnows
  <2> QED BY <2>1, <2>4, <2>5, Bodies
<1>5. CASE assertDocumentAvailable(r) /\ ~Release(r)
  <2>1. /\ dto[r] \in Dto /\ dto[r].kind # "setAuthorizedTransports"
        /\ dto[r].kind = "update" => HoldsOldRow(r)
    BY <1>0, <1>5 DEF assertDocumentAvailable, RequestKnows
  <2>2. /\ UNCHANGED <<tables, dto, customerId, loaded>>
        /\ pc'[r] = IF dto[r].kind = "update" THEN "reload"
                    ELSE IF dto[r].transportTypeIds = {} THEN "insert"
                    ELSE "findByIds"
    BY <1>0, <1>5 DEF assertDocumentAvailable, Require, TypeOK
  <2>3. CASE dto[r].kind = "update"
    BY <1>3, <2>1, <2>2, <2>3 DEF RequestKnows, BodyKnown
  <2>4. CASE dto[r].kind = "create"
    BY <2>1, <2>2, <2>4 DEF RequestKnows, BodyKnown
  <2> QED BY <2>1, <2>3, <2>4, Bodies
<1>6. CASE FindByIds(r) /\ ~Release(r)
  <2>1. /\ dto[r] \in Dto /\ dto[r].kind # "update"
        /\ dto[r].kind # "create" => HoldsOldRow(r)
    BY <1>0, <1>6 DEF FindByIds, RequestKnows
  <2>2. /\ UNCHANGED <<tables, dto, customerId, loaded>> /\ BodyKnown(r)
        /\ pc'[r] = IF dto[r].kind = "create" THEN "insert" ELSE "reload"
    BY <1>0, <1>6 DEF FindByIds, Require, TypeOK, BodyKnown
  <2> QED BY <1>3, <2>1, <2>2 DEF RequestKnows
<1>7. CASE Reload(r)
  <2>1. /\ dto[r] \in Dto /\ HoldsOldRow(r) /\ BodyKnown(r)
    BY <1>0, <1>7 DEF Reload, RequestKnows
  <2>2. /\ UNCHANGED <<tables, dto, customerId, loaded>>
        /\ pc'[r] = "reloadList"
        /\ patch'[r].document =
             (Entity(r).document \notin {Null, customers[customerId[r]].document})
    BY <1>0, <1>7 DEF Reload, TypeOK, Patch
  <2>3. DocumentCompared(r)'
    BY <1>0, <1>3, <2>2 DEF DocumentCompared
  <2> QED BY <1>3, <2>1, <2>2, <2>3 DEF RequestKnows
<1>8. CASE ReloadList(r)
  <2> DEFINE list   == customers[customerId[r]].authorizedTransportTypes
             wanted == Entity(r).authorizedTransportTypes
  <2>1. /\ dto[r] \in Dto /\ HoldsOldRow(r) /\ BodyKnown(r) /\ DocumentCompared(r)
    BY <1>0, <1>8 DEF ReloadList, RequestKnows
  <2>2. /\ UNCHANGED <<tables, dto, customerId, loaded>>
        /\ pc'[r] = "write"
        /\ patch'[r].document = patch[r].document
        /\ patch'[r].add = wanted \ list /\ patch'[r].remove = list \ wanted
    <3>1. patch[r] \in Patch
      BY <1>0 DEF TypeOK
    <3> QED BY <1>0, <1>8, <3>1 DEF ReloadList, TypeOK, Patch
  <2>3. DocumentCompared(r)'
    BY <1>0, <1>3, <2>1, <2>2 DEF DocumentCompared
  <2>4. ListCompared(r)'
    BY <1>0, <1>3, <2>2 DEF ListCompared
  <2> QED BY <1>3, <2>1, <2>2, <2>3, <2>4 DEF RequestKnows
<1> QED BY <1>1, <1>2, <1>4, <1>5, <1>6, <1>7, <1>8 DEF Quiet

LEMMA QuietStep ==
    ASSUME IInv, TypeOK', NEW r \in Requests, Quiet(r)
    PROVE  IInv'
<1>1. /\ UNCHANGED <<customers, transportTypes>>
      /\ overtaken' \in {overtaken, overtaken \ {r}}
      /\ \A q \in Requests \ {r} : SameSlot(q)
  BY QuietFrame DEF IInv
<1>2. Grows /\ DocumentsUnique' /\ AuthorizedAreRegistered'
  BY <1>1, TablesStay
<1>3. ASSUME NEW q \in Requests PROVE RequestKnows(q)'
  <2>1. CASE q = r
    BY <2>1, QuietLearns
  <2>2. CASE q # r
    BY <1>1, <1>2, <2>2, KnowledgeStays DEF MarksOvertaken, IInv
  <2> QED BY <2>1, <2>2
<1> QED BY <1>1, <1>2, <1>3 DEF IInv


-----------------------------------------------------------------------------
(***************************************************************************)
(* The two steps that store.                                               *)
(***************************************************************************)
LEMMA SaveStep ==
    ASSUME IInv, TypeOK', NEW r \in Requests, NEW c \in CustomerIds,
           NEW row \in Customer, Store(r, c, row), Goto(r, "answer"),
           customerId' \in {customerId, [customerId EXCEPT ![r] = c]},
           UNCHANGED <<dto, loaded, patch>>, dto[r] \in Dto,
           Unique(c, row.document),
           row.authorizedTransportTypes \subseteq transportTypes
    PROVE  IInv'
<1>1. /\ Grows /\ DocumentsUnique' /\ AuthorizedAreRegistered'
      /\ \A q \in Requests \ {r} : MarksOvertaken(q)
  BY StoreStep
<1>2. \A q \in Requests \ {r} : SameSlot(q)
  BY DEF SameSlot, Goto, IInv, TypeOK
<1>3. pc'[r] = "answer" /\ dto'[r] = dto[r]
  BY DEF Goto, IInv, TypeOK
<1>4. RequestKnows(r)'
  BY <1>3 DEF RequestKnows
<1>5. \A q \in Requests \ {r} : RequestKnows(q)'
  BY <1>1, <1>2, KnowledgeStays DEF IInv
<1> QED BY <1>1, <1>4, <1>5 DEF IInv

LEMMA InsertStep ==
    ASSUME IInv, TypeOK', NEW r \in Requests, Insert(r)
    PROVE  IInv'
<1>1. TypeOK /\ dto[r] \in Dto /\ dto[r].kind = "create" /\ BodyKnown(r)
  BY DEF IInv, Insert, RequestKnows
<1>2. CASE Release(r)
  BY <1>2, QuietStep DEF Quiet
<1>3. CASE ~Release(r)
  <2>1. PICK c \in FreeIds :
            /\ Unique(c, dto[r].document) /\ Store(r, c, Entity(r))
            /\ customerId' = [customerId EXCEPT ![r] = c]
            /\ Goto(r, "answer")
            /\ UNCHANGED <<dto, loaded, patch>>
    BY <1>3 DEF Insert
  <2>2. /\ Entity(r) \in Customer /\ Entity(r).document = dto[r].document
        /\ Entity(r).authorizedTransportTypes \subseteq transportTypes
    BY <1>1, EntityFacts DEF BodyKnown
  <2> QED BY <1>1, <2>1, <2>2, SaveStep DEF FreeIds
<1> QED BY <1>2, <1>3

LEMMA UpdateStep ==
    ASSUME IInv, TypeOK', NEW r \in Requests, Write(r)
    PROVE  IInv'
<1> DEFINE c   == customerId[r]
           row == customers[c]
<1>1. /\ TypeOK /\ RequestKnows(r) /\ pc[r] = "write" /\ dto[r] \in Dto
      /\ HoldsOldRow(r) /\ BodyKnown(r) /\ ListCompared(r)
  BY DEF IInv, Write, RequestKnows
<1>2. CASE Release(r)
  BY <1>2, QuietStep DEF Quiet
<1>3. CASE /\ Succeeds(r)
           /\ Store(r, c, Merge(row, r))
           /\ Goto(r, "answer")
           /\ UNCHANGED <<dto, customerId, loaded, patch>>
  <2>1. /\ row \in Customer /\ Merge(row, r) \in Customer /\ c \in CustomerIds
        /\ row # Null
    BY <1>1, MergeFacts, NullFacts
  <2>2. Unique(c, Merge(row, r).document)
    <3>1. CASE patch[r].document
      BY <1>3, <3>1 DEF Merge, Succeeds
    <3>2. CASE ~patch[r].document
      BY <2>1, <3>2 DEF Merge, Unique, Holders, IInv, DocumentsUnique, Exists
    <3> QED BY <3>1, <3>2
  <2>3. Entity(r).authorizedTransportTypes \subseteq transportTypes
    BY <1>1, EntityFacts DEF HoldsOldRow, BodyKnown
  <2>4. Merge(row, r).authorizedTransportTypes \subseteq transportTypes
    BY <1>1, <2>1, <2>3 DEF Merge, ListCompared, IInv, AuthorizedAreRegistered,
       Exists
  <2> HIDE DEF row
  <2> QED BY <1>1, <1>3, <2>1, <2>2, <2>4, SaveStep
<1> QED BY <1>2, <1>3, WriteCases

-----------------------------------------------------------------------------
(***************************************************************************)
(* The steps of everybody else, and the induction.                         *)
(***************************************************************************)
LEMMA ElsewhereStep ==
    ASSUME IInv, TypeOK', transportTypes \subseteq transportTypes',
           UNCHANGED <<customers, overtaken, slots>>
    PROVE  IInv'
<1>1. Grows /\ DocumentsUnique' /\ AuthorizedAreRegistered'
  BY TablesStay
<1>2. \A r \in Requests : RequestKnows(r)'
  BY <1>1, KnowledgeStays DEF SameSlot, MarksOvertaken, slots, IInv
<1> QED BY <1>1, <1>2 DEF IInv

LEMMA InvInit == Init => IInv
<1> SUFFICES ASSUME Init PROVE IInv
  OBVIOUS
<1>1. DocumentsUnique /\ AuthorizedAreRegistered
  BY DEF Init, DocumentsUnique, AuthorizedAreRegistered, Exists
<1>2. \A r \in Requests : RequestKnows(r)
  BY DEF Init, RequestKnows
<1> QED BY <1>1, <1>2, TypeInit DEF IInv

LEMMA InvStep == IInv /\ [Next]_vars => IInv'
<1> SUFFICES ASSUME IInv, [Next]_vars PROVE IInv'
  OBVIOUS
<1>1. TypeOK'
  BY TypeStep
<1>2. ASSUME NEW r \in Requests, Receive(r) \/ Step(r) \/ Fail(r)
      PROVE  IInv'
  <2>1. Quiet(r) \/ Insert(r) \/ Write(r)
    BY <1>2 DEF Quiet, Step, Answer, Fail
  <2> QED BY <1>1, <2>1, QuietStep, InsertStep, UpdateStep
<1>3. CASE Crash
  <2>1. Grows /\ DocumentsUnique' /\ AuthorizedAreRegistered'
    BY <1>3, TablesStay DEF Crash, tables
  <2>2. \A r \in Requests : RequestKnows(r)'
    BY <1>3 DEF Crash, RequestKnows
  <2> QED BY <1>1, <2>1, <2>2 DEF IInv
<1>4. ASSUME NEW t \in TransportTypes, RegisterTransport(t) PROVE IInv'
  BY <1>1, <1>4, ElsewhereStep DEF RegisterTransport
<1>5. CASE UNCHANGED vars
  BY <1>1, <1>5, ElsewhereStep DEF vars
<1> QED BY <1>2, <1>3, <1>4, <1>5 DEF Next

(***************************************************************************)
(* The inductive invariant holds in every behaviour of the handlers.       *)
(***************************************************************************)
THEOREM Invariance == Spec => []IInv
BY InvInit, InvStep, PTL DEF Spec

(***************************************************************************)
(* The variables keep their types.                                         *)
(***************************************************************************)
THEOREM TypeCorrect == Spec => []TypeOK
<1>1. IInv => TypeOK BY DEF IInv
<1> QED BY <1>1, Invariance, PTL

(***************************************************************************)
(* A document belongs to one customer.                                     *)
(***************************************************************************)
THEOREM UniqueDocuments == Spec => []DocumentsUnique
<1>1. IInv => DocumentsUnique BY DEF IInv
<1> QED BY <1>1, Invariance, PTL

(***************************************************************************)
(* The lists that isTransportAuthorized reads name transports that exist.  *)
(***************************************************************************)
THEOREM ListsAreRegistered == Spec => []AuthorizedAreRegistered
<1>1. IInv => AuthorizedAreRegistered BY DEF IInv
<1> QED BY <1>1, Invariance, PTL


-----------------------------------------------------------------------------
(***************************************************************************)
(* Which steps store, and what.                                            *)
(***************************************************************************)
Inserts(r, c) ==
    /\ pc[r] = "insert" /\ Store(r, c, Entity(r)) /\ c \in FreeIds
    /\ customerId' = [customerId EXCEPT ![r] = c]

Updates(r) ==
    /\ pc[r] = "write" /\ Succeeds(r) /\ UNCHANGED customerId
    /\ Store(r, customerId[r], Merge(customers[customerId[r]], r))

LEMMA WhoStores ==
    ASSUME TypeOK, [Next]_vars
    PROVE  \/ /\ UNCHANGED customers
              /\ \A r \in Requests : ~Saves(r)
           \/ \E r \in Requests :
                /\ Updates(r) \/ \E c \in FreeIds : Inserts(r, c)
                /\ Goto(r, "answer")
<1> USE DEF TypeOK, Goto, tables, Saves
<1>1. ASSUME NEW r \in Requests, Release(r)
      PROVE  UNCHANGED customers /\ \A q \in Requests : ~Saves(q)
  BY <1>1 DEF Release
<1>2. ASSUME NEW r \in Requests, Receive(r)
      PROVE  UNCHANGED customers /\ \A q \in Requests : ~Saves(q)
  BY <1>2 DEF Receive, Create, Update, SetAuthorizedTransports, Call
<1>3. ASSUME NEW r \in Requests,
             FindOne(r) \/ assertDocumentAvailable(r) \/ FindByIds(r)
      PROVE  UNCHANGED customers /\ \A q \in Requests : ~Saves(q)
  BY <1>1, <1>3 DEF FindOne, assertDocumentAvailable, FindByIds, Require
<1>4. ASSUME NEW r \in Requests,
             Reload(r) \/ ReloadList(r) \/ Answer(r) \/ Fail(r)
      PROVE  UNCHANGED customers /\ \A q \in Requests : ~Saves(q)
  BY <1>1, <1>4 DEF Reload, ReloadList, Answer, Fail
<1>5. ASSUME Crash \/ (\E t \in TransportTypes : RegisterTransport(t))
                   \/ UNCHANGED vars
      PROVE  UNCHANGED customers /\ \A q \in Requests : ~Saves(q)
  BY <1>5 DEF Crash, RegisterTransport, vars, slots
<1>6. ASSUME NEW r \in Requests, Insert(r)
      PROVE  \/ Release(r)
             \/ (\E c \in FreeIds : Inserts(r, c)) /\ Goto(r, "answer")
  BY <1>6 DEF Insert, Inserts
<1>7. ASSUME NEW r \in Requests, Write(r)
      PROVE  Release(r) \/ (Updates(r) /\ Goto(r, "answer"))
  <2>1. pc[r] = "write"
    BY <1>7 DEF Write
  <2> QED BY <1>7, <2>1, WriteCases DEF Updates
<1>8. [Next]_vars =>
         \/ UNCHANGED vars \/ Crash \/ \E t \in TransportTypes : RegisterTransport(t)
         \/ \E r \in Requests : Receive(r) \/ Step(r) \/ Fail(r)
  BY DEF Next
<1> QED BY <1>1, <1>2, <1>3, <1>4, <1>5, <1>6, <1>7, <1>8 DEF Step

LEMMA OneSaves ==
    ASSUME TypeOK, NEW r \in Requests, NEW q \in Requests, Goto(r, "answer"),
           Saves(q)
    PROVE  q = r
BY DEF TypeOK, Goto, Saves

(***************************************************************************)
(* A save that was not raced does what its body says.  The patch was made  *)
(* from the present row and the present list, so applying it turns them    *)
(* into those of the entity; and all that the body does not name is, in    *)
(* the entity, still as in the present row.                                *)
(***************************************************************************)
Exact(r) ==
    LET c   == customerId'[r]
        new == customers'[c] IN
    CASE dto[r].kind = "create" ->
           /\ new.document = dto[r].document
           /\ new.authorizedTransportTypes = dto[r].transportTypeIds
      [] dto[r].kind = "update" ->
           /\ new.document = IF dto[r].document = Null
                               THEN customers[c].document
                               ELSE dto[r].document
           /\ new.authorizedTransportTypes =
                  customers[c].authorizedTransportTypes
      [] dto[r].kind = "setAuthorizedTransports" ->
           /\ new.document = customers[c].document
           /\ new.authorizedTransportTypes = dto[r].transportTypeIds

LEMMA ExactStep == IInv /\ [Next]_vars =>
    \A r \in Requests : Saves(r) /\ r \notin overtaken => Exact(r)
<1> SUFFICES ASSUME IInv, [Next]_vars, NEW r \in Requests, Saves(r),
                    r \notin overtaken
             PROVE  Exact(r)
  OBVIOUS
<1>0. TypeOK /\ RequestKnows(r) /\ dto[r] \in Dto
  BY DEF IInv, RequestKnows, Saves
<1>1. Updates(r) \/ \E c \in FreeIds : Inserts(r, c)
  BY <1>0, WhoStores, OneSaves
<1>2. ASSUME NEW c \in FreeIds, Inserts(r, c) PROVE Exact(r)
  <2>1. dto[r].kind = "create"
    BY <1>0, <1>2 DEF Inserts, RequestKnows
  <2>2. customerId'[r] = c /\ customers'[c] = Entity(r)
    BY <1>0, <1>2 DEF Inserts, Store, TypeOK, FreeIds
  <2> QED BY <1>0, <2>1, <2>2, EntityFacts DEF Exact
<1>3. CASE Updates(r)
  <2> DEFINE row  == customers[customerId[r]]
             list == row.authorizedTransportTypes
  <2>1. /\ HoldsOldRow(r) /\ DocumentCompared(r) /\ ListCompared(r)
        /\ pc[r] = "write"
    BY <1>0, <1>3 DEF Updates, RequestKnows
  <2>2. /\ loaded[r] = row /\ dto[r].kind # "create" /\ loaded[r] \in Customer
        /\ patch[r].document = (Entity(r).document \notin {Null, row.document})
        /\ patch[r].add = Entity(r).authorizedTransportTypes \ list
        /\ patch[r].remove = list \ Entity(r).authorizedTransportTypes
    BY <2>1 DEF HoldsOldRow, DocumentCompared, ListCompared
  <2>3. customerId'[r] = customerId[r] /\ customers'[customerId[r]] = Merge(row, r)
    BY <1>0, <1>3, <2>1 DEF Updates, Store, TypeOK, HoldsOldRow
  <2>4. Merge(row, r).document = IF Entity(r).document = Null
                                   THEN row.document ELSE Entity(r).document
    BY <2>2 DEF Merge
  <2>5. Merge(row, r).authorizedTransportTypes = Entity(r).authorizedTransportTypes
    BY <2>2 DEF Merge
  <2>6. CASE dto[r].kind = "update"
    BY <1>0, <2>2, <2>3, <2>4, <2>5, <2>6, EntityFacts DEF Exact
  <2>7. CASE dto[r].kind = "setAuthorizedTransports"
    BY <1>0, <2>2, <2>3, <2>4, <2>5, <2>7, EntityFacts, NullFacts DEF Exact
  <2> QED BY <1>0, <2>2, <2>6, <2>7, Bodies
<1> QED BY <1>1, <1>2, <1>3

(***************************************************************************)
(* PATCH and PUT do what they say unless another request overtakes them.   *)
(***************************************************************************)
THEOREM NoLostUpdateWithoutRace == Spec => UndisturbedSavesAreExact
BY ExactStep, Invariance, PTL DEF Spec, UndisturbedSavesAreExact, Exact

(***************************************************************************)
(* A save adds to a list only what its patch holds, and that comes from    *)
(* the entity: the body of a PUT, or the copy of a PATCH.  The copy of a   *)
(* PATCH that was not overtaken is the list itself, which has nothing to   *)
(* add.                                                                    *)
(***************************************************************************)
LEMMA ReviveStep == IInv /\ [Next]_vars =>
    \A c \in CustomerIds, t \in TransportTypes :
        /\ Exists(c) /\ t \notin customers[c].authorizedTransportTypes
        /\ t \in customers'[c].authorizedTransportTypes
        => \E r \in Requests :
             /\ Saves(r) /\ customerId[r] = c
             /\ \/ /\ dto[r].kind = "setAuthorizedTransports"
                   /\ t \in dto[r].transportTypeIds
                \/ /\ dto[r].kind = "update" /\ r \in overtaken
                   /\ t \in loaded[r].authorizedTransportTypes
<1> SUFFICES ASSUME IInv, [Next]_vars, NEW c \in CustomerIds,
                    NEW t \in TransportTypes, Exists(c),
                    t \notin customers[c].authorizedTransportTypes,
                    t \in customers'[c].authorizedTransportTypes
             PROVE  \E r \in Requests :
                      /\ Saves(r) /\ customerId[r] = c
                      /\ \/ /\ dto[r].kind = "setAuthorizedTransports"
                            /\ t \in dto[r].transportTypeIds
                         \/ /\ dto[r].kind = "update" /\ r \in overtaken
                            /\ t \in loaded[r].authorizedTransportTypes
  OBVIOUS
<1>0. TypeOK
  BY DEF IInv
<1>1. PICK r \in Requests :
          /\ Updates(r) \/ \E d \in FreeIds : Inserts(r, d)
          /\ Goto(r, "answer")
  BY <1>0, WhoStores
<1>2. ~\E d \in FreeIds : Inserts(r, d)
  BY <1>0 DEF Inserts, FreeIds, Store, TypeOK, Exists
<1>3. Updates(r)
  BY <1>1, <1>2
<1>4. /\ Saves(r) /\ dto[r] \in Dto /\ HoldsOldRow(r) /\ ListCompared(r)
  BY <1>0, <1>1, <1>3 DEF Updates, Saves, Goto, TypeOK, IInv, RequestKnows
<1>5. customerId[r] = c
  BY <1>0, <1>3, <1>4 DEF Updates, Store, TypeOK, HoldsOldRow
<1>6. t \in patch[r].add /\ t \in Entity(r).authorizedTransportTypes
  BY <1>0, <1>3, <1>4, <1>5 DEF Updates, Store, TypeOK, Merge, ListCompared
<1>7. CASE dto[r].kind = "setAuthorizedTransports"
  BY <1>4, <1>5, <1>6, <1>7, EntityFacts DEF HoldsOldRow
<1>8. CASE dto[r].kind = "update"
  <2>1. t \in loaded[r].authorizedTransportTypes
    BY <1>4, <1>6, <1>8, EntityFacts DEF HoldsOldRow
  <2>2. r \in overtaken
    BY <1>4, <1>5, <2>1 DEF HoldsOldRow
  <2> QED BY <1>4, <1>5, <1>8, <2>1, <2>2
<1> QED BY <1>4, <1>7, <1>8, Bodies DEF HoldsOldRow

(***************************************************************************)
(* A revoked transport comes back only by a PUT that asks for it or by a   *)
(* PATCH that was overtaken.                                               *)
(***************************************************************************)
THEOREM StalePatchIsTheCause == Spec => OnlyStalePatchRevives
BY ReviveStep, Invariance, PTL DEF Spec, OnlyStalePatchRevives

-----------------------------------------------------------------------------
(***************************************************************************)
(* What the sales orders may rely on: seen from outside, a save creates a  *)
(* customer or replaces a list.                                            *)
(***************************************************************************)
LEMMA WhoRegisters ==
    ASSUME TypeOK, [Next]_vars
    PROVE  \/ UNCHANGED transportTypes
           \/ \E t \in TransportTypes : RegisterTransport(t)
<1> USE DEF tables, Release, Require
<1>1. ASSUME NEW r \in Requests, Receive(r) \/ Fail(r)
      PROVE  UNCHANGED transportTypes
  BY <1>1 DEF Receive, Create, Update, SetAuthorizedTransports, Call, Fail
<1>2. ASSUME NEW r \in Requests,
             FindOne(r) \/ assertDocumentAvailable(r) \/ FindByIds(r) \/ Insert(r)
      PROVE  UNCHANGED transportTypes
  BY <1>2 DEF FindOne, assertDocumentAvailable, FindByIds, Insert, Store
<1>3. ASSUME NEW r \in Requests,
             Reload(r) \/ ReloadList(r) \/ Write(r) \/ Answer(r)
      PROVE  UNCHANGED transportTypes
  BY <1>3 DEF Reload, ReloadList, Write, Store, Answer
<1>4. ASSUME Crash \/ UNCHANGED vars PROVE UNCHANGED transportTypes
  BY <1>4 DEF Crash, vars
<1> QED BY <1>1, <1>2, <1>3, <1>4 DEF Next, Step

LEMMA SeenList ==
    ASSUME TypeOK, NEW r \in Requests, NEW c \in CustomerIds, NEW row \in Customer,
           Store(r, c, row)
    PROVE  /\ {d \in CustomerIds : Exists(d)}' = {d \in CustomerIds : Exists(d)} \cup {c}
           /\ [d \in CustomerIds |-> ListOf(d)]'
                = [[d \in CustomerIds |-> ListOf(d)]
                      EXCEPT ![c] = row.authorizedTransportTypes]
           /\ UNCHANGED transportTypes
<1>1. customers' = [customers EXCEPT ![c] = row] /\ UNCHANGED transportTypes
  BY DEF Store
<1>2. Exists(c)' /\ ListOf(c)' = row.authorizedTransportTypes
  BY <1>1, NullFacts DEF Exists, ListOf, TypeOK
<1>3. ASSUME NEW d \in CustomerIds \ {c}
      PROVE  Exists(d)' = Exists(d) /\ ListOf(d)' = ListOf(d)
  BY <1>1 DEF Exists, ListOf, TypeOK
<1> QED BY <1>1, <1>2, <1>3

LEMMA GrantsStep ==
    ASSUME IInv, [Next]_vars
    PROVE  [Grants!Next]_<<{c \in CustomerIds : Exists(c)}, transportTypes,
                           [c \in CustomerIds |-> ListOf(c)]>>
<1> DEFINE here  == {c \in CustomerIds : Exists(c)}
           lists == [c \in CustomerIds |-> ListOf(c)]
<1>0. TypeOK
  BY DEF IInv
<1>1. ASSUME NEW t \in TransportTypes, RegisterTransport(t) PROVE Grants!Next
  BY <1>1 DEF RegisterTransport, Grants!Next, Grants!Register, Exists, ListOf
<1>2. CASE UNCHANGED <<customers, transportTypes>>
  BY <1>2 DEF Exists, ListOf
<1>3. ASSUME NEW r \in Requests, NEW c \in CustomerIds, NEW row \in Customer,
             Store(r, c, row), row.authorizedTransportTypes \subseteq transportTypes
      PROVE  Grants!Next
  <2> DEFINE S == row.authorizedTransportTypes
  <2>1. /\ here' = here \cup {c} /\ lists' = [lists EXCEPT ![c] = S]
        /\ UNCHANGED transportTypes
    BY <1>0, <1>3, SeenList
  <2>2. S \in SUBSET TransportTypes
    BY DEF Customer
  <2>3. Grants!Grant(c, S)
    BY <1>3, <2>1 DEF Grants!Grant
  <2>4. CASE c \in here
    <3>1. Grants!Replace(c, S)
      BY <2>1, <2>3, <2>4 DEF Grants!Replace
    <3> QED BY <2>2, <3>1 DEF Grants!Next
  <2>5. CASE c \notin here
    <3>1. Grants!Create(c, S)
      BY <2>1, <2>3, <2>5 DEF Grants!Create
    <3> QED BY <2>2, <3>1 DEF Grants!Next
  <2> QED BY <2>4, <2>5
<1>4. ASSUME NEW r \in Requests, NEW c \in FreeIds, Inserts(r, c) PROVE Grants!Next
  <2>1. RequestKnows(r) /\ pc[r] = "insert" /\ c \in CustomerIds
    BY <1>4 DEF IInv, Inserts, FreeIds
  <2>2. dto[r] \in Dto /\ dto[r].kind = "create" /\ BodyKnown(r)
    BY <2>1 DEF RequestKnows
  <2>3. /\ Entity(r) \in Customer
        /\ Entity(r).authorizedTransportTypes \subseteq transportTypes
    BY <2>2, EntityFacts DEF BodyKnown
  <2> QED BY <1>3, <1>4, <2>1, <2>3 DEF Inserts
<1>5. ASSUME NEW r \in Requests, Updates(r) PROVE Grants!Next
  <2> DEFINE row == customers[customerId[r]]
  <2>1. RequestKnows(r) /\ pc[r] = "write"
    BY <1>5 DEF IInv, Updates
  <2>2. customerId[r] \in CustomerIds /\ Merge(row, r) \in Customer
    BY <1>0, <2>1, MergeFacts
  <2>3. /\ dto[r] \in Dto /\ HoldsOldRow(r) /\ BodyKnown(r)
        /\ patch[r].add \subseteq Entity(r).authorizedTransportTypes
    BY <2>1 DEF RequestKnows, ListCompared
  <2>4. Entity(r).authorizedTransportTypes \subseteq transportTypes
    BY <2>3, EntityFacts DEF HoldsOldRow, BodyKnown
  <2>5. row.authorizedTransportTypes \subseteq transportTypes
    BY <2>2, <2>3 DEF IInv, AuthorizedAreRegistered, HoldsOldRow
  <2>6. Merge(row, r).authorizedTransportTypes \subseteq transportTypes
    BY <2>3, <2>4, <2>5 DEF Merge
  <2> QED BY <1>3, <1>5, <2>2, <2>6 DEF Updates
<1> QED BY <1>0, <1>1, <1>2, <1>4, <1>5, WhoRegisters, WhoStores DEF RegisterTransport

(***************************************************************************)
(* The customers service is one that SalesOrders has been verified with:   *)
(* its tables behave as TransportGrants.                                   *)
(***************************************************************************)
THEOREM FitsTheOrders == Spec => ImplementsTransportGrants
<1>1. Init => Grants!Init
  BY DEF Init, Grants!Init, Exists, ListOf
<1> QED
  BY <1>1, GrantsStep, Invariance, PTL
     DEF Spec, ImplementsTransportGrants, Grants!Spec

-----------------------------------------------------------------------------
(***************************************************************************)
(* When PATCH and PUT do what they say.  The window that a lock would have *)
(* to cover: from findOne to the statement that saves.  NoOverlap is about *)
(* requests for one customer; creates, and requests for other customers,   *)
(* may interleave with them.                                               *)
(***************************************************************************)
Between(r) ==
    /\ pc[r] \in {"assertDocument", "findByIds", "reload", "reloadList", "write"}
    /\ dto[r].kind # "create"

NoOverlap ==
    \A q, r \in Requests :
        Between(q) /\ Between(r) /\ customerId[q] = customerId[r] => q = r

\* Nobody saves the customer of a request before the request has.
NotOvertaken(r) ==
    /\ pc[r] # "answer" /\ ~Between(r) => loaded[r] = Null
    /\ pc[r] \notin {"idle", "answer"} => r \notin overtaken

Fresh == \A r \in Requests : NotOvertaken(r)

LEMMA QuietKeepsFresh ==
    ASSUME IInv, Fresh, NEW q \in Requests, Quiet(q)
    PROVE  Fresh'
<1>0. /\ TypeOK /\ overtaken' \in {overtaken, overtaken \ {q}}
      /\ \A r \in Requests \ {q} : SameSlot(r)
      /\ RequestKnows(q)
  BY QuietFrame DEF IInv
<1>1. ASSUME NEW r \in Requests \ {q} PROVE NotOvertaken(r)'
  BY <1>0 DEF Fresh, NotOvertaken, SameSlot, Between
<1>2. CASE Release(q)
  <2>1. pc'[q] = "idle" /\ loaded'[q] = Null
    BY <1>0, <1>2 DEF Release, Goto, TypeOK
  <2> QED BY <1>1, <2>1 DEF Fresh, NotOvertaken
<1>3. CASE Receive(q)
  <2>1. /\ pc[q] = "idle" /\ loaded'[q] = loaded[q] /\ q \notin overtaken'
    BY <1>3 DEF Receive, Create, Update, SetAuthorizedTransports, Call
  <2>2. loaded'[q] = Null
    BY <2>1 DEF Fresh, NotOvertaken, Between
  <2> QED BY <1>1, <2>1, <2>2 DEF Fresh, NotOvertaken
<1>4. CASE FindOne(q) /\ ~Release(q)
  <2> DEFINE row == customers[customerId[q]]
  <2>1. /\ pc[q] = "findOne" /\ dto' = dto /\ overtaken' = overtaken
        /\ dto[q] \in Dto /\ dto[q].kind # "create"
        /\ pc'[q] = CASE dto[q].kind = "update" ->
                           IF NewDocument(q, row) THEN "assertDocument"
                                                  ELSE "reload"
                      [] dto[q].kind = "setAuthorizedTransports" ->
                           IF dto[q].transportTypeIds = {} THEN "reload"
                                                           ELSE "findByIds"
    BY <1>0, <1>4 DEF FindOne, TypeOK, tables, RequestKnows, Goto
  <2>2. pc'[q] \in {"assertDocument", "reload", "findByIds"}
    BY <2>1, Bodies
  <2> QED BY <1>1, <2>1, <2>2 DEF Fresh, NotOvertaken, Between
<1>5. CASE assertDocumentAvailable(q) /\ ~Release(q)
  <2>1. /\ pc[q] = "assertDocument" /\ overtaken' = overtaken
        /\ dto' = dto /\ loaded' = loaded
        /\ pc'[q] \in {"reload", "insert", "findByIds"}
        /\ dto[q].kind = "update" => pc'[q] = "reload"
        /\ dto[q] \in Dto /\ dto[q].kind # "setAuthorizedTransports"
    BY <1>0, <1>5 DEF assertDocumentAvailable, Require, TypeOK, tables, RequestKnows,
       Goto
  <2> QED BY <1>1, <2>1, Bodies DEF Fresh, NotOvertaken, Between
<1>6. CASE FindByIds(q) /\ ~Release(q)
  <2>1. /\ pc[q] = "findByIds" /\ overtaken' = overtaken
        /\ dto' = dto /\ loaded' = loaded
        /\ pc'[q] \in {"reload", "insert"}
        /\ dto[q].kind # "create" => pc'[q] = "reload"
    BY <1>0, <1>6 DEF FindByIds, Require, TypeOK, tables, Goto
  <2> QED BY <1>1, <2>1 DEF Fresh, NotOvertaken, Between
<1>7. CASE Reload(q) \/ ReloadList(q)
  <2>1. /\ pc[q] \in {"reload", "reloadList"} /\ overtaken' = overtaken
        /\ dto' = dto /\ loaded' = loaded /\ pc'[q] \in {"reloadList", "write"}
    BY <1>0, <1>7 DEF Reload, ReloadList, TypeOK, tables, Goto
  <2> QED BY <1>1, <2>1 DEF Fresh, NotOvertaken, Between
<1> QED BY <1>2, <1>3, <1>4, <1>5, <1>6, <1>7 DEF Quiet

(***************************************************************************)
(* A save marks those who have loaded its customer: nobody has, when the   *)
(* customer is new, and under NoOverlap nobody else, when it is not.       *)
(***************************************************************************)
LEMMA SaveKeepsFresh ==
    ASSUME IInv, Fresh, NoOverlap, NEW q \in Requests, NEW c \in CustomerIds, NEW row,
           Store(q, c, row), Goto(q, "answer"), UNCHANGED <<dto, loaded>>,
           c \in FreeIds \/ (Between(q) /\ c = customerId[q])
    PROVE  Fresh'
<1>0. TypeOK /\ \A r \in Requests : RequestKnows(r)
  BY DEF IInv
<1>1. ASSUME NEW r \in Requests \ {q}, pc[r] \notin {"idle", "answer"},
             r \in overtaken'
      PROVE  FALSE
  <2>1. customerId[r] = c /\ loaded[r] # Null
    BY <1>1 DEF Store, Fresh, NotOvertaken
  <2>2. Between(r)
    BY <1>1, <2>1 DEF Fresh, NotOvertaken
  <2>3. HoldsOldRow(r)
    BY <1>0, <2>2, Bodies DEF Between, RequestKnows
  <2>4. c \notin FreeIds
    BY <2>1, <2>3 DEF HoldsOldRow, Exists, FreeIds
  <2> QED BY <2>1, <2>2, <2>4 DEF NoOverlap
<1>2. pc'[q] = "answer" /\ \A r \in Requests \ {q} : pc'[r] = pc[r]
  BY <1>0 DEF Goto, TypeOK
<1> QED BY <1>1, <1>2 DEF Fresh, NotOvertaken, Between

LEMMA FreshStep == IInv /\ Fresh /\ NoOverlap /\ [Next]_vars => Fresh'
<1> SUFFICES ASSUME IInv, Fresh, NoOverlap, [Next]_vars PROVE Fresh'
  OBVIOUS
<1>1. ASSUME NEW q \in Requests, Quiet(q) PROVE Fresh'
  BY <1>1, QuietKeepsFresh
<1>2. ASSUME NEW q \in Requests, Answer(q) \/ Fail(q) PROVE Fresh'
  BY <1>1, <1>2 DEF Answer, Fail, Quiet
<1>3. ASSUME NEW q \in Requests, Insert(q) PROVE Fresh'
  <2>1. CASE Release(q)
    BY <1>1, <2>1 DEF Quiet
  <2>2. CASE ~Release(q)
    <3>1. PICK c \in FreeIds :
              Store(q, c, Entity(q)) /\ Goto(q, "answer") /\ UNCHANGED <<dto, loaded>>
      BY <1>3, <2>2 DEF Insert
    <3> QED BY <3>1, SaveKeepsFresh DEF FreeIds
  <2> QED BY <2>1, <2>2
<1>4. ASSUME NEW q \in Requests, Write(q) PROVE Fresh'
  <2>1. CASE Release(q)
    BY <1>1, <2>1 DEF Quiet
  <2>2. CASE ~Release(q)
    <3>1. pc[q] = "write" /\ dto[q].kind # "create" /\ customerId[q] \in CustomerIds
      BY <1>4 DEF Write, IInv, RequestKnows, HoldsOldRow
    <3>2. /\ Store(q, customerId[q], Merge(customers[customerId[q]], q))
          /\ Goto(q, "answer") /\ UNCHANGED <<dto, loaded>>
      BY <1>4, <2>2, WriteCases
    <3> QED BY <3>1, <3>2, SaveKeepsFresh DEF Between
  <2> QED BY <2>1, <2>2
<1>5. CASE Crash
  BY <1>5 DEF Crash, Fresh, NotOvertaken
<1>6. CASE (\E t \in TransportTypes : RegisterTransport(t)) \/ UNCHANGED vars
  BY <1>6 DEF RegisterTransport, vars, slots, Fresh, NotOvertaken, Between
<1> QED BY <1>1, <1>2, <1>3, <1>4, <1>5, <1>6 DEF Next, Step, Quiet

(***************************************************************************)
(* As long as requests for one customer do not overlap, no request is      *)
(* overtaken before it has saved.                                          *)
(***************************************************************************)
THEOREM CopiesAreFresh == Spec /\ []NoOverlap => []Fresh
<1>1. Init => Fresh
  BY DEF Init, Fresh, NotOvertaken
<1> QED BY <1>1, FreshStep, Invariance, PTL DEF Spec

(***************************************************************************)
(* "PUT substitui a lista" is true of setAuthorizedTransports as long as   *)
(* requests for one customer do not overlap.                               *)
(***************************************************************************)
THEOREM PutAlone == Spec /\ []NoOverlap => PutReplacesTheList
<1> DEFINE Replaces ==
      \A r \in Requests :
          Saves(r) /\ dto[r].kind = "setAuthorizedTransports" =>
             customers'[customerId[r]].authorizedTransportTypes
                 = dto[r].transportTypeIds
<1>1. IInv /\ Fresh /\ [Next]_vars => [Replaces]_vars
  <2> SUFFICES ASSUME IInv, Fresh, [Next]_vars, NEW r \in Requests, Saves(r),
                      dto[r].kind = "setAuthorizedTransports"
               PROVE  customers'[customerId[r]].authorizedTransportTypes
                          = dto[r].transportTypeIds
    OBVIOUS
  <2>1. Exact(r)
    BY ExactStep DEF Fresh, NotOvertaken, Saves
  <2>2. PICK q \in Requests :
            /\ Updates(q) \/ \E c \in FreeIds : Inserts(q, c)
            /\ Goto(q, "answer")
    BY WhoStores DEF IInv
  <2>3. q = r
    BY <2>2, OneSaves DEF IInv
  <2>4. pc[r] # "insert"
    BY DEF IInv, RequestKnows
  <2>5. customerId' = customerId
    BY <2>2, <2>3, <2>4 DEF Updates, Inserts
  <2> QED BY <2>1, <2>5 DEF Exact
<1> QED BY <1>1, CopiesAreFresh, Invariance, PTL DEF Spec, PutReplacesTheList

(***************************************************************************)
(* Then a transport gets on the list of a customer only by a PUT that asks *)
(* for it: a PATCH brings none back that has been revoked.                 *)
(***************************************************************************)
OnlyPutAuthorizes ==
    [][\A c \in CustomerIds, t \in TransportTypes :
          /\ Exists(c) /\ t \notin customers[c].authorizedTransportTypes
          /\ t \in customers'[c].authorizedTransportTypes
          => \E r \in Requests :
               /\ Saves(r) /\ customerId[r] = c
               /\ dto[r].kind = "setAuthorizedTransports"
               /\ t \in dto[r].transportTypeIds]_vars

THEOREM RevokedStaysRevoked == Spec /\ []NoOverlap => OnlyPutAuthorizes
<1> DEFINE ByPut ==
      \A c \in CustomerIds, t \in TransportTypes :
          /\ Exists(c) /\ t \notin customers[c].authorizedTransportTypes
          /\ t \in customers'[c].authorizedTransportTypes
          => \E r \in Requests :
               /\ Saves(r) /\ customerId[r] = c
               /\ dto[r].kind = "setAuthorizedTransports"
               /\ t \in dto[r].transportTypeIds
<1>1. IInv /\ Fresh /\ [Next]_vars => [ByPut]_vars
  <2> SUFFICES ASSUME IInv, Fresh, [Next]_vars PROVE ByPut
    OBVIOUS
  <2>1. \A r \in Requests : Saves(r) => r \notin overtaken
    BY DEF Fresh, NotOvertaken, Saves
  <2> QED BY <2>1, ReviveStep
<1> QED BY <1>1, CopiesAreFresh, Invariance, PTL DEF Spec, OnlyPutAuthorizes

=============================================================================
