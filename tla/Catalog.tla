------------------------------ MODULE Catalog ------------------------------
(***************************************************************************)
(* TransportTypesService (create, update, findOne) and ItemsService        *)
(* (create) behind the guards of Auth.  As in SalesOrders a handler is cut *)
(* at its awaits; an answer has its status.                                *)
(*                                                                         *)
(* Of a transport type the model keeps its code, of an item its sku: the   *)
(* columns with a constraint.  Every column of a transport type is a field *)
(* of the PATCH too, and a field that is not sent is undefined in the      *)
(* entity, which save passes over: the loaded row is only used to compare  *)
(* the code with.                                                          *)
(***************************************************************************)
EXTENDS Auth

CONSTANTS
    Ids,           \* the uuids the database gives to transport types and items
    Codes,         \* codes of transport types
    Skus           \* skus of items

CreateTransportTypeDto == [kind : {"createTransportType"}, code : Codes]

\* With the id of the path.  Null: undefined, the PATCH names no code.
UpdateTransportTypeDto ==
    [kind : {"updateTransportType"}, id : Ids, code : Codes \cup {Null}]

FindTransportType == [kind : {"findTransportType"}, id : Ids]

CreateItemDto == [kind : {"createItem"}, sku : Skus]

Dto == CreateTransportTypeDto \cup UpdateTransportTypeDto
       \cup FindTransportType \cup CreateItemDto

ASSUME NullAssumption ==
    Null \notin User \cup JwtPayload \cup LoginDto \cup {Seeding} \cup Dto
                \cup Codes \cup Skus

ASSUME AdminAssumption == AdminEmail \in Emails

VARIABLES
    transportTypes,   \* table transport_types: the code of each id
    items,            \* table items: the sku of each id
    loaded,           \* the code of the entity that findOne returned
    differs           \* whether save found the code to differ

tables == <<users, tokens, transportTypes, items>>
vars   == <<tables, authSlots, raced, loaded, differs>>

PC == AuthPC \cup {"findOne", "get", "assertCode", "insertType", "reload",
                   "write", "findSku", "insertItem"}

TypeOK ==
    /\ users \in [UserIds -> User \cup {Null}]
    /\ tokens \subseteq JwtPayload
    /\ transportTypes \in [Ids -> Codes \cup {Null}]
    /\ items \in [Ids -> Skus \cup {Null}]
    /\ pc \in [Requests -> PC \cup Status \cup {"idle"}]
    /\ call \in [Requests -> Dto \cup LoginDto \cup {Seeding, Null}]
    /\ payload \in [Requests -> JwtPayload \cup {Null}]
    /\ standing \in [Requests -> SUBSET UserRole]
    /\ raced \subseteq Requests
    /\ loaded \in [Requests -> Codes \cup {Null}]
    /\ differs \in [Requests -> BOOLEAN]

Init ==
    /\ AuthInit
    /\ transportTypes = [i \in Ids |-> Null]
    /\ items = [i \in Ids |-> Null]
    /\ loaded = [r \in Requests |-> Null]
    /\ differs = [r \in Requests |-> FALSE]

-----------------------------------------------------------------------------
(* Moving a request in its handler.                                        *)

Await(r, label) ==
    Goto(r, label) /\ UNCHANGED <<call, payload, standing>>

Reply(r, status) ==
    /\ End(r, status)
    /\ loaded' = [loaded EXCEPT ![r] = Null]
    /\ differs' = [differs EXCEPT ![r] = FALSE]

OfType(code) == {i \in Ids : transportTypes[i] = code}
OfItem(sku)  == {i \in Ids : items[i] = sku}

\* Who has read the table and relies on what it read.
TypesRead ==
    {r \in Requests :
        \/ pc[r] \in {"insertType", "reload", "write"}
        \/ pc[r] = "assertCode" /\ call[r].kind = "updateTransportType"}

ItemsRead == {r \in Requests : pc[r] = "insertItem"}

-----------------------------------------------------------------------------
(* Transport types.                                                        *)

Get(r) ==
    /\ pc[r] = "get"
    /\ Reply(r, IF transportTypes[call[r].id] = Null THEN "404" ELSE "200")
    /\ UNCHANGED <<tables, raced>>

\* Mutant: the code is looked up also when it is the one the row has.
NewCode_Any(r, code) == call[r].code # Null

NewCode(r, code) == call[r].code \notin {Null, code}

\* findOne, and where update goes on from there.
FindOne(r) ==
    /\ pc[r] = "findOne"
    /\ LET code == transportTypes[call[r].id] IN
       IF code = Null
         THEN Reply(r, "404")
         ELSE /\ loaded' = [loaded EXCEPT ![r] = code]
              /\ Await(r, IF NewCode(r, code) THEN "assertCode" ELSE "reload")
              /\ UNCHANGED differs
    /\ UNCHANGED <<tables, raced>>

\* Mutant: left to the constraint.
assertCodeAvailable_None(r) ==
    /\ pc[r] = "assertCode"
    /\ Await(r, IF call[r].kind = "createTransportType" THEN "insertType" ELSE "reload")
    /\ UNCHANGED <<tables, raced, loaded, differs>>

assertCodeAvailable(r) ==
    /\ pc[r] = "assertCode"
    /\ IF OfType(call[r].code) # {}
         THEN Reply(r, "409")
         ELSE /\ Await(r, IF call[r].kind = "createTransportType" THEN "insertType"
                                                                 ELSE "reload")
              /\ UNCHANGED <<loaded, differs>>
    /\ UNCHANGED <<tables, raced>>

\* Mutant: the column code without its constraint.
UniqueCode_None(i, code) == TRUE

\* UNIQUE (code), seen by the row of i.
UniqueCode(i, code) == OfType(code) \subseteq {i}

StoreType(r, i, code) ==
    /\ transportTypes' = [transportTypes EXCEPT ![i] = code]
    /\ raced' = raced \cup (TypesRead \ {r})
    /\ UNCHANGED <<users, tokens, items>>

\* Bound: a create waits while no id is free.
InsertType(r) ==
    /\ pc[r] = "insertType"
    /\ \E i \in Ids :
         /\ transportTypes[i] = Null
         /\ IF UniqueCode(i, call[r].code)
              THEN StoreType(r, i, call[r].code) /\ Reply(r, "201")
              ELSE Reply(r, "500") /\ UNCHANGED <<tables, raced>>

\* Mutant: a code that is not sent is not copied, so the loaded one is kept.
AssignedCode_Loaded(r) == IF call[r].code = Null THEN loaded[r] ELSE call[r].code

\* Object.assign(entity, dto): Null when it is undefined.
AssignedCode(r) == call[r].code

\* Mutant: a field that is undefined is written as well.
Reload_Undefined(r) ==
    /\ pc[r] = "reload"
    /\ differs' = [differs EXCEPT ![r] =
                      AssignedCode(r) # transportTypes[call[r].id]]
    /\ Await(r, "write")
    /\ UNCHANGED <<tables, raced, loaded>>

\* save reads the row again...
Reload(r) ==
    /\ pc[r] = "reload"
    /\ differs' = [differs EXCEPT ![r] =
                      AssignedCode(r) \notin {Null, transportTypes[call[r].id]}]
    /\ Await(r, "write")
    /\ UNCHANGED <<tables, raced, loaded>>

\* ... and updates the code if it differs.
Write(r) ==
    /\ pc[r] = "write"
    /\ IF differs[r]
         THEN IF UniqueCode(call[r].id, AssignedCode(r))
                THEN StoreType(r, call[r].id, AssignedCode(r)) /\ Reply(r, "200")
                ELSE Reply(r, "500") /\ UNCHANGED <<tables, raced>>
         ELSE Reply(r, "200") /\ UNCHANGED <<tables, raced>>

-----------------------------------------------------------------------------
(* Items.                                                                  *)

FindSku(r) ==
    /\ pc[r] = "findSku"
    /\ IF OfItem(call[r].sku) # {}
         THEN Reply(r, "409")
         ELSE Await(r, "insertItem") /\ UNCHANGED <<loaded, differs>>
    /\ UNCHANGED <<tables, raced>>

\* UNIQUE (sku), seen by a new row.
UniqueSku(sku) == OfItem(sku) = {}

InsertItem(r) ==
    /\ pc[r] = "insertItem"
    /\ \E i \in Ids :
         /\ items[i] = Null
         /\ IF UniqueSku(call[r].sku)
              THEN /\ items' = [items EXCEPT ![i] = call[r].sku]
                   /\ raced' = raced \cup (ItemsRead \ {r})
                   /\ Reply(r, "201")
                   /\ UNCHANGED <<users, tokens, transportTypes>>
              ELSE Reply(r, "500") /\ UNCHANGED <<tables, raced>>

-----------------------------------------------------------------------------

\* The first await of the handler of a route.
Handler(kind) ==
    CASE kind = "createTransportType" -> "assertCode"
      [] kind = "updateTransportType" -> "findOne"
      [] kind = "findTransportType"   -> "get"
      [] kind = "createItem"          -> "findSku"

Receive(r) == \E body \in Dto : JwtAuthGuard(r, body)

Guard(r) == pc[r] = "validate" /\ validate(r, Handler(call[r].kind))

Handle(r) ==
    \/ Get(r) \/ FindOne(r) \/ assertCodeAvailable(r) \/ InsertType(r)
    \/ Reload(r) \/ Write(r) \/ FindSku(r) \/ InsertItem(r)

\* A database call throws.
Fail(r) == ~Free(r) /\ Reply(r, "failed") /\ UNCHANGED <<tables, raced>>

\* The process dies and starts again; clients keep their tokens.
Crash ==
    /\ pc' = [r \in Requests |-> "idle"]
    /\ call' = [r \in Requests |-> Null]
    /\ payload' = [r \in Requests |-> Null]
    /\ standing' = [r \in Requests |-> {}]
    /\ loaded' = [r \in Requests |-> Null]
    /\ differs' = [r \in Requests |-> FALSE]
    /\ UNCHANGED <<tables, raced>>

Next ==
    \/ \E r \in Requests : Handle(r) \/ Fail(r)
    \/ Crash
    \/ /\ \/ AuthNext
          \/ \E r \in Requests : Receive(r) \/ Guard(r)
       /\ UNCHANGED <<transportTypes, items, loaded, differs>>

Spec == Init /\ [][Next]_vars

-----------------------------------------------------------------------------
(* Properties                                                              *)

Ends(r, status) == ~Free(r) /\ pc'[r] = status

(***************************************************************************)
(* E-mails, codes and skus are unique, although every service looks them   *)
(* up in one query and writes them in another.                             *)
(***************************************************************************)
UniqueKeys ==
    /\ \A u, v \in UserIds :
         users[u] # Null /\ users[v] # Null /\ users[u].email = users[v].email
             => u = v
    /\ \A i, j \in Ids :
         (transportTypes[i] # Null /\ transportTypes[i] = transportTypes[j])
           \/ (items[i] # Null /\ items[i] = items[j])
         => i = j

(***************************************************************************)
(* docs/adr/0004: catalogue data requires ADMIN, everything else a user    *)
(* that is active.  A request gets to its handler only if its user had     *)
(* that standing at a moment after the request came in, whatever the token *)
(* says and however long ago it was signed.  (While its handler runs the   *)
(* user may lose it: nobody looks again.)                                  *)
(***************************************************************************)
OnlyPresentAdminsConfigure ==
    [][\A r \in Requests :
          pc[r] = "validate" /\ pc'[r] # "validate" /\ ~Free(r)' =>
             \/ call'[r].kind = "findTransportType" /\ standing[r] # {}
             \/ "ADMIN" \in standing[r]]_vars

(***************************************************************************)
(* A token says of a user what was true, while that user was active, at a  *)
(* moment since its login began.                                           *)
(***************************************************************************)
TokensAreEarned ==
    [][\A t \in tokens' \ tokens :
          \E r \in Requests :
             Ends(r, "200") /\ payload[r] = t /\ t.role \in standing[r]]_vars

(***************************************************************************)
(* docs/API.md:58 and :89, "409 se duplicado".  A duplicate is answered    *)
(* 500 only when another request has stored something in that table since  *)
(* this one looked for the key; and the seed, "idempotente", is refused    *)
(* only by such a race.                                                    *)
(***************************************************************************)
OnlyRacesEscapeTheLookup ==
    [][\A r \in Requests :
          Ends(r, "500") \/ (Ends(r, "409") /\ call[r] = Seeding)
              => r \in raced]_vars

(***************************************************************************)
(* A PATCH that keeps its code is not in conflict with itself: a 409 is    *)
(* about the code of another row, or about a code that its own row was     *)
(* given meanwhile, as when a client sends the same PATCH twice.           *)
(***************************************************************************)
ConflictsNameAnotherRow ==
    [][\A r \in Requests :
          Ends(r, "409") /\ call[r].kind = "updateTransportType" =>
             \/ \E i \in Ids \ {call[r].id} : transportTypes[i] = call[r].code
             \/ r \in raced]_vars

(***************************************************************************)
(* A code changes only to what a PATCH of that row asks for, even when the *)
(* PATCH has a stale copy of the row; and a PATCH answered 200 has had its *)
(* code stored unless another request was at the table too.                *)
(***************************************************************************)
PatchesWriteWhatTheyName ==
    [][/\ \A i \in Ids :
            transportTypes[i] \notin {Null, transportTypes'[i]} =>
               \E r \in Requests :
                  /\ Ends(r, "200") /\ call[r].kind = "updateTransportType"
                  /\ call[r].id = i /\ call[r].code = transportTypes'[i]
       /\ \A r \in Requests :
            /\ Ends(r, "200") /\ call[r] \in UpdateTransportTypeDto
            /\ call[r].code # Null /\ r \notin raced
            => transportTypes'[call[r].id] = call[r].code]_vars

-----------------------------------------------------------------------------
(***************************************************************************)
(* Why they hold: what a request knows at each await.                      *)
(***************************************************************************)

\* Nobody has taken the code since it was found to be free.
CodeFree(r) == r \notin raced => OfType(call[r].code) = {}

\* The entity is loaded, and is the present row unless another has written.
HoldsRow(r) ==
    /\ call[r] \in UpdateTransportTypeDto
    /\ transportTypes[call[r].id] # Null
    /\ r \notin raced => loaded[r] = transportTypes[call[r].id]

RequestKnows(r) ==
    /\ pc[r] = "validate" =>
         /\ call[r] \in Dto /\ payload[r] \in JwtPayload
         /\ ActiveRoles({payload[r].sub}) \subseteq standing[r]
    /\ pc[r] \in {"findByEmail", "compare"} =>
         /\ call[r] \in LoginDto
         /\ ActiveRoles(Holders(call[r].email)) \subseteq standing[r]
    /\ pc[r] = "compare" =>
         payload[r] \in JwtPayload /\ payload[r].role \in standing[r]
    /\ pc[r] \in {"seedFindByEmail", "createFindByEmail", "insertUser"} =>
         call[r] = Seeding
    /\ pc[r] \in {"createFindByEmail", "insertUser"} =>
         (r \notin raced => Holders(AdminEmail) = {})
    /\ pc[r] = "get" => call[r] \in FindTransportType
    /\ pc[r] = "findOne" => call[r] \in UpdateTransportTypeDto
    /\ pc[r] = "assertCode" =>
         \/ call[r] \in CreateTransportTypeDto
         \/ /\ HoldsRow(r) /\ call[r].code # Null
            /\ r \notin raced => loaded[r] # call[r].code
    /\ pc[r] = "insertType" => call[r] \in CreateTransportTypeDto /\ CodeFree(r)
    /\ pc[r] \in {"reload", "write"} =>
         HoldsRow(r) /\ (CodeFree(r) \/ call[r].code \in {Null, loaded[r]})
    /\ pc[r] = "write" =>
         /\ differs[r] => AssignedCode(r) # Null
         /\ r \notin raced =>
              differs[r] = (AssignedCode(r) \notin {Null, loaded[r]})
    /\ pc[r] \in {"findSku", "insertItem"} => call[r] \in CreateItemDto
    /\ pc[r] = "insertItem" => (r \notin raced => OfItem(call[r].sku) = {})

IInv ==
    /\ TypeOK
    /\ UniqueKeys
    /\ \A r \in Requests : RequestKnows(r)

=============================================================================
