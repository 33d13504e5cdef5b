--------------------------- MODULE CatalogProofs ---------------------------
(***************************************************************************)
(* What Catalog and Auth promise, for any number of requests, users, rows  *)
(* and keys.                                                               *)
(***************************************************************************)
EXTENDS Catalog, TLAPS

LEMMA NullFacts ==
    /\ Null \notin User /\ Null \notin JwtPayload /\ Null \notin LoginDto
    /\ Null # Seeding /\ Null \notin Dto /\ Null \notin Codes /\ Null \notin Skus
BY NullAssumption

\* What a body can be told from.
LEMMA Bodies ==
    /\ \A body \in Dto :
         /\ body.kind \in {"createTransportType", "updateTransportType",
                           "findTransportType", "createItem"}
         /\ body.kind = "createTransportType" => body \in CreateTransportTypeDto
         /\ body.kind = "updateTransportType" => body \in UpdateTransportTypeDto
         /\ body.kind = "findTransportType" => body \in FindTransportType
         /\ body.kind = "createItem" => body \in CreateItemDto
    /\ \A body \in CreateTransportTypeDto :
         body.kind = "createTransportType" /\ body.code \in Codes /\ body \in Dto
    /\ \A body \in UpdateTransportTypeDto :
         /\ body.kind = "updateTransportType" /\ body.id \in Ids /\ body \in Dto
         /\ body.code \in Codes \cup {Null}
    /\ \A body \in FindTransportType :
         body.kind = "findTransportType" /\ body.id \in Ids /\ body \in Dto
    /\ \A body \in CreateItemDto :
         body.kind = "createItem" /\ body.sku \in Skus /\ body \in Dto
    /\ \A body \in LoginDto : body.kind = "login" /\ body.email \in Emails
    /\ Seeding.kind = "seed"
BY DEF Dto, CreateTransportTypeDto, UpdateTransportTypeDto, FindTransportType,
       CreateItemDto, LoginDto, Seeding

-----------------------------------------------------------------------------
(***************************************************************************)
(* Types.  The steps that move a request alone, then those that store.     *)
(***************************************************************************)
LEMMA TypeInit == Init => TypeOK
BY DEF Init, AuthInit, TypeOK

LEMMA EndTypes ==
    ASSUME TypeOK, NEW r \in Requests, NEW status \in Status, End(r, status)
    PROVE  /\ pc' \in [Requests -> PC \cup Status \cup {"idle"}]
           /\ call' \in [Requests -> Dto \cup LoginDto \cup {Seeding, Null}]
           /\ payload' \in [Requests -> JwtPayload \cup {Null}]
           /\ standing' \in [Requests -> SUBSET UserRole]
BY DEF TypeOK, End, Goto

LEMMA ReplyTypes ==
    ASSUME TypeOK, NEW r \in Requests, NEW status \in Status, Reply(r, status)
    PROVE  /\ pc' \in [Requests -> PC \cup Status \cup {"idle"}]
           /\ call' \in [Requests -> Dto \cup LoginDto \cup {Seeding, Null}]
           /\ payload' \in [Requests -> JwtPayload \cup {Null}]
           /\ standing' \in [Requests -> SUBSET UserRole]
           /\ loaded' \in [Requests -> Codes \cup {Null}]
           /\ differs' \in [Requests -> BOOLEAN]
<1>1. End(r, status) BY DEF Reply
<1> QED BY <1>1, EndTypes DEF Reply, TypeOK

LEMMA AwaitTypes ==
    ASSUME TypeOK, NEW r \in Requests, NEW label \in PC, Await(r, label)
    PROVE  /\ pc' \in [Requests -> PC \cup Status \cup {"idle"}]
           /\ call' \in [Requests -> Dto \cup LoginDto \cup {Seeding, Null}]
           /\ payload' \in [Requests -> JwtPayload \cup {Null}]
           /\ standing' \in [Requests -> SUBSET UserRole]
BY DEF TypeOK, Await, Goto

LEMMA StatusIn ==
    {"200", "201", "401", "403", "404", "409", "500", "failed"} = Status
BY DEF Status

LEMMA RolesAreRoles ==
    ASSUME TypeOK, NEW S \in SUBSET UserIds
    PROVE  ActiveRoles(S) \in SUBSET UserRole
BY NullFacts DEF ActiveRoles, TypeOK, User

LEMMA StoreUserTypes ==
    ASSUME TypeOK, NEW u \in UserIds, NEW row \in User, StoreUser(u, row)
    PROVE  /\ users' \in [UserIds -> User \cup {Null}]
           /\ standing' \in [Requests -> SUBSET UserRole]
           /\ raced' \in SUBSET Requests
<1>1. row.role \in UserRole BY DEF User
<1>2. ASSUME NEW q \in Requests
      PROVE  standing[q] \in SUBSET UserRole
             /\ standing[q] \cup {row.role} \in SUBSET UserRole
  BY <1>1 DEF TypeOK
<1> QED BY <1>2 DEF StoreUser, TypeOK, UsersRead

LEMMA StoreTypeTypes ==
    ASSUME TypeOK, NEW r \in Requests, NEW i \in Ids, NEW code \in Codes,
           StoreType(r, i, code)
    PROVE  /\ transportTypes' \in [Ids -> Codes \cup {Null}]
           /\ raced' \in SUBSET Requests
           /\ UNCHANGED <<users, tokens, items>>
BY DEF StoreType, TypeOK, TypesRead

LEMMA BeginTypes ==
    ASSUME TypeOK, NEW r \in Requests, NEW label \in PC,
           NEW body \in Dto \cup LoginDto \cup {Seeding},
           NEW token \in JwtPayload \cup {Null}, NEW roles \in SUBSET UserRole,
           Begin(r, label, body, token, roles),
           UNCHANGED <<transportTypes, items, loaded, differs>>
    PROVE  TypeOK'
BY DEF Begin, Goto, TypeOK

LEMMA AuthTypeStep ==
    ASSUME IInv, AuthNext, UNCHANGED <<transportTypes, items, loaded, differs>>
    PROVE  TypeOK'
<1>0. TypeOK BY DEF IInv
<1> USE <1>0, StatusIn DEF PC, AuthPC
<1>1. ASSUME NEW r \in Requests, Login(r) PROVE TypeOK'
  <2>1. PICK email \in Emails :
            Begin(r, "findByEmail", [kind |-> "login", email |-> email], Null,
                  ActiveRoles(Holders(email)))
    BY <1>1 DEF Login
  <2>2. [kind |-> "login", email |-> email] \in LoginDto
    BY DEF LoginDto
  <2>3. ActiveRoles(Holders(email)) \in SUBSET UserRole
    BY RolesAreRoles DEF Holders
  <2> QED BY <2>1, <2>2, <2>3, BeginTypes
<1>2. ASSUME NEW r \in Requests, Seed(r) PROVE TypeOK'
  BY <1>2, BeginTypes DEF Seed
<1>3. ASSUME NEW r \in Requests, validateUser(r) PROVE TypeOK'
  <2>1. CASE End(r, "401")
    BY <1>3, <2>1, EndTypes DEF validateUser, TypeOK
  <2>2. ASSUME NEW u \in Holders(call[r].email),
               payload' = [payload EXCEPT ![r] = [sub |-> u, role |-> users[u].role]],
               Goto(r, "compare"), UNCHANGED <<call, standing>>
        PROVE  TypeOK'
    <3>1. [sub |-> u, role |-> users[u].role] \in JwtPayload
      BY NullFacts DEF Holders, JwtPayload, User, TypeOK
    <3> QED BY <1>3, <2>2, <3>1 DEF validateUser, Goto, TypeOK
  <2> QED BY <1>3, <2>1, <2>2 DEF validateUser
<1>4. ASSUME NEW r \in Requests, login(r) PROVE TypeOK'
  <2>1. payload[r] \in JwtPayload
    BY <1>4 DEF login, IInv, RequestKnows
  <2> QED BY <1>4, <2>1, EndTypes DEF login, TypeOK
<1>5. ASSUME NEW r \in Requests, SeedFindByEmail(r) \/ CreateFindByEmail(r)
      PROVE  TypeOK'
  BY <1>5, EndTypes DEF SeedFindByEmail, CreateFindByEmail, Goto, TypeOK
<1>6. ASSUME NEW r \in Requests, InsertUser(r) PROVE TypeOK'
  <2>1. CASE End(r, "500") /\ UNCHANGED <<users, raced>>
    BY <1>6, <2>1, EndTypes DEF InsertUser, TypeOK
  <2> DEFINE row == [email |-> AdminEmail, role |-> "ADMIN", isActive |-> TRUE]
  <2>2. ASSUME NEW u \in UserIds, StoreUser(u, row), Goto(r, "201"),
               call' = [call EXCEPT ![r] = Null], UNCHANGED payload
        PROVE  TypeOK'
    <3>1. row \in User
      BY AdminAssumption DEF User, UserRole
    <3> QED BY <1>6, <2>2, <3>1, StoreUserTypes DEF InsertUser, Goto, TypeOK
  <2> QED BY <1>6, <2>1, <2>2 DEF InsertUser
<1>7. ASSUME NEW t \in tokens, Expire(t) PROVE TypeOK'
  BY <1>7 DEF Expire, authSlots, TypeOK
<1>8. ASSUME NEW u \in UserIds, NEW row \in User, Administer(u, row) PROVE TypeOK'
  BY <1>8, StoreUserTypes DEF Administer, TypeOK
<1> QED BY <1>1, <1>2, <1>3, <1>4, <1>5, <1>6, <1>7, <1>8
        DEF AuthNext, AuthReceive, AuthStep

LEMMA TypeStep == IInv /\ [Next]_vars => TypeOK'
<1> SUFFICES ASSUME IInv, [Next]_vars PROVE TypeOK'
  OBVIOUS
<1>0. TypeOK BY DEF IInv
<1> USE <1>0, StatusIn DEF tables, PC, AuthPC
<1>1. CASE AuthNext /\ UNCHANGED <<transportTypes, items, loaded, differs>>
  BY <1>1, AuthTypeStep
<1>2. ASSUME NEW r \in Requests, Receive(r),
             UNCHANGED <<transportTypes, items, loaded, differs>>
      PROVE  TypeOK'
  <2>1. PICK body \in Dto : JwtAuthGuard(r, body)
    BY <1>2 DEF Receive
  <2>2. CASE End(r, "401") /\ UNCHANGED <<users, tokens, raced>>
    BY <1>2, <2>2, EndTypes DEF TypeOK
  <2>3. ASSUME NEW t \in tokens,
               Begin(r, "validate", body, t, ActiveRoles({t.sub}))
        PROVE  TypeOK'
    <3>1. t \in JwtPayload /\ {t.sub} \in SUBSET UserIds
      BY DEF TypeOK, JwtPayload
    <3>2. ActiveRoles({t.sub}) \in SUBSET UserRole
      BY <3>1, RolesAreRoles
    <3> QED BY <1>2, <2>3, <3>1, <3>2, BeginTypes
  <2> QED BY <2>1, <2>2, <2>3 DEF JwtAuthGuard
<1>3. ASSUME NEW r \in Requests, Guard(r),
             UNCHANGED <<transportTypes, items, loaded, differs>>
      PROVE  TypeOK'
  <2>1. call[r] \in Dto /\ Handler(call[r].kind) \in PC
    BY <1>3, Bodies DEF Guard, IInv, RequestKnows, Handler
  <2>2. UNCHANGED <<users, tokens, raced>>
    BY <1>3 DEF Guard, validate
  <2>3. CASE End(r, "401") \/ End(r, "403")
    BY <1>3, <2>2, <2>3, EndTypes DEF TypeOK
  <2>4. CASE /\ Goto(r, Handler(call[r].kind))
             /\ payload' = [payload EXCEPT ![r] = Null]
             /\ standing' = [standing EXCEPT ![r] = {}]
             /\ UNCHANGED call
    BY <1>3, <2>1, <2>2, <2>4 DEF Goto, TypeOK
  <2> QED BY <1>3, <2>3, <2>4 DEF Guard, validate
<1>4. ASSUME NEW r \in Requests, Get(r) \/ Fail(r) PROVE TypeOK'
  BY <1>4, ReplyTypes DEF Get, Fail, TypeOK
<1>5. ASSUME NEW r \in Requests, FindOne(r) PROVE TypeOK'
  <2>1. call[r].id \in Ids
    BY <1>5, Bodies DEF FindOne, IInv, RequestKnows
  <2>2. CASE Reply(r, "404")
    BY <1>5, <2>2, ReplyTypes DEF FindOne, TypeOK
  <2>3. CASE ~Reply(r, "404")
    <3>1. /\ loaded' = [loaded EXCEPT ![r] = transportTypes[call[r].id]]
          /\ \/ Await(r, "assertCode")
             \/ Await(r, "reload")
          /\ UNCHANGED <<differs, tables, raced>>
      BY <1>5, <2>3 DEF FindOne
    <3> QED BY <2>1, <3>1, AwaitTypes DEF TypeOK
  <2> QED BY <2>2, <2>3
<1>6. ASSUME NEW r \in Requests, assertCodeAvailable(r) \/ FindSku(r) PROVE TypeOK'
  <2>1. CASE Reply(r, "409")
    BY <1>6, <2>1, ReplyTypes DEF assertCodeAvailable, FindSku, TypeOK
  <2>2. CASE ~Reply(r, "409")
    <3>1. /\ \/ Await(r, "insertType") \/ Await(r, "reload")
             \/ Await(r, "insertItem")
          /\ UNCHANGED <<loaded, differs, tables, raced>>
      BY <1>6, <2>2 DEF assertCodeAvailable, FindSku
    <3> QED BY <3>1, AwaitTypes DEF TypeOK
  <2> QED BY <2>1, <2>2
<1>7. ASSUME NEW r \in Requests, InsertType(r) PROVE TypeOK'
  <2>1. call[r].code \in Codes
    BY <1>7, Bodies DEF InsertType, IInv, RequestKnows
  <2>2. PICK i \in Ids :
          \/ StoreType(r, i, call[r].code) /\ Reply(r, "201")
          \/ Reply(r, "500") /\ UNCHANGED <<tables, raced>>
    BY <1>7 DEF InsertType
  <2> QED BY <2>1, <2>2, ReplyTypes, StoreTypeTypes DEF TypeOK
<1>8. ASSUME NEW r \in Requests, Reload(r) PROVE TypeOK'
  <2>1. differs' \in [Requests -> BOOLEAN]
    BY <1>8 DEF Reload, TypeOK
  <2> QED BY <1>8, <2>1, AwaitTypes DEF Reload, TypeOK
<1>9. ASSUME NEW r \in Requests, Write(r) PROVE TypeOK'
  <2>1. /\ call[r].id \in Ids
        /\ differs[r] => AssignedCode(r) \in Codes
    BY <1>9, Bodies DEF Write, IInv, RequestKnows, HoldsRow, AssignedCode
  <2>2. CASE Reply(r, "200") /\ UNCHANGED <<tables, raced>>
    BY <2>2, ReplyTypes DEF TypeOK
  <2>3. CASE Reply(r, "500") /\ UNCHANGED <<tables, raced>>
    BY <2>3, ReplyTypes DEF TypeOK
  <2>4. CASE differs[r] /\ StoreType(r, call[r].id, AssignedCode(r)) /\ Reply(r, "200")
    BY <2>1, <2>4, ReplyTypes, StoreTypeTypes DEF TypeOK
  <2> QED BY <1>9, <2>2, <2>3, <2>4 DEF Write
<1>10. ASSUME NEW r \in Requests, InsertItem(r) PROVE TypeOK'
  <2>1. call[r].sku \in Skus
    BY <1>10, Bodies DEF InsertItem, IInv, RequestKnows
  <2>2. PICK i \in Ids :
          \/ /\ items' = [items EXCEPT ![i] = call[r].sku]
             /\ raced' = raced \cup (ItemsRead \ {r})
             /\ Reply(r, "201")
             /\ UNCHANGED <<users, tokens, transportTypes>>
          \/ Reply(r, "500") /\ UNCHANGED <<tables, raced>>
    BY <1>10 DEF InsertItem
  <2>3. CASE Reply(r, "500") /\ UNCHANGED <<tables, raced>>
    BY <2>3, ReplyTypes DEF TypeOK
  <2>4. CASE /\ items' = [items EXCEPT ![i] = call[r].sku]
             /\ raced' = raced \cup (ItemsRead \ {r})
             /\ Reply(r, "201")
             /\ UNCHANGED <<users, tokens, transportTypes>>
    BY <2>1, <2>4, ReplyTypes DEF ItemsRead, TypeOK
  <2> QED BY <2>2, <2>3, <2>4
<1>11. CASE Crash
  BY <1>11 DEF Crash, TypeOK
<1>12. CASE UNCHANGED vars
  BY <1>12 DEF vars, authSlots, TypeOK
<1> QED BY <1>1, <1>2, <1>3, <1>4, <1>5, <1>6, <1>7, <1>8, <1>9, <1>10, <1>11, <1>12
        DEF Next, Handle

-----------------------------------------------------------------------------
(***************************************************************************)
(* What a request knows survives the steps of the others: a write to a     *)
(* table marks those that rely on having read it, and a change of a user   *)
(* is added to the standing of those that wait for it.                     *)
(***************************************************************************)
SameSlot(q) ==
    /\ pc'[q] = pc[q] /\ call'[q] = call[q] /\ payload'[q] = payload[q]
    /\ loaded'[q] = loaded[q] /\ differs'[q] = differs[q]

\* The standing of the user that q waits for.
Stands(q) ==
    /\ pc[q] = "validate" => ActiveRoles({payload[q].sub}) \subseteq standing[q]
    /\ pc[q] \in {"findByEmail", "compare"} =>
         ActiveRoles(Holders(call[q].email)) \subseteq standing[q]

Witnessed(q) ==
    /\ q \in raced => q \in raced'
    /\ standing[q] \subseteq standing'[q]
    /\ Stands(q)'
    /\ \A i \in Ids : transportTypes[i] # Null => transportTypes'[i] # Null
    /\ q \notin raced' =>
         /\ q \in UsersRead => Holders(AdminEmail)' = Holders(AdminEmail)
         /\ q \in TypesRead => transportTypes' = transportTypes
         /\ q \in ItemsRead => items' = items

LEMMA KnowledgeStays ==
    ASSUME NEW q \in Requests, RequestKnows(q), SameSlot(q), Witnessed(q)
    PROVE  RequestKnows(q)'
<1> USE DEF SameSlot, Witnessed
<1>1. pc[q] = "validate" => RequestKnows(q)'
  BY DEF RequestKnows, Stands
<1>2. pc[q] \in {"findByEmail", "compare"} => RequestKnows(q)'
  BY DEF RequestKnows, Stands
<1>3. pc[q] \in {"seedFindByEmail", "createFindByEmail", "insertUser"} =>
        RequestKnows(q)'
  BY DEF RequestKnows, UsersRead
<1>4. pc[q] \in {"get", "findOne", "findSku"} => RequestKnows(q)'
  BY DEF RequestKnows
<1>5. pc[q] = "assertCode" => RequestKnows(q)'
  BY Bodies DEF RequestKnows, TypesRead, HoldsRow
<1>6. pc[q] = "insertType" => RequestKnows(q)'
  BY DEF RequestKnows, TypesRead, CodeFree, OfType
<1>7. pc[q] \in {"reload", "write"} => RequestKnows(q)'
  BY Bodies DEF RequestKnows, TypesRead, HoldsRow, CodeFree, OfType, AssignedCode
<1>8. pc[q] = "insertItem" => RequestKnows(q)'
  BY DEF RequestKnows, ItemsRead, OfItem
<1>9. pc[q] \notin {"validate", "findByEmail", "compare", "seedFindByEmail",
                    "createFindByEmail", "insertUser", "get", "findOne", "findSku",
                    "assertCode", "insertType", "reload", "write", "insertItem"}
        => RequestKnows(q)'
  BY DEF RequestKnows
<1> QED BY <1>1, <1>2, <1>3, <1>4, <1>5, <1>6, <1>7, <1>8, <1>9

\* Nobody stores anything.
LEMMA TablesStay ==
    ASSUME NEW q \in Requests, RequestKnows(q), SameSlot(q),
           UNCHANGED <<users, transportTypes, items>>, standing'[q] = standing[q],
           q \in raced => q \in raced'
    PROVE  Witnessed(q)
<1>1. Stands(q) BY DEF RequestKnows, Stands
<1>2. Stands(q)' BY <1>1 DEF SameSlot, Stands, ActiveRoles, Holders
<1>3. Holders(AdminEmail)' = Holders(AdminEmail) BY DEF Holders
<1> QED BY <1>2, <1>3 DEF Witnessed

-----------------------------------------------------------------------------
(***************************************************************************)
(* The three ways to store.                                                *)
(***************************************************************************)
UniqueEmails ==
    \A u, v \in UserIds :
        users[u] # Null /\ users[v] # Null /\ users[u].email = users[v].email
            => u = v

UniqueCodes ==
    \A i, j \in Ids :
        transportTypes[i] # Null /\ transportTypes[i] = transportTypes[j] => i = j

UniqueSkus ==
    \A i, j \in Ids : items[i] # Null /\ items[i] = items[j] => i = j

LEMMA KeysSplit ==
    /\ UniqueKeys <=> UniqueEmails /\ UniqueCodes /\ UniqueSkus
    /\ UniqueKeys' <=> UniqueEmails' /\ UniqueCodes' /\ UniqueSkus'
BY DEF UniqueKeys, UniqueEmails, UniqueCodes, UniqueSkus

LEMMA KeysStay ==
    ASSUME UniqueKeys
    PROVE  /\ UNCHANGED users => UniqueEmails'
           /\ UNCHANGED transportTypes => UniqueCodes'
           /\ UNCHANGED items => UniqueSkus'
BY KeysSplit DEF UniqueEmails, UniqueCodes, UniqueSkus

LEMMA UserStored ==
    ASSUME TypeOK, UniqueKeys, NEW u \in UserIds, NEW row \in User,
           StoreUser(u, row), users[u] = Null \/ users[u].email = row.email,
           UniqueEmail(u, row.email), UNCHANGED <<transportTypes, items>>
    PROVE  /\ UniqueKeys'
           /\ \A q \in Requests : RequestKnows(q) /\ SameSlot(q) => Witnessed(q)
<1>1. /\ users'[u] = row /\ row # Null
      /\ \A v \in UserIds \ {u} : users'[v] = users[v]
  BY NullFacts DEF StoreUser, TypeOK
<1>2. ASSUME NEW e
      PROVE  Holders(e)' = IF e = row.email THEN Holders(e) \cup {u} ELSE Holders(e)
  BY <1>1 DEF Holders
<1>3. UniqueEmails'
  BY <1>1, KeysSplit DEF UniqueEmails, UniqueEmail, Holders
<1>4. UniqueKeys'
  BY <1>3, KeysStay, KeysSplit
<1>5. ASSUME NEW q \in Requests, RequestKnows(q), SameSlot(q) PROVE Witnessed(q)
  <2>1. /\ standing[q] \subseteq standing'[q]
        /\ q \in About(u, row.email) /\ row.isActive => row.role \in standing'[q]
    BY DEF StoreUser, TypeOK
  <2>2. ASSUME pc[q] = "validate"
        PROVE  ActiveRoles({payload[q].sub})' \subseteq standing'[q]
    <3>1. payload[q].sub \in UserIds /\ payload'[q] = payload[q]
      BY <2>2, <1>5 DEF RequestKnows, JwtPayload, SameSlot
    <3>2. ActiveRoles({payload[q].sub}) \subseteq standing[q]
      BY <2>2, <1>5 DEF RequestKnows
    <3>3. CASE payload[q].sub = u
      <4>1. q \in About(u, row.email)
        BY <2>2, <3>3 DEF About
      <4> QED BY <1>1, <2>1, <3>1, <3>3, <4>1 DEF ActiveRoles
    <3>4. CASE payload[q].sub # u
      BY <1>1, <2>1, <3>1, <3>2, <3>4 DEF ActiveRoles
    <3> QED BY <3>3, <3>4
  <2>3. ASSUME pc[q] \in {"findByEmail", "compare"}
        PROVE  ActiveRoles(Holders(call[q].email))' \subseteq standing'[q]
    <3>1. ActiveRoles(Holders(call[q].email)) \subseteq standing[q]
          /\ call'[q] = call[q]
      BY <2>3, <1>5 DEF RequestKnows, SameSlot
    <3>2. SUFFICES ASSUME NEW v \in Holders(call[q].email)', users'[v] # Null,
                          users'[v].isActive
                   PROVE  users'[v].role \in standing'[q]
      BY DEF ActiveRoles
    <3>3. CASE v = u
      <4>1. call[q].email = row.email
        BY <1>1, <3>1, <3>2, <3>3 DEF Holders
      <4>2. q \in About(u, row.email)
        BY <2>3, <4>1 DEF About
      <4> QED BY <1>1, <2>1, <3>2, <3>3, <4>2
    <3>4. CASE v # u
      <4>1. v \in UserIds /\ users'[v] = users[v] /\ v \in Holders(call[q].email)
        BY <1>1, <3>1, <3>2, <3>4 DEF Holders
      <4> QED BY <2>1, <3>1, <3>2, <4>1 DEF ActiveRoles
    <3> QED BY <3>3, <3>4
  <2>4. q \in UsersRead => q \in raced'
    BY DEF StoreUser
  <2>5. q \in raced => q \in raced'
    BY DEF StoreUser
  <2>6. Stands(q)'
    BY <2>2, <2>3, <1>5 DEF Stands, SameSlot
  <2> QED BY <2>1, <2>4, <2>5, <2>6 DEF Witnessed
<1> QED BY <1>4, <1>5

LEMMA TypeStored ==
    ASSUME TypeOK, UniqueKeys, NEW r \in Requests, NEW i \in Ids, NEW code \in Codes,
           StoreType(r, i, code), UniqueCode(i, code), standing' \in [Requests -> SUBSET UserRole]
    PROVE  /\ UniqueKeys'
           /\ \A q \in Requests \ {r} :
                RequestKnows(q) /\ SameSlot(q) /\ standing'[q] = standing[q]
                    => Witnessed(q)
<1>1. /\ transportTypes'[i] = code /\ code # Null
      /\ \A j \in Ids \ {i} : transportTypes'[j] = transportTypes[j]
      /\ raced' = raced \cup (TypesRead \ {r})
      /\ UNCHANGED <<users, tokens, items>>
  BY NullFacts DEF StoreType, TypeOK
<1>2. UniqueCodes'
  BY <1>1, KeysSplit DEF UniqueCodes, UniqueCode, OfType
<1>3. UniqueKeys'
  BY <1>1, <1>2, KeysStay, KeysSplit
<1>4. ASSUME NEW q \in Requests \ {r}, RequestKnows(q), SameSlot(q),
             standing'[q] = standing[q]
      PROVE  Witnessed(q)
  <2>1. Stands(q) BY <1>4 DEF RequestKnows, Stands
  <2>2. Stands(q)' BY <1>1, <1>4, <2>1 DEF SameSlot, Stands, ActiveRoles, Holders
  <2>3. Holders(AdminEmail)' = Holders(AdminEmail) BY <1>1 DEF Holders
  <2> QED BY <1>1, <1>4, <2>2, <2>3 DEF Witnessed
<1> QED BY <1>3, <1>4

LEMMA ItemStored ==
    ASSUME TypeOK, UniqueKeys, NEW r \in Requests, NEW i \in Ids, NEW sku \in Skus,
           items' = [items EXCEPT ![i] = sku], UniqueSku(sku),
           raced' = raced \cup (ItemsRead \ {r}),
           UNCHANGED <<users, tokens, transportTypes>>
    PROVE  /\ UniqueKeys'
           /\ \A q \in Requests \ {r} :
                RequestKnows(q) /\ SameSlot(q) /\ standing'[q] = standing[q]
                    => Witnessed(q)
<1>1. /\ items'[i] = sku /\ \A j \in Ids \ {i} : items'[j] = items[j]
  BY DEF TypeOK
<1>2. UniqueSkus'
  BY <1>1, KeysSplit DEF UniqueSkus, UniqueSku, OfItem
<1>3. UniqueKeys'
  BY <1>2, KeysStay, KeysSplit
<1>4. ASSUME NEW q \in Requests \ {r}, RequestKnows(q), SameSlot(q),
             standing'[q] = standing[q]
      PROVE  Witnessed(q)
  <2>1. Stands(q) BY <1>4 DEF RequestKnows, Stands
  <2>2. Stands(q)' BY <1>4, <2>1 DEF SameSlot, Stands, ActiveRoles, Holders
  <2>3. Holders(AdminEmail)' = Holders(AdminEmail) BY DEF Holders
  <2> QED BY <1>4, <2>2, <2>3 DEF Witnessed
<1> QED BY <1>3, <1>4

-----------------------------------------------------------------------------
(***************************************************************************)
(* The steps of a request that store nothing.                              *)
(***************************************************************************)
Known == UniqueKeys /\ \A q \in Requests : RequestKnows(q)

Frame(r) ==
    \A q \in Requests \ {r} : SameSlot(q) /\ standing'[q] = standing[q]

LEMMA MoveKnown ==
    ASSUME IInv, NEW r \in Requests, Frame(r), RequestKnows(r)',
           UNCHANGED <<users, transportTypes, items>>,
           \A q \in Requests \ {r} : q \in raced => q \in raced'
    PROVE  Known'
<1>1. UniqueKeys'
  BY KeysStay, KeysSplit DEF IInv
<1>2. ASSUME NEW q \in Requests \ {r} PROVE RequestKnows(q)'
  <2>1. Witnessed(q) BY TablesStay DEF IInv, Frame
  <2> QED BY <2>1, KnowledgeStays DEF IInv, Frame
<1> QED BY <1>1, <1>2 DEF Known

LEMMA AnsweredKnows ==
    ASSUME NEW r \in Requests, pc'[r] \in Status \cup {"idle"}
    PROVE  RequestKnows(r)'
BY DEF RequestKnows, Status

LEMMA EndFrame ==
    ASSUME TypeOK, NEW r \in Requests, NEW status \in Status, End(r, status),
           UNCHANGED <<loaded, differs>>
    PROVE  Frame(r) /\ pc'[r] = status
BY DEF TypeOK, End, Goto, Frame, SameSlot

LEMMA ReplyFrame ==
    ASSUME TypeOK, NEW r \in Requests, NEW status \in Status, Reply(r, status)
    PROVE  Frame(r) /\ pc'[r] = status
BY DEF TypeOK, Reply, End, Goto, Frame, SameSlot

LEMMA EndKnown ==
    ASSUME IInv, NEW r \in Requests, NEW status \in Status,
           (End(r, status) /\ UNCHANGED <<loaded, differs>>) \/ Reply(r, status),
           UNCHANGED <<users, transportTypes, items, raced>>
    PROVE  Known'
BY EndFrame, ReplyFrame, AnsweredKnows, MoveKnown DEF IInv

LEMMA BeginKnown ==
    ASSUME IInv, NEW r \in Requests, NEW label, NEW body, NEW token, NEW roles,
           Begin(r, label, body, token, roles), RequestKnows(r)',
           UNCHANGED <<transportTypes, items, loaded, differs>>
    PROVE  Known'
<1>1. Frame(r) BY DEF IInv, TypeOK, Begin, Goto, Frame, SameSlot
<1> QED BY <1>1, MoveKnown DEF Begin

LEMMA AwaitFrame ==
    ASSUME TypeOK, NEW r \in Requests, NEW label, Await(r, label),
           \A q \in Requests \ {r} : loaded'[q] = loaded[q] /\ differs'[q] = differs[q]
    PROVE  /\ Frame(r) /\ pc'[r] = label /\ call'[r] = call[r]
           /\ payload'[r] = payload[r] /\ standing'[r] = standing[r]
BY DEF TypeOK, Await, Goto, Frame, SameSlot

-----------------------------------------------------------------------------
(***************************************************************************)
(* What a request knows after each step of its own.                        *)
(***************************************************************************)
LEMMA AuthKnown ==
    ASSUME IInv, AuthNext, UNCHANGED <<transportTypes, items, loaded, differs>>
    PROVE  Known'
<1>0. TypeOK /\ UniqueKeys /\ \A q \in Requests : RequestKnows(q)
  BY DEF IInv
<1> USE StatusIn
<1>1. ASSUME NEW r \in Requests, Login(r) PROVE Known'
  <2>1. PICK email \in Emails :
            Begin(r, "findByEmail", [kind |-> "login", email |-> email], Null,
                  ActiveRoles(Holders(email)))
    BY <1>1 DEF Login
  <2>2. /\ pc'[r] = "findByEmail" /\ call'[r] = [kind |-> "login", email |-> email]
        /\ standing'[r] = ActiveRoles(Holders(email)) /\ users' = users
    BY <1>0, <2>1 DEF Begin, Goto, TypeOK
  <2>3. ActiveRoles(Holders(email))' = ActiveRoles(Holders(email))
    BY <2>2 DEF ActiveRoles, Holders
  <2>4. call'[r] \in LoginDto /\ call'[r].email = email
    BY <2>2 DEF LoginDto
  <2>5. ActiveRoles(Holders(call[r].email))' \subseteq standing'[r]
    BY <2>2, <2>4 DEF ActiveRoles, Holders
  <2>6. RequestKnows(r)'
    BY <2>2, <2>4, <2>5 DEF RequestKnows
  <2> QED BY <2>1, <2>6, BeginKnown
<1>2. ASSUME NEW r \in Requests, Seed(r) PROVE Known'
  <2>1. pc'[r] = "seedFindByEmail" /\ call'[r] = Seeding
    BY <1>0, <1>2 DEF Seed, Begin, Goto, TypeOK
  <2>2. RequestKnows(r)'
    BY <2>1 DEF RequestKnows
  <2> QED BY <1>2, <2>2, BeginKnown DEF Seed
<1>3. ASSUME NEW r \in Requests, validateUser(r) PROVE Known'
  <2>1. CASE End(r, "401")
    BY <1>3, <2>1, EndKnown DEF validateUser
  <2>2. ASSUME NEW u \in Holders(call[r].email), users[u].isActive,
               payload' = [payload EXCEPT ![r] = [sub |-> u, role |-> users[u].role]],
               Goto(r, "compare"), UNCHANGED <<call, standing>>
        PROVE  Known'
    <3>1. Frame(r) /\ pc'[r] = "compare" /\ call'[r] = call[r]
          /\ standing'[r] = standing[r]
          /\ payload'[r] = [sub |-> u, role |-> users[u].role]
      BY <1>0, <2>2 DEF Frame, SameSlot, Goto, TypeOK
    <3>2. UNCHANGED <<users, tokens, raced>>
      BY <1>3 DEF validateUser
    <3>3. /\ call[r] \in LoginDto
          /\ ActiveRoles(Holders(call[r].email)) \subseteq standing[r]
      BY <1>0, <1>3 DEF validateUser, RequestKnows
    <3>4. ActiveRoles(Holders(call[r].email))' \subseteq standing'[r]
      BY <3>1, <3>2, <3>3 DEF ActiveRoles, Holders
    <3>5. payload'[r] \in JwtPayload /\ payload'[r].role = users[u].role
      BY <1>0, <3>1, NullFacts DEF Holders, JwtPayload, User, TypeOK
    <3>6. users[u].role \in ActiveRoles(Holders(call[r].email))
      BY <2>2 DEF ActiveRoles, Holders
    <3>7. RequestKnows(r)'
      BY <3>1, <3>3, <3>4, <3>5, <3>6 DEF RequestKnows
    <3> QED BY <3>1, <3>2, <3>7, MoveKnown
  <2> QED BY <1>3, <2>1, <2>2 DEF validateUser
<1>4. ASSUME NEW r \in Requests, login(r) PROVE Known'
  BY <1>4, EndKnown DEF login
<1>5. ASSUME NEW r \in Requests, SeedFindByEmail(r) PROVE Known'
  <2>1. CASE End(r, "200")
    BY <1>5, <2>1, EndKnown DEF SeedFindByEmail
  <2>2. CASE /\ Holders(AdminEmail) = {}
             /\ Goto(r, "createFindByEmail") /\ UNCHANGED <<call, payload, standing>>
    <3>1. Frame(r) /\ pc'[r] = "createFindByEmail" /\ call'[r] = call[r]
      BY <1>0, <2>2 DEF Frame, SameSlot, Goto, TypeOK
    <3>2. call[r] = Seeding /\ UNCHANGED <<users, tokens, raced>>
      BY <1>0, <1>5 DEF SeedFindByEmail, RequestKnows
    <3>3. RequestKnows(r)'
      BY <2>2, <3>1, <3>2 DEF RequestKnows, Holders
    <3> QED BY <3>1, <3>2, <3>3, MoveKnown
  <2> QED BY <1>5, <2>1, <2>2 DEF SeedFindByEmail
<1>6. ASSUME NEW r \in Requests, CreateFindByEmail(r) PROVE Known'
  <2>1. CASE End(r, "409")
    BY <1>6, <2>1, EndKnown DEF CreateFindByEmail
  <2>2. CASE /\ Holders(AdminEmail) = {}
             /\ Goto(r, "insertUser") /\ UNCHANGED <<call, payload, standing>>
    <3>1. Frame(r) /\ pc'[r] = "insertUser" /\ call'[r] = call[r]
      BY <1>0, <2>2 DEF Frame, SameSlot, Goto, TypeOK
    <3>2. call[r] = Seeding /\ UNCHANGED <<users, tokens, raced>>
      BY <1>0, <1>6 DEF CreateFindByEmail, RequestKnows
    <3>3. RequestKnows(r)'
      BY <2>2, <3>1, <3>2 DEF RequestKnows, Holders
    <3> QED BY <3>1, <3>2, <3>3, MoveKnown
  <2> QED BY <1>6, <2>1, <2>2 DEF CreateFindByEmail
<1>7. ASSUME NEW r \in Requests, InsertUser(r) PROVE Known'
  <2>1. CASE End(r, "500") /\ UNCHANGED <<users, raced>>
    BY <1>7, <2>1, EndKnown DEF InsertUser
  <2> DEFINE row == [email |-> AdminEmail, role |-> "ADMIN", isActive |-> TRUE]
  <2>2. ASSUME NEW u \in UserIds, users[u] = Null, UniqueEmail(u, AdminEmail),
               StoreUser(u, row), Goto(r, "201"),
               call' = [call EXCEPT ![r] = Null], UNCHANGED payload
        PROVE  Known'
    <3>1. row \in User /\ row.email = AdminEmail
      BY AdminAssumption DEF User, UserRole
    <3>2. pc'[r] = "201" /\ \A q \in Requests \ {r} : SameSlot(q)
      BY <1>0, <2>2 DEF SameSlot, Goto, TypeOK
    <3>3. /\ UniqueKeys'
          /\ \A q \in Requests : RequestKnows(q) /\ SameSlot(q) => Witnessed(q)
      <4> HIDE DEF row
      <4> QED BY <1>0, <2>2, <3>1, UserStored
    <3>4. RequestKnows(r)'
      BY <3>2, AnsweredKnows
    <3> QED BY <1>0, <3>2, <3>3, <3>4, KnowledgeStays DEF Known
  <2> QED BY <1>7, <2>1, <2>2 DEF InsertUser
<1>8. ASSUME NEW t \in tokens, Expire(t) PROVE Known'
  <2>1. \A q \in Requests : SameSlot(q) /\ Witnessed(q)
    BY <1>0, <1>8, TablesStay DEF Expire, authSlots, SameSlot
  <2>2. UniqueKeys'
    BY <1>0, <1>8, KeysStay, KeysSplit DEF Expire
  <2> QED BY <1>0, <2>1, <2>2, KnowledgeStays DEF Known
<1>9. ASSUME NEW u \in UserIds, NEW row \in User, Administer(u, row) PROVE Known'
  <2>1. /\ UniqueKeys'
        /\ \A q \in Requests : RequestKnows(q) /\ SameSlot(q) => Witnessed(q)
    BY <1>0, <1>9, UserStored DEF Administer
  <2>2. \A q \in Requests : SameSlot(q)
    BY <1>9 DEF Administer, SameSlot
  <2> QED BY <1>0, <2>1, <2>2, KnowledgeStays DEF Known
<1> QED BY <1>1, <1>2, <1>3, <1>4, <1>5, <1>6, <1>7, <1>8, <1>9
        DEF AuthNext, AuthReceive, AuthStep

LEMMA GuardKnown ==
    ASSUME IInv, NEW r \in Requests, Guard(r),
           UNCHANGED <<transportTypes, items, loaded, differs>>
    PROVE  Known'
<1>0. TypeOK /\ \A q \in Requests : RequestKnows(q)
  BY DEF IInv
<1>1. pc[r] = "validate" /\ call[r] \in Dto
  BY <1>0 DEF Guard, RequestKnows
<1>2. UNCHANGED <<users, tokens, raced>>
  BY DEF Guard, validate
<1>3. CASE End(r, "401") \/ End(r, "403")
  BY <1>2, <1>3, EndKnown, StatusIn
<1>4. CASE /\ Goto(r, Handler(call[r].kind))
           /\ payload' = [payload EXCEPT ![r] = Null]
           /\ standing' = [standing EXCEPT ![r] = {}]
           /\ UNCHANGED call
  <2>1. Frame(r) /\ pc'[r] = Handler(call[r].kind) /\ call'[r] = call[r]
    BY <1>0, <1>4 DEF Frame, SameSlot, Goto, TypeOK
  <2>2. \/ call[r] \in CreateTransportTypeDto /\ pc'[r] = "assertCode"
        \/ call[r] \in UpdateTransportTypeDto /\ pc'[r] = "findOne"
        \/ call[r] \in FindTransportType /\ pc'[r] = "get"
        \/ call[r] \in CreateItemDto /\ pc'[r] = "findSku"
    BY <1>1, <2>1, Bodies DEF Handler
  <2>3. RequestKnows(r)'
    BY <2>1, <2>2 DEF RequestKnows
  <2> QED BY <1>2, <2>1, <2>3, MoveKnown
<1> QED BY <1>3, <1>4 DEF Guard, validate

LEMMA ReceiveKnown ==
    ASSUME IInv, NEW r \in Requests, Receive(r),
           UNCHANGED <<transportTypes, items, loaded, differs>>
    PROVE  Known'
<1>0. TypeOK BY DEF IInv
<1>1. PICK body \in Dto : JwtAuthGuard(r, body)
  BY DEF Receive
<1>2. CASE End(r, "401") /\ UNCHANGED <<users, tokens, raced>>
  BY <1>2, EndKnown, StatusIn
<1>3. ASSUME NEW t \in tokens, Begin(r, "validate", body, t, ActiveRoles({t.sub}))
      PROVE  Known'
  <2>1. /\ pc'[r] = "validate" /\ call'[r] = body /\ payload'[r] = t
        /\ standing'[r] = ActiveRoles({t.sub}) /\ users' = users
    BY <1>0, <1>3 DEF Begin, Goto, TypeOK
  <2>2. ActiveRoles({payload[r].sub})' \subseteq standing'[r]
    BY <2>1 DEF ActiveRoles
  <2>3. t \in JwtPayload
    BY <1>0 DEF TypeOK
  <2>4. RequestKnows(r)'
    BY <2>1, <2>2, <2>3 DEF RequestKnows
  <2> QED BY <1>3, <2>4, BeginKnown
<1> QED BY <1>1, <1>2, <1>3 DEF JwtAuthGuard

\* The steps of the handlers that read.
LEMMA ReadKnown ==
    ASSUME IInv, NEW r \in Requests,
           FindOne(r) \/ assertCodeAvailable(r) \/ Reload(r) \/ FindSku(r)
    PROVE  Known'
<1>0. TypeOK /\ RequestKnows(r)
  BY DEF IInv
<1> USE StatusIn
<1>1. UNCHANGED <<users, transportTypes, items, raced>>
  BY DEF FindOne, assertCodeAvailable, Reload, FindSku, tables
<1>2. CASE FindOne(r) /\ ~Reply(r, "404")
  <2>1. call[r] \in UpdateTransportTypeDto
    BY <1>0, <1>2 DEF FindOne, RequestKnows
  <2> DEFINE code == transportTypes[call[r].id]
  <2>2. /\ code # Null /\ loaded' = [loaded EXCEPT ![r] = code] /\ differs' = differs
        /\ \/ NewCode(r, code) /\ Await(r, "assertCode")
           \/ ~NewCode(r, code) /\ Await(r, "reload")
    BY <1>2 DEF FindOne
  <2>3. /\ Frame(r) /\ call'[r] = call[r] /\ loaded'[r] = code
        /\ \/ NewCode(r, code) /\ pc'[r] = "assertCode"
           \/ ~NewCode(r, code) /\ pc'[r] = "reload"
    BY <1>0, <2>2, AwaitFrame DEF TypeOK
  <2>4. HoldsRow(r)'
    BY <1>1, <2>1, <2>2, <2>3 DEF HoldsRow
  <2>5. RequestKnows(r)'
    BY <2>3, <2>4 DEF RequestKnows, NewCode
  <2> QED BY <1>1, <2>3, <2>5, MoveKnown
<1>3. CASE assertCodeAvailable(r) /\ ~Reply(r, "409")
  <2>1. /\ OfType(call[r].code) = {} /\ UNCHANGED <<loaded, differs>>
        /\ \/ call[r].kind = "createTransportType" /\ Await(r, "insertType")
           \/ call[r].kind # "createTransportType" /\ Await(r, "reload")
    BY <1>3 DEF assertCodeAvailable
  <2>2. /\ Frame(r) /\ call'[r] = call[r] /\ loaded'[r] = loaded[r]
        /\ \/ call[r].kind = "createTransportType" /\ pc'[r] = "insertType"
           \/ call[r].kind # "createTransportType" /\ pc'[r] = "reload"
    BY <1>0, <2>1, AwaitFrame
  <2>3. CodeFree(r)'
    BY <1>1, <2>1, <2>2 DEF CodeFree, OfType
  <2>4. CASE call[r] \in CreateTransportTypeDto
    <3>1. pc'[r] = "insertType" BY <2>2, <2>4, Bodies
    <3> QED BY <1>1, <2>2, <2>3, <2>4, <3>1, MoveKnown DEF RequestKnows
  <2>5. CASE HoldsRow(r)
    <3>1. pc'[r] = "reload" BY <2>2, <2>5, Bodies DEF HoldsRow
    <3>2. HoldsRow(r)' BY <1>1, <2>2, <2>5 DEF HoldsRow
    <3> QED BY <1>1, <2>2, <2>3, <3>1, <3>2, MoveKnown DEF RequestKnows
  <2> QED BY <1>0, <1>3, <2>4, <2>5 DEF assertCodeAvailable, RequestKnows
<1>4. CASE Reload(r)
  <2>1. /\ Frame(r) /\ pc'[r] = "write" /\ call'[r] = call[r] /\ loaded'[r] = loaded[r]
        /\ differs'[r] = (AssignedCode(r) \notin {Null, transportTypes[call[r].id]})
    BY <1>0, <1>4, AwaitFrame DEF Reload, TypeOK
  <2>2. HoldsRow(r) /\ (CodeFree(r) \/ call[r].code \in {Null, loaded[r]})
    BY <1>0, <1>4 DEF Reload, RequestKnows
  <2>3. HoldsRow(r)' /\ (CodeFree(r)' \/ call'[r].code \in {Null, loaded'[r]})
    BY <1>1, <2>1, <2>2 DEF HoldsRow, CodeFree, OfType
  <2>4. /\ differs'[r] => AssignedCode(r)' # Null
        /\ r \notin raced' => differs'[r] = (AssignedCode(r)' \notin {Null, loaded'[r]})
    BY <1>1, <2>1, <2>2 DEF HoldsRow, AssignedCode
  <2>5. RequestKnows(r)'
    BY <2>1, <2>3, <2>4 DEF RequestKnows
  <2> QED BY <1>1, <2>1, <2>5, MoveKnown
<1>5. CASE FindSku(r) /\ ~Reply(r, "409")
  <2>1. /\ OfItem(call[r].sku) = {} /\ Await(r, "insertItem")
        /\ UNCHANGED <<loaded, differs>>
    BY <1>5 DEF FindSku
  <2>2. Frame(r) /\ pc'[r] = "insertItem" /\ call'[r] = call[r]
    BY <1>0, <2>1, AwaitFrame
  <2>3. call[r] \in CreateItemDto
    BY <1>0, <1>5 DEF FindSku, RequestKnows
  <2>4. RequestKnows(r)'
    BY <1>1, <2>1, <2>2, <2>3 DEF RequestKnows, OfItem
  <2> QED BY <1>1, <2>2, <2>4, MoveKnown
<1>6. CASE Reply(r, "404") \/ Reply(r, "409")
  BY <1>1, <1>6, EndKnown
<1> QED BY <1>2, <1>3, <1>4, <1>5, <1>6

\* The steps of the handlers that write.
LEMMA WriteKnown ==
    ASSUME IInv, NEW r \in Requests, InsertType(r) \/ Write(r) \/ InsertItem(r)
    PROVE  Known'
<1>0. TypeOK /\ UniqueKeys /\ RequestKnows(r) /\ \A q \in Requests : RequestKnows(q)
  BY DEF IInv
<1> USE StatusIn
<1>1. ASSUME NEW i \in Ids, NEW code \in Codes, NEW status \in Status,
             StoreType(r, i, code), UniqueCode(i, code), Reply(r, status)
      PROVE  Known'
  <2>1. Frame(r) /\ pc'[r] = status /\ standing' \in [Requests -> SUBSET UserRole]
    BY <1>0, <1>1, ReplyFrame, ReplyTypes
  <2>2. /\ UniqueKeys'
        /\ \A q \in Requests \ {r} :
             RequestKnows(q) /\ SameSlot(q) /\ standing'[q] = standing[q]
                 => Witnessed(q)
    BY <1>0, <1>1, <2>1, TypeStored
  <2>3. \A q \in Requests \ {r} : RequestKnows(q)'
    BY <1>0, <2>1, <2>2, KnowledgeStays DEF Frame
  <2>4. RequestKnows(r)'
    BY <2>1, AnsweredKnows
  <2> QED BY <2>2, <2>3, <2>4 DEF Known
<1>2. CASE \E status \in Status : Reply(r, status) /\ UNCHANGED <<tables, raced>>
  BY <1>2, EndKnown DEF tables
<1>3. CASE InsertType(r)
  <2>1. call[r].code \in Codes
    BY <1>0, <1>3, Bodies DEF InsertType, RequestKnows
  <2> QED BY <1>1, <1>2, <1>3, <2>1 DEF InsertType
<1>4. CASE Write(r)
  <2>1. call[r].id \in Ids /\ (differs[r] => AssignedCode(r) \in Codes)
    BY <1>0, <1>4, Bodies DEF Write, RequestKnows, HoldsRow, AssignedCode
  <2> QED BY <1>1, <1>2, <1>4, <2>1 DEF Write
<1>5. CASE InsertItem(r)
  <2>1. call[r].sku \in Skus
    BY <1>0, <1>5, Bodies DEF InsertItem, RequestKnows
  <2>2. ASSUME NEW i \in Ids, UniqueSku(call[r].sku),
               items' = [items EXCEPT ![i] = call[r].sku],
               raced' = raced \cup (ItemsRead \ {r}), Reply(r, "201"),
               UNCHANGED <<users, tokens, transportTypes>>
        PROVE  Known'
    <3>1. Frame(r) /\ pc'[r] = "201"
      BY <1>0, <2>2, ReplyFrame
    <3>2. /\ UniqueKeys'
          /\ \A q \in Requests \ {r} :
               RequestKnows(q) /\ SameSlot(q) /\ standing'[q] = standing[q]
                   => Witnessed(q)
      BY <1>0, <2>1, <2>2, ItemStored
    <3>3. \A q \in Requests \ {r} : RequestKnows(q)'
      BY <1>0, <3>1, <3>2, KnowledgeStays DEF Frame
    <3>4. RequestKnows(r)'
      BY <3>1, AnsweredKnows
    <3> QED BY <3>2, <3>3, <3>4 DEF Known
  <2> QED BY <1>2, <1>5, <2>2 DEF InsertItem
<1> QED BY <1>3, <1>4, <1>5

-----------------------------------------------------------------------------
(***************************************************************************)
(* The inductive invariant.                                                *)
(***************************************************************************)
LEMMA InvInit == Init => IInv
<1> SUFFICES ASSUME Init PROVE IInv
  OBVIOUS
<1>1. TypeOK BY TypeInit
<1>2. UniqueKeys BY DEF Init, AuthInit, UniqueKeys
<1>3. \A r \in Requests : RequestKnows(r)
  BY DEF Init, AuthInit, RequestKnows
<1> QED BY <1>1, <1>2, <1>3 DEF IInv

LEMMA InvStep == IInv /\ [Next]_vars => IInv'
<1> SUFFICES ASSUME IInv, [Next]_vars PROVE IInv'
  OBVIOUS
<1>1. SUFFICES Known'
  BY TypeStep DEF IInv, Known
<1>2. ASSUME NEW r \in Requests, Handle(r) PROVE Known'
  <2>1. CASE Get(r)
    BY <2>1, EndKnown, StatusIn DEF Get, tables
  <2> QED BY <1>2, <2>1, ReadKnown, WriteKnown DEF Handle
<1>3. ASSUME NEW r \in Requests, Fail(r) PROVE Known'
  BY <1>3, EndKnown, StatusIn DEF Fail, tables
<1>4. CASE Crash
  <2>1. \A r \in Requests : RequestKnows(r)'
    BY <1>4, AnsweredKnows DEF Crash
  <2>2. UniqueKeys'
    BY <1>4, KeysStay, KeysSplit DEF IInv, Crash, tables
  <2> QED BY <2>1, <2>2 DEF Known
<1>5. CASE AuthNext /\ UNCHANGED <<transportTypes, items, loaded, differs>>
  BY <1>5, AuthKnown
<1>6. ASSUME NEW r \in Requests, Receive(r) \/ Guard(r),
             UNCHANGED <<transportTypes, items, loaded, differs>>
      PROVE  Known'
  BY <1>6, ReceiveKnown, GuardKnown
<1>7. CASE UNCHANGED vars
  <2>1. UniqueKeys'
    BY <1>7, KeysStay, KeysSplit DEF IInv, vars, tables
  <2>2. ASSUME NEW r \in Requests PROVE RequestKnows(r)'
    <3>1. SameSlot(r) /\ Witnessed(r)
      BY <1>7, TablesStay DEF IInv, vars, tables, authSlots, SameSlot
    <3> QED BY <3>1, KnowledgeStays DEF IInv
  <2> QED BY <2>1, <2>2 DEF Known
<1> QED BY <1>2, <1>3, <1>4, <1>5, <1>6, <1>7 DEF Next

(***************************************************************************)
(* In every reachable state the types are right, the keys are unique, and  *)
(* a request relies only on what still stands, or is marked as raced.      *)
(***************************************************************************)
THEOREM Invariance == Spec => []IInv
BY InvInit, InvStep, PTL DEF Spec

(***************************************************************************)
(* E-mails, codes and skus stay unique: UsersService.create,               *)
(* TransportTypesService and ItemsService look before they write, and the  *)
(* constraints stop what slips between.                                    *)
(***************************************************************************)
THEOREM KeysAreUnique == Spec => []UniqueKeys
<1>1. IInv => UniqueKeys BY DEF IInv
<1> QED BY <1>1, Invariance, PTL

-----------------------------------------------------------------------------
(***************************************************************************)
(* Which step ends a request: one of its own.                              *)
(***************************************************************************)
Still(r) == \A q \in Requests \ {r} : pc'[q] = pc[q]

LEMMA OnlyOwnSlot ==
    ASSUME TypeOK, NEW r \in Requests,
           AuthReceive(r) \/ AuthStep(r) \/ Receive(r) \/ Guard(r)
             \/ Handle(r) \/ Fail(r)
    PROVE  Still(r)
<1>1. ASSUME NEW label, Goto(r, label) PROVE Still(r)
  BY <1>1 DEF Goto, Still, TypeOK
<1>2. ASSUME NEW status, End(r, status) PROVE Still(r)
  BY <1>1, <1>2 DEF End
<1>3. ASSUME NEW status, Reply(r, status) PROVE Still(r)
  BY <1>2, <1>3 DEF Reply
<1>4. ASSUME NEW label, Await(r, label) PROVE Still(r)
  BY <1>1, <1>4 DEF Await
<1>5. ASSUME NEW label, NEW body, NEW token, NEW roles,
             Begin(r, label, body, token, roles)
      PROVE  Still(r)
  BY <1>1, <1>5 DEF Begin
<1>6. CASE AuthReceive(r)
  BY <1>1, <1>2, <1>3, <1>4, <1>5, <1>6
     DEF AuthReceive, Login, Seed
<1>7. CASE AuthStep(r)
  BY <1>1, <1>2, <1>3, <1>4, <1>5, <1>7
     DEF AuthStep, validateUser, login, SeedFindByEmail, CreateFindByEmail,
              InsertUser
<1>8. CASE Receive(r)
  BY <1>1, <1>2, <1>3, <1>4, <1>5, <1>8
     DEF Receive, JwtAuthGuard
<1>9. CASE Guard(r)
  BY <1>1, <1>2, <1>3, <1>4, <1>5, <1>9
     DEF Guard, validate
<1>10. CASE Handle(r) \/ Fail(r)
  BY <1>1, <1>2, <1>3, <1>4, <1>5, <1>10
     DEF Handle, Fail, Get, FindOne, assertCodeAvailable, InsertType, Reload,
               Write, FindSku, InsertItem
<1> QED BY <1>6, <1>7, <1>8, <1>9, <1>10

LEMMA OwnStep ==
    ASSUME TypeOK, [Next]_vars, NEW r \in Requests,
           ~Free(r), pc'[r] \notin {pc[r], "idle"}
    PROVE  \/ Handle(r) \/ Fail(r)
           \/ /\ AuthStep(r) \/ Guard(r)
              /\ UNCHANGED <<transportTypes, items, loaded, differs>>
<1>1. ASSUME NEW q \in Requests, Still(q) PROVE q = r
  BY <1>1 DEF Still
<1>2. ASSUME NEW q \in Requests, AuthReceive(q) \/ Receive(q) PROVE FALSE
  <2>1. Free(q)
    BY <1>2 DEF AuthReceive, Login, Seed, Begin, Receive, JwtAuthGuard
  <2> QED BY <1>1, <1>2, <2>1, OnlyOwnSlot
<1>3. CASE Crash \/ UNCHANGED vars
  BY <1>3 DEF Crash, vars, authSlots
<1>4. ASSUME NEW t \in tokens, Expire(t) PROVE FALSE
  BY <1>4 DEF Expire, authSlots
<1>5. ASSUME NEW u \in UserIds, NEW row \in User, Administer(u, row) PROVE FALSE
  BY <1>5 DEF Administer
<1> QED BY <1>1, <1>2, <1>3, <1>4, <1>5, OnlyOwnSlot DEF Next, AuthNext

\* What an own step of a request that is over was.
LEMMA Endings ==
    ASSUME TypeOK, [Next]_vars, NEW r \in Requests, NEW status \in Status,
           Ends(r, status)
    PROVE  \/ /\ AuthStep(r) \/ Guard(r)
              /\ UNCHANGED <<transportTypes, items, loaded, differs>>
           \/ Handle(r)
           \/ status = "failed"
<1>1. pc'[r] \notin {pc[r], "idle"}
  BY DEF Ends, Free, Status
<1>2. Fail(r) => status = "failed"
  BY ReplyFrame, StatusIn DEF Fail, Ends
<1> QED BY <1>1, <1>2, OwnStep DEF Ends

LEMMA StatusOf ==
    ASSUME TypeOK, NEW r \in Requests, NEW status,
           End(r, status) \/ Reply(r, status) \/ Goto(r, status) \/ Await(r, status)
    PROVE  pc'[r] = status
BY DEF TypeOK, End, Reply, Await, Goto

(***************************************************************************)
(* RolesGuard judges the user that JwtStrategy.validate has just read: to  *)
(* pass both, the user had the standing while the request waited for them. *)
(***************************************************************************)
THEOREM AdminsConfigure == Spec => OnlyPresentAdminsConfigure
<1>1. ASSUME IInv, [Next]_vars, NEW r \in Requests,
             pc[r] = "validate", pc'[r] # "validate", ~Free(r)'
      PROVE  \/ call'[r].kind = "findTransportType" /\ standing[r] # {}
             \/ "ADMIN" \in standing[r]
  <2>1. TypeOK /\ RequestKnows(r)
    BY <1>1 DEF IInv
  <2>2. ~Free(r) /\ pc'[r] \notin {pc[r], "idle"} \cup Status
    BY <1>1 DEF Free, Status
  <2>3. ~Fail(r)
    BY <2>1, <2>2, StatusOf, StatusIn DEF Fail
  <2>4. ~Handle(r) /\ ~AuthStep(r)
    BY <1>1 DEF Handle, Get, FindOne, assertCodeAvailable, InsertType, Reload,
                Write, FindSku, InsertItem, AuthStep, validateUser, login,
                SeedFindByEmail, CreateFindByEmail, InsertUser
  <2>5. Guard(r)
    BY <1>1, <2>1, <2>2, <2>3, <2>4, OwnStep
  <2>6. ~End(r, "401") /\ ~End(r, "403")
    BY <2>1, <2>2, StatusOf, StatusIn
  <2> DEFINE user == users[payload[r].sub]
  <2>7. /\ user # Null /\ user.isActive /\ call'[r] = call[r]
        /\ RolesOf(call[r].kind) = {} \/ user.role \in RolesOf(call[r].kind)
    BY <2>5, <2>6 DEF Guard, validate
  <2>8. user.role \in standing[r]
    BY <1>1, <2>1, <2>7 DEF RequestKnows, ActiveRoles
  <2>9. call[r] \in Dto
    BY <1>1, <2>1 DEF RequestKnows
  <2> QED BY <2>7, <2>8, <2>9, Bodies DEF RolesOf
<1>2. IInv /\ [Next]_vars =>
        [\A r \in Requests :
            pc[r] = "validate" /\ pc'[r] # "validate" /\ ~Free(r)' =>
               \/ call'[r].kind = "findTransportType" /\ standing[r] # {}
               \/ "ADMIN" \in standing[r]]_vars
  BY <1>1
<1> QED BY <1>2, Invariance, PTL DEF Spec, OnlyPresentAdminsConfigure

(***************************************************************************)
(* AuthService.login signs what validateUser read of an active user.       *)
(***************************************************************************)
THEOREM EarnedTokens == Spec => TokensAreEarned
<1>1. ASSUME IInv, [Next]_vars, NEW t \in tokens' \ tokens
      PROVE  \E r \in Requests :
                Ends(r, "200") /\ payload[r] = t /\ t.role \in standing[r]
  <2>1. TypeOK
    BY <1>1 DEF IInv
  <2>2. ASSUME NEW r \in Requests, login(r)
        PROVE  Ends(r, "200") /\ payload[r] = t /\ t.role \in standing[r]
    <3>1. pc[r] = "compare" /\ End(r, "200") /\ payload[r] = t
      BY <1>1, <2>2 DEF login
    <3>2. pc'[r] = "200" /\ ~Free(r)
      BY <2>1, <3>1, StatusOf DEF Free, Status
    <3> QED BY <1>1, <3>1, <3>2 DEF IInv, RequestKnows, Ends
  <2>3. ASSUME NEW r \in Requests, AuthReceive(r) PROVE tokens' = tokens
    BY <2>3 DEF AuthReceive, Login, Seed, Begin
  <2>4. ASSUME NEW r \in Requests, AuthStep(r), ~login(r) PROVE tokens' = tokens
    BY <2>4 DEF AuthStep, validateUser, SeedFindByEmail, CreateFindByEmail, InsertUser
  <2>5. ASSUME NEW r \in Requests, Receive(r) \/ Guard(r) PROVE tokens' = tokens
    BY <2>5 DEF Receive, JwtAuthGuard, Begin, Guard, validate
  <2>6. ASSUME NEW r \in Requests, Handle(r) \/ Fail(r) PROVE tokens' = tokens
    BY <2>6 DEF Handle, Fail, Get, FindOne, assertCodeAvailable, InsertType, Reload,
                Write, FindSku, InsertItem, StoreType, tables
  <2>7. Crash \/ UNCHANGED vars => tokens' = tokens
    BY DEF Crash, vars, tables
  <2>8. ASSUME NEW s \in tokens, Expire(s) PROVE FALSE
    BY <1>1, <2>8 DEF Expire
  <2>9. ASSUME NEW u \in UserIds, NEW row \in User, Administer(u, row)
        PROVE  tokens' = tokens
    BY <2>9 DEF Administer
  <2> QED BY <1>1, <2>2, <2>3, <2>4, <2>5, <2>6, <2>7, <2>8, <2>9 DEF Next, AuthNext
<1>2. IInv /\ [Next]_vars =>
        [\A t \in tokens' \ tokens :
            \E r \in Requests :
               Ends(r, "200") /\ payload[r] = t /\ t.role \in standing[r]]_vars
  BY <1>1
<1> QED BY <1>2, Invariance, PTL DEF Spec, TokensAreEarned

(***************************************************************************)
(* The lookups answer 409: a duplicate gets through to a constraint, and   *)
(* the seed is refused, only when another request wrote in between.        *)
(***************************************************************************)
THEOREM RacesEscape == Spec => OnlyRacesEscapeTheLookup
<1>1. ASSUME IInv, [Next]_vars, NEW r \in Requests,
             Ends(r, "500") \/ (Ends(r, "409") /\ call[r] = Seeding)
      PROVE  r \in raced
  <2>0. TypeOK /\ RequestKnows(r)
    BY <1>1 DEF IInv
  <2>1. /\ ~Free(r) /\ pc'[r] \in {"500", "409"}
        /\ pc'[r] = "409" => call[r] = Seeding
    BY <1>1 DEF Ends
  <2>2. ASSUME NEW status, status \notin {"500", "409"}
        PROVE  /\ ~End(r, status) /\ ~Reply(r, status)
               /\ ~Goto(r, status) /\ ~Await(r, status)
    BY <2>0, <2>1, <2>2, StatusOf
  <2>3. (AuthStep(r) \/ Guard(r)) \/ Handle(r)
    BY <1>1, <2>0, Endings, StatusIn
  <2>4. CASE InsertUser(r)
    BY <2>0, <2>2, <2>4 DEF InsertUser, UniqueEmail, RequestKnows
  <2>5. CASE CreateFindByEmail(r)
    BY <2>0, <2>2, <2>5 DEF CreateFindByEmail, RequestKnows
  <2>6. CASE validateUser(r) \/ login(r) \/ SeedFindByEmail(r) \/ Guard(r)
    <3>1. ASSUME Guard(r) PROVE FALSE
      <4>1. call[r] \in Dto
        BY <2>0, <3>1 DEF Guard, RequestKnows
      <4>2. Handler(call[r].kind) \notin {"500", "409"}
        BY <4>1, Bodies DEF Handler
      <4> QED BY <2>2, <3>1, <4>2 DEF Guard, validate
    <3> QED BY <2>2, <2>6, <3>1 DEF validateUser, login, SeedFindByEmail
  <2>7. CASE assertCodeAvailable(r) \/ FindSku(r)
    <3>1. call[r] # Seeding
      BY <2>0, <2>7, Bodies DEF assertCodeAvailable, FindSku, RequestKnows, HoldsRow
    <3>2. ~Reply(r, "409")
      BY <2>0, <2>1, <3>1, StatusOf
    <3> QED BY <2>2, <2>7, <3>2 DEF assertCodeAvailable, FindSku
  <2>8. CASE Get(r) \/ FindOne(r) \/ Reload(r)
    BY <2>2, <2>8 DEF Get, FindOne, Reload
  <2>9. CASE InsertType(r)
    BY <2>0, <2>2, <2>9 DEF InsertType, UniqueCode, RequestKnows, CodeFree
  <2>10. CASE Write(r)
    <3>1. differs[r] /\ ~UniqueCode(call[r].id, AssignedCode(r))
      BY <2>2, <2>10 DEF Write
    <3> QED BY <2>0, <2>10, <3>1
            DEF Write, UniqueCode, RequestKnows, CodeFree, AssignedCode, HoldsRow
  <2>11. CASE InsertItem(r)
    BY <2>0, <2>2, <2>11 DEF InsertItem, UniqueSku, RequestKnows
  <2> QED BY <2>3, <2>4, <2>5, <2>6, <2>7, <2>8, <2>9, <2>10, <2>11
          DEF AuthStep, Handle
<1>2. IInv /\ [Next]_vars =>
        [\A r \in Requests :
            Ends(r, "500") \/ (Ends(r, "409") /\ call[r] = Seeding) => r \in raced]_vars
  BY <1>1
<1> QED BY <1>2, Invariance, PTL DEF Spec, OnlyRacesEscapeTheLookup

(***************************************************************************)
(* update looks a code up only when it is not the one of the loaded row.   *)
(***************************************************************************)
THEOREM NoConflictWithItself == Spec => ConflictsNameAnotherRow
<1>1. ASSUME IInv, [Next]_vars, NEW r \in Requests,
             Ends(r, "409"), call[r].kind = "updateTransportType"
      PROVE  \/ \E i \in Ids \ {call[r].id} : transportTypes[i] = call[r].code
             \/ r \in raced
  <2>0. TypeOK /\ RequestKnows(r)
    BY <1>1 DEF IInv
  <2>1. ~Free(r) /\ pc'[r] = "409"
    BY <1>1 DEF Ends
  <2>2. ASSUME NEW status, status # "409"
        PROVE  /\ ~End(r, status) /\ ~Reply(r, status)
               /\ ~Goto(r, status) /\ ~Await(r, status)
    BY <2>0, <2>1, <2>2, StatusOf
  <2>3. (AuthStep(r) \/ Guard(r)) \/ Handle(r)
    BY <1>1, <2>0, Endings, StatusIn
  <2>4. CASE assertCodeAvailable(r)
    <3>1. OfType(call[r].code) # {} /\ pc[r] = "assertCode"
      BY <2>2, <2>4 DEF assertCodeAvailable
    <3>2. HoldsRow(r) /\ (r \notin raced => loaded[r] # call[r].code)
      BY <1>1, <2>0, <3>1, Bodies DEF RequestKnows
    <3> QED BY <3>1, <3>2 DEF HoldsRow, OfType
  <2>5. CASE AuthStep(r)
    <3>1. ASSUME CreateFindByEmail(r) PROVE FALSE
      BY <1>1, <2>0, <3>1, Bodies DEF CreateFindByEmail, RequestKnows
    <3>2. ASSUME InsertUser(r) PROVE FALSE
      BY <2>2, <3>2 DEF InsertUser
    <3> QED BY <2>2, <2>5, <3>1, <3>2 DEF AuthStep, validateUser, login, SeedFindByEmail
  <2>6. CASE Guard(r)
    <3>1. call[r] \in Dto
      BY <2>0, <2>6 DEF Guard, RequestKnows
    <3>2. Handler(call[r].kind) # "409"
      BY <3>1, Bodies DEF Handler
    <3> QED BY <2>2, <2>6, <3>2 DEF Guard, validate
  <2>7. CASE FindSku(r)
    BY <1>1, <2>0, <2>7, Bodies DEF FindSku, RequestKnows
  <2>8. CASE Get(r) \/ FindOne(r) \/ InsertType(r) \/ Reload(r) \/ Write(r)
               \/ InsertItem(r)
    BY <2>2, <2>8 DEF Get, FindOne, InsertType, Reload, Write, InsertItem
  <2> QED BY <2>3, <2>4, <2>5, <2>6, <2>7, <2>8 DEF Handle
<1>2. IInv /\ [Next]_vars =>
        [\A r \in Requests :
            Ends(r, "409") /\ call[r].kind = "updateTransportType" =>
               \/ \E i \in Ids \ {call[r].id} : transportTypes[i] = call[r].code
               \/ r \in raced]_vars
  BY <1>1
<1> QED BY <1>2, Invariance, PTL DEF Spec, ConflictsNameAnotherRow

(***************************************************************************)
(* save writes the fields that were sent, and compares them with the row   *)
(* it reads again, not with the one findOne had loaded.                    *)
(***************************************************************************)
LEMMA CodesChangeByPatch ==
    ASSUME IInv, [Next]_vars, NEW i \in Ids,
           transportTypes[i] \notin {Null, transportTypes'[i]}
    PROVE  \E r \in Requests :
              /\ Ends(r, "200") /\ call[r].kind = "updateTransportType"
              /\ call[r].id = i /\ call[r].code = transportTypes'[i]
<1>0. TypeOK /\ \A r \in Requests : RequestKnows(r)
  BY DEF IInv
<1>1. transportTypes' # transportTypes
  OBVIOUS
<1>2. PICK r \in Requests : Handle(r)
  BY <1>1 DEF Next, Fail, Crash, vars, tables
<1>3. ~Get(r) /\ ~FindOne(r) /\ ~assertCodeAvailable(r) /\ ~Reload(r) /\ ~FindSku(r)
  BY <1>1 DEF Get, FindOne, assertCodeAvailable, Reload, FindSku, tables
<1>4. ~InsertItem(r)
  BY <1>1 DEF InsertItem, tables
<1>5. ~InsertType(r)
  BY <1>0, <1>1 DEF InsertType, StoreType, TypeOK, tables
<1>6. Write(r)
  BY <1>2, <1>3, <1>4, <1>5 DEF Handle
<1>7. StoreType(r, call[r].id, AssignedCode(r)) /\ Reply(r, "200") /\ pc[r] = "write"
  BY <1>1, <1>6 DEF Write, tables
<1>8. call[r] \in UpdateTransportTypeDto
  BY <1>0, <1>7 DEF RequestKnows, HoldsRow
<1>9. pc'[r] = "200" /\ ~Free(r)
  BY <1>0, <1>7, StatusOf DEF Free, Status
<1>10. call[r].id = i /\ call[r].code = transportTypes'[i]
  BY <1>0, <1>7, <1>8, Bodies DEF StoreType, TypeOK, AssignedCode
<1> QED BY <1>7, <1>8, <1>9, <1>10, Bodies DEF Ends

LEMMA PatchesAreStored ==
    ASSUME IInv, [Next]_vars, NEW r \in Requests, Ends(r, "200"),
           call[r] \in UpdateTransportTypeDto, call[r].code # Null, r \notin raced
    PROVE  transportTypes'[call[r].id] = call[r].code
<1>0. TypeOK /\ RequestKnows(r)
  BY DEF IInv
<1>1. ~Free(r) /\ pc'[r] = "200" /\ call[r] \in Dto
      /\ call[r].kind = "updateTransportType" /\ call[r].id \in Ids
  BY Bodies DEF Ends
<1>2. ASSUME NEW status, status # "200"
      PROVE  /\ ~End(r, status) /\ ~Reply(r, status)
             /\ ~Goto(r, status) /\ ~Await(r, status)
  BY <1>0, <1>1, <1>2, StatusOf
<1>3. (AuthStep(r) \/ Guard(r)) \/ Handle(r)
  BY <1>0, Endings, StatusIn
<1>4. ~AuthStep(r)
  BY <1>0, <1>1, Bodies DEF RequestKnows, AuthStep, validateUser, login, SeedFindByEmail,
       CreateFindByEmail, InsertUser
<1>5. ~Guard(r)
  <2>1. Handler(call[r].kind) # "200"
    BY <1>1, Bodies DEF Handler
  <2> QED BY <1>2, <2>1 DEF Guard, validate
<1>6. ~Get(r) /\ ~FindSku(r) /\ ~InsertItem(r)
  BY <1>0, <1>1, Bodies DEF RequestKnows, Get, FindSku, InsertItem
<1>7. ~FindOne(r) /\ ~assertCodeAvailable(r) /\ ~InsertType(r) /\ ~Reload(r)
  BY <1>2 DEF FindOne, assertCodeAvailable, InsertType, Reload
<1>8. Write(r)
  BY <1>3, <1>4, <1>5, <1>6, <1>7 DEF Handle
<1>9. CASE differs[r]
  BY <1>0, <1>1, <1>2, <1>8, <1>9 DEF Write, StoreType, AssignedCode, TypeOK
<1>10. CASE ~differs[r]
  <2>1. transportTypes' = transportTypes
    BY <1>8, <1>10 DEF Write, tables
  <2> QED BY <1>0, <1>8, <1>10, <2>1 DEF Write, RequestKnows, HoldsRow, AssignedCode
<1> QED BY <1>9, <1>10

(***************************************************************************)
(* A PATCH writes what it names on the row it names, and nothing of the    *)
(* entity it loaded.                                                       *)
(***************************************************************************)
THEOREM PatchesAreExact == Spec => PatchesWriteWhatTheyName
<1>1. IInv /\ [Next]_vars =>
        [/\ \A i \in Ids :
              transportTypes[i] \notin {Null, transportTypes'[i]} =>
                 \E r \in Requests :
                    /\ Ends(r, "200") /\ call[r].kind = "updateTransportType"
                    /\ call[r].id = i /\ call[r].code = transportTypes'[i]
         /\ \A r \in Requests :
              /\ Ends(r, "200") /\ call[r] \in UpdateTransportTypeDto
              /\ call[r].code # Null /\ r \notin raced
              => transportTypes'[call[r].id] = call[r].code]_vars
  BY CodesChangeByPatch, PatchesAreStored
<1> QED BY <1>1, Invariance, PTL DEF Spec, PatchesWriteWhatTheyName

=============================================================================
