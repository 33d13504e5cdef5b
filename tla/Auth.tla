-------------------------------- MODULE Auth --------------------------------
(***************************************************************************)
(* AuthService, UsersService, the two global guards and the seed: who gets *)
(* a token, and which requests reach their handler.  The handlers          *)
(* themselves are in the modules that extend this one.                     *)
(*                                                                         *)
(* A token is what its signature protects, the payload.  Time is left out: *)
(* "tokens" holds those that have not expired, and any of them may expire  *)
(* at any moment.  Nothing in the program changes a user or deletes one;   *)
(* that is done in the database (Administer).                              *)
(***************************************************************************)
CONSTANTS
    UserIds,       \* the uuids the database gives to users
    Emails,        \* e-mail addresses
    AdminEmail,    \* ADMIN_EMAIL, the user the seed creates
    Requests,      \* slots for requests served at one time
    Null           \* no row, no value

UserRole == {"ADMIN", "OPERATOR"}

User == [email : Emails, role : UserRole, isActive : BOOLEAN]

\* The field email of the payload is that of sub, which never changes.
JwtPayload == [sub : UserIds, role : UserRole]

LoginDto == [kind : {"login"}, email : Emails]

\* The seed is a process of its own; here it takes a slot like a request.
Seeding == [kind |-> "seed"]

VARIABLES
    users,         \* table users: the row of each id
    tokens,        \* payloads of the tokens that are out and have not expired
    pc,            \* the await each request stands at, or its last answer
    call,          \* its route and body
    payload,       \* of the token it came with, or that its login will sign
    standing,      \* history: roles its user had, while active, since it came
    raced          \* history: requests that have read a table written since

authSlots == <<pc, call, payload, standing>>

\* The status of an answer; a database call that throws is a 500 of its own.
Status == {"200", "201", "401", "403", "404", "409", "500", "failed"}

Free(r) == pc[r] \in Status \cup {"idle"}

AuthPC == {"findByEmail", "compare", "validate",
           "seedFindByEmail", "createFindByEmail", "insertUser"}

AuthInit ==
    /\ users = [u \in UserIds |-> Null]
    /\ tokens = {}
    /\ pc = [r \in Requests |-> "idle"]
    /\ call = [r \in Requests |-> Null]
    /\ payload = [r \in Requests |-> Null]
    /\ standing = [r \in Requests |-> {}]
    /\ raced = {}

-----------------------------------------------------------------------------
(* Moving a request.                                                       *)

Goto(r, label) == pc' = [pc EXCEPT ![r] = label]

\* The handler returns, or a guard or the handler throws.
End(r, status) ==
    /\ Goto(r, status)
    /\ call' = [call EXCEPT ![r] = Null]
    /\ payload' = [payload EXCEPT ![r] = Null]
    /\ standing' = [standing EXCEPT ![r] = {}]

Begin(r, label, body, token, roles) ==
    /\ Free(r)
    /\ Goto(r, label)
    /\ call' = [call EXCEPT ![r] = body]
    /\ payload' = [payload EXCEPT ![r] = token]
    /\ standing' = [standing EXCEPT ![r] = roles]
    /\ raced' = raced \ {r}
    /\ UNCHANGED <<users, tokens>>

Holders(email) == {u \in UserIds : users[u] # Null /\ users[u].email = email}

ActiveRoles(ids) ==
    {users[u].role : u \in {v \in ids : users[v] # Null /\ users[v].isActive}}

-----------------------------------------------------------------------------
(* The guards: JwtAuthGuard with JwtStrategy, then RolesGuard.             *)

\* A protected route: without a valid token the request ends here.
JwtAuthGuard(r, body) ==
    \/ \E t \in tokens : Begin(r, "validate", body, t, ActiveRoles({t.sub}))
    \/ /\ Free(r) /\ End(r, "401")
       /\ UNCHANGED <<users, tokens, raced>>

\* @Roles on the routes: none means any authenticated user.
RolesOf(kind) ==
    IF kind \in {"createTransportType", "updateTransportType", "createItem"}
      THEN {"ADMIN"} ELSE {}

\* Mutant: the role is taken from the token, where the login put it.
validate_RoleOfToken(r, handler) ==
    /\ pc[r] = "validate"
    /\ LET user == users[payload[r].sub] IN
       IF user = Null \/ ~user.isActive THEN End(r, "401")
       ELSE IF RolesOf(call[r].kind) = {} \/ payload[r].role \in RolesOf(call[r].kind)
         THEN /\ Goto(r, handler)
              /\ payload' = [payload EXCEPT ![r] = Null]
              /\ standing' = [standing EXCEPT ![r] = {}]
              /\ UNCHANGED call
       ELSE End(r, "403")
    /\ UNCHANGED <<users, tokens, raced>>

\* JwtStrategy.validate looks the user up again; RolesGuard follows without
\* another await.  An admitted request goes on at the handler's first await.
validate(r, handler) ==
    /\ pc[r] = "validate"
    /\ LET user == users[payload[r].sub] IN
       IF user = Null \/ ~user.isActive THEN End(r, "401")
       ELSE IF RolesOf(call[r].kind) = {} \/ user.role \in RolesOf(call[r].kind)
         THEN /\ Goto(r, handler)
              /\ payload' = [payload EXCEPT ![r] = Null]
              /\ standing' = [standing EXCEPT ![r] = {}]
              /\ UNCHANGED call
       ELSE End(r, "403")
    /\ UNCHANGED <<users, tokens, raced>>

-----------------------------------------------------------------------------
(* AuthService.login, a public route.                                      *)

Login(r) ==
    \E email \in Emails :
        Begin(r, "findByEmail", [kind |-> "login", email |-> email], Null,
              ActiveRoles(Holders(email)))

\* Mutant: an inactive user may log in.
validateUser_AnyUser(r) ==
    /\ pc[r] = "findByEmail"
    /\ \/ /\ Holders(call[r].email) = {}
          /\ End(r, "401")
       \/ \E u \in Holders(call[r].email) :
            /\ payload' = [payload EXCEPT ![r] = [sub |-> u, role |-> users[u].role]]
            /\ Goto(r, "compare")
            /\ UNCHANGED <<call, standing>>
    /\ UNCHANGED <<users, tokens, raced>>

validateUser(r) ==
    /\ pc[r] = "findByEmail"
    /\ \/ /\ \A u \in Holders(call[r].email) : ~users[u].isActive
          /\ End(r, "401")
       \/ \E u \in Holders(call[r].email) :
            /\ users[u].isActive
            /\ payload' = [payload EXCEPT ![r] = [sub |-> u, role |-> users[u].role]]
            /\ Goto(r, "compare")
            /\ UNCHANGED <<call, standing>>
    /\ UNCHANGED <<users, tokens, raced>>

\* bcrypt.compare of a password that is the user's, or is not; signAsync
\* reads nothing more, so it is the same step.
login(r) ==
    /\ pc[r] = "compare"
    /\ \/ End(r, "401") /\ UNCHANGED tokens
       \/ End(r, "200") /\ tokens' = tokens \cup {payload[r]}
    /\ UNCHANGED <<users, raced>>

Expire(t) ==
    /\ tokens' = tokens \ {t}
    /\ UNCHANGED <<users, authSlots, raced>>

-----------------------------------------------------------------------------
(* The table users: the seed, UsersService.create, and the database.       *)

\* Who has looked for an e-mail and relies on not having found it.
UsersRead == {r \in Requests : pc[r] \in {"createFindByEmail", "insertUser"}}

Seed(r) == Begin(r, "seedFindByEmail", Seeding, Null, {})

SeedFindByEmail(r) ==
    /\ pc[r] = "seedFindByEmail"
    /\ IF Holders(AdminEmail) # {}
         THEN End(r, "200")
         ELSE Goto(r, "createFindByEmail") /\ UNCHANGED <<call, payload, standing>>
    /\ UNCHANGED <<users, tokens, raced>>

CreateFindByEmail(r) ==
    /\ pc[r] = "createFindByEmail"
    /\ IF Holders(AdminEmail) # {}
         THEN End(r, "409")
         ELSE Goto(r, "insertUser") /\ UNCHANGED <<call, payload, standing>>
    /\ UNCHANGED <<users, tokens, raced>>

\* UNIQUE (email), seen by the row of u.
UniqueEmail(u, email) == Holders(email) \subseteq {u}

\* Requests that wait for an answer about the user of row u.
About(u, email) ==
    {r \in Requests :
        \/ pc[r] = "validate" /\ payload[r].sub = u
        \/ pc[r] \in {"findByEmail", "compare"} /\ call[r].email = email}

StoreUser(u, row) ==
    /\ users' = [users EXCEPT ![u] = row]
    /\ raced' = raced \cup UsersRead
    /\ standing' = [r \in Requests |->
           IF row.isActive /\ r \in About(u, row.email)
             THEN standing[r] \cup {row.role} ELSE standing[r]]

\* After bcrypt.hash, an await that reads no table.
InsertUser(r) ==
    /\ pc[r] = "insertUser"
    /\ \E u \in UserIds :
         /\ users[u] = Null
         /\ IF UniqueEmail(u, AdminEmail)
              THEN /\ StoreUser(u, [email |-> AdminEmail, role |-> "ADMIN",
                                    isActive |-> TRUE])
                   /\ Goto(r, "201")
                   /\ call' = [call EXCEPT ![r] = Null]
                   /\ UNCHANGED payload
              ELSE End(r, "500") /\ UNCHANGED <<users, raced>>
    /\ UNCHANGED tokens

\* A user is added, promoted, demoted, activated or deactivated by SQL.
Administer(u, row) ==
    /\ users[u] # Null => row.email = users[u].email
    /\ UniqueEmail(u, row.email)
    /\ StoreUser(u, row)
    /\ UNCHANGED <<tokens, pc, call, payload>>

-----------------------------------------------------------------------------

AuthStep(r) ==
    \/ validateUser(r) \/ login(r)
    \/ SeedFindByEmail(r) \/ CreateFindByEmail(r) \/ InsertUser(r)

AuthReceive(r) == Login(r) \/ Seed(r)

AuthNext ==
    \/ \E r \in Requests : AuthReceive(r) \/ AuthStep(r)
    \/ \E t \in tokens : Expire(t)
    \/ \E u \in UserIds, row \in User : Administer(u, row)

=============================================================================
