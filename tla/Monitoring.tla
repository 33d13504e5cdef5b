----------------------------- MODULE Monitoring -----------------------------
(***************************************************************************)
(* The two listings, GET /sales-orders and GET /audit, read page by page   *)
(* while AuditTrail goes on.  Both sort by the time a row was created,     *)
(* newest first, with nothing to decide between equal times, and cut a     *)
(* page out of that order with skip and take.                              *)
(*                                                                         *)
(* findAndCount is several queries.  For sales orders, which are joined    *)
(* with customer and transport type, TypeORM first selects the ids of the  *)
(* page, then the rows with those ids that match the filters, then counts; *)
(* for audit events it selects the page, then counts.                      *)
(*                                                                         *)
(* Time is counted in ticks, finer than the milliseconds of a Date.        *)
(***************************************************************************)
EXTENDS AuditTrail

CONSTANTS
    Days,           \* the days a client may ask for
    DayLength,      \* ticks in a day
    Millisecond,    \* ticks in a millisecond
    Limits,         \* page sizes a client may ask for, from 1 to 100
    Queries         \* bound: the queries that are tried

\* Null: no filter.  (customerId and transportTypeId filter like status.)
QuerySalesOrdersDto ==
    [kind : {"orders"}, status : Status \cup {Null}, dateFrom : Days \cup {Null},
     dateTo : Days \cup {Null}, limit : Limits]

QueryAuditDto ==
    [kind : {"events"}, entityId : OrderIds \cup {Null},
     action : AuditAction \cup {Null}, limit : Limits]

ASSUME QueryAssumption == Queries \subseteq QuerySalesOrdersDto \cup QueryAuditDto

ASSUME DayAssumption ==
    /\ Days \subseteq Nat /\ Limits \subseteq Nat \ {0}
    /\ DayLength \in Nat /\ Millisecond \in 1..DayLength
    /\ Null \notin Queries \cup OrderIds \cup AuditAction \cup Status

VARIABLES
    query,          \* what a client is reading, Null when it is not
    at,             \* the await its present request stands at
    page,           \* the page it is reading
    ids,            \* the ids of that page
    due             \* history: rows that matched when it began and that it was
                    \* not sent yet; none any more when a row stops to match

walk == <<query, at, page, ids, due>>
vars == <<trail, walk>>

Rows == OrderIds \cup 1..MaxChanges

TypeOK ==
    /\ TrailTypeOK
    /\ query \in Queries \cup {Null}
    /\ at \in {"idle", "ids", "rows", "count"}
    /\ page \in Nat
    /\ ids \subseteq Rows /\ due \subseteq Rows

WalkInit ==
    query = Null /\ at = "idle" /\ page = 0 /\ ids = {} /\ due = {}

-----------------------------------------------------------------------------
(* Which rows match a query, and how they are ordered.                     *)

\* T00:00:00.000Z
StartOfDay(d) == d * DayLength

\* Mutant: up to the beginning of the day.
EndOfDay_Start(d) == d * DayLength

\* T23:59:59.999Z
EndOfDay(d) == (d + 1) * DayLength - Millisecond

InRange(dateFrom, dateTo, createdAt) ==
    /\ dateFrom # Null => createdAt >= StartOfDay(dateFrom)
    /\ dateTo # Null => createdAt <= EndOfDay(dateTo)

Matches(o, q) ==
    /\ orders[o] # Null
    /\ q.status \in {Null, orders[o].status}
    /\ InRange(q.dateFrom, q.dateTo, orders[o].createdAt)

MatchesEvent(n, q) ==
    /\ n \in Recorded
    /\ q.entityId \in {Null, changes[n].entityId}
    /\ q.action \in {Null, changes[n].action}

Matching(q) ==
    IF q = Null THEN {}
    ELSE IF q.kind = "orders" THEN {o \in OrderIds : Matches(o, q)}
    ELSE {n \in 1..MaxChanges : MatchesEvent(n, q)}

\* createdAt of an order, occurredAt of an event.
CreatedAt(q, x) ==
    IF q.kind = "orders" THEN orders[x].createdAt
    ELSE (CHOOSE e \in events : e.change = x).occurredAt

\* The orders ORDER BY ... DESC may come in.
Orderings(q) ==
    LET S == Matching(q)
        n == Cardinality(S) IN
    {f \in [1..n -> S] :
        \A i, j \in 1..n : i < j =>
            f[i] # f[j] /\ CreatedAt(q, f[i]) >= CreatedAt(q, f[j])}

\* Mutant: skip counts the page that is asked for.
Page_SkipOne(f, p, limit) ==
    {f[i] : i \in {j \in DOMAIN f : p * limit < j /\ j <= (p + 1) * limit}}

\* skip: (page - 1) * limit, take: limit
Page(f, p, limit) ==
    {f[i] : i \in {j \in DOMAIN f : (p - 1) * limit < j /\ j <= p * limit}}

-----------------------------------------------------------------------------
(* A client reads one page after the other.                                *)

FindAll ==
    /\ at = "idle"
    /\ \E q \in Queries : query' = q /\ due' = Matching(q)
    /\ at' = "ids" /\ page' = 1
    /\ UNCHANGED <<trail, ids>>

FindIds ==
    /\ at = "ids"
    /\ \E f \in Orderings(query) :
          LET found == Page(f, page, query.limit) IN
          IF query.kind = "orders"
            THEN at' = "rows" /\ ids' = found /\ UNCHANGED due
            ELSE at' = "count" /\ due' = due \ found /\ UNCHANGED ids
    /\ UNCHANGED <<trail, query, page>>

FindRows ==
    /\ at = "rows"
    /\ due' = due \ (ids \cap Matching(query))
    /\ ids' = {} /\ at' = "count"
    /\ UNCHANGED <<trail, query, page>>

Done ==
    query' = Null /\ at' = "idle" /\ page' = 0 /\ ids' = {} /\ due' = {}

\* With total the client knows whether there is another page.
Count ==
    /\ at = "count"
    /\ IF page * query.limit < Cardinality(Matching(query))
         THEN /\ at' = "ids" /\ page' = page + 1
              /\ UNCHANGED <<query, ids, due>>
         ELSE Done
    /\ UNCHANGED trail

\* A query fails, or the client loses interest.
GiveUp == at # "idle" /\ Done /\ UNCHANGED trail

\* What a change of the tables means to the client.
Observe ==
    /\ UNCHANGED <<query, at, page, ids>>
    /\ due' = IF Matching(query) \subseteq Matching(query)' THEN due ELSE {}

Init == TrailInit /\ WalkInit

Next ==
    \/ TrailNext /\ Observe
    \/ FindAll \/ FindIds \/ FindRows \/ Count \/ GiveUp

Spec == Init /\ [][Next]_vars

-----------------------------------------------------------------------------
(* Properties                                                              *)

(***************************************************************************)
(* A client that reads on to the last page has been sent every row there   *)
(* was when it began, although pages shift as rows are inserted, also in   *)
(* the middle, and each page comes from several queries; but for a row     *)
(* that shares its time with another, and unless some row stopped to       *)
(* match, as an order does that leaves the status asked for.               *)
(***************************************************************************)
CompleteWalksMissNothing ==
    [][at = "count" /\ page * query.limit >= Cardinality(Matching(query))
         /\ at' = "idle" =>
         \A x \in due :
             \E y \in Matching(query) \ {x} :
                 CreatedAt(query, y) = CreatedAt(query, x)]_vars

(***************************************************************************)
(* dateFrom and dateTo are "inclusive" (query-sales-orders.dto.ts:26, 31): *)
(* of the orders created from one day to another, just those are missed    *)
(* that were created in the last millisecond of the last day.              *)
(***************************************************************************)
OnlyTheLastMillisecondEscapes ==
    \A o \in OrderIds, d, e \in Days :
        orders[o] # Null =>
            LET t      == orders[o].createdAt
                during == d * DayLength <= t /\ t < (e + 1) * DayLength
                last   == t + Millisecond > (e + 1) * DayLength IN
            /\ InRange(d, e, t) => during
            /\ during => InRange(d, e, t) \/ last

-----------------------------------------------------------------------------
(***************************************************************************)
(* Why they hold.  A row that is due stands far enough down the listing:   *)
(* rows that are inserted push it further, and a page that reaches down to *)
(* it has it.                                                              *)
(***************************************************************************)
Newer(x) == {y \in Matching(query) : CreatedAt(query, y) > CreatedAt(query, x)}

Tied(x) ==
    \E y \in Matching(query) \ {x} : CreatedAt(query, y) = CreatedAt(query, x)

BelowPage(S, p) ==
    \A x \in S : Tied(x) \/ Cardinality(Newer(x)) >= p * query.limit

WalkInv ==
    /\ due \subseteq Matching(query)
    /\ at # "idle" => query \in Queries /\ page >= 1
    /\ at = "ids" => BelowPage(due, page - 1)
    /\ at = "rows" => query.kind = "orders" /\ BelowPage(due \ ids, page)
    /\ at = "count" => BelowPage(due, page)

\* What is known of the trail whoever reads it, and the inductive invariant.
Core == TypeOK /\ TrailInv

IInv == Core /\ WalkInv

=============================================================================
