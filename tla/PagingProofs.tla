---------------------------- MODULE PagingProofs ----------------------------
(***************************************************************************)
(* What a client is sent that reads a listing from the first page to the   *)
(* last, for any number of rows, any page size and any change in between.  *)
(***************************************************************************)
EXTENDS MonitoringProofs

-----------------------------------------------------------------------------
(***************************************************************************)
(* Rows, their times and their places in a listing.                        *)
(***************************************************************************)
LEMMA MatchingIsFinite ==
    ASSUME NEW q
    PROVE  IsFiniteSet(Matching(q)) /\ Cardinality(Matching(q)) \in Nat
<1>1. \/ Matching(q) \in SUBSET OrderIds
      \/ Matching(q) \in SUBSET (1..MaxChanges)
  BY DEF Matching
<1>2. IsFiniteSet(1..MaxChanges)
  BY Moments, FS_Interval
<1>3. IsFiniteSet(Matching(q))
  BY <1>1, <1>2, OrderIdsAssumption, FS_Subset
<1> QED BY <1>3, FS_CardinalityType

LEMMA RowTimes ==
    ASSUME TrailTypeOK, NEW q, NEW x \in Matching(q)
    PROVE  CreatedAt(q, x) \in Nat
<1>1. q # Null
  BY DEF Matching
<1>2. CASE q.kind = "orders"
  <2>1. x \in OrderIds /\ orders[x] \in SalesOrder
    BY <1>1, <1>2 DEF Matching, Matches, TrailTypeOK
  <2> QED BY <1>2, <2>1, Moments DEF CreatedAt, SalesOrder
<1>3. CASE q.kind # "orders"
  <2>1. \E e \in events : e.change = x
    BY <1>1, <1>3 DEF Matching, MatchesEvent, Recorded
  <2>2. (CHOOSE e \in events : e.change = x) \in AuditEvent
    BY <2>1 DEF TrailTypeOK
  <2> QED BY <1>3, <2>2, Moments DEF CreatedAt, AuditEvent
<1> QED BY <1>2, <1>3

LEMMA Products ==
    ASSUME NEW p \in Nat \ {0}, NEW limit \in Nat
    PROVE  (p - 1) * limit \in Nat /\ p * limit \in Nat
<1>1. \A a, b \in Nat : a * b \in Nat
  OBVIOUS
<1>2. p - 1 \in Nat
  OBVIOUS
<1> QED BY <1>1, <1>2

\* ORDER BY lists every row once.
LEMMA EveryRowIsListed ==
    ASSUME NEW q, NEW f \in Orderings(q), NEW x \in Matching(q)
    PROVE  /\ DOMAIN f = 1..Cardinality(Matching(q))
           /\ \E k \in 1..Cardinality(Matching(q)) : f[k] = x
<1> DEFINE S == Matching(q)
           n == Cardinality(S)
<1>1. IsFiniteSet(S) /\ n \in Nat
  BY MatchingIsFinite
<1>2. f \in [1..n -> S] /\ \A i, j \in 1..n : i < j => f[i] # f[j]
  BY DEF Orderings
<1> HIDE DEF n
<1>3. \A i, j \in 1..n : f[i] = f[j] => i = j
  BY <1>1, <1>2
<1>4. f \in Injection(1..n, S)
  BY <1>2, <1>3 DEF Injection, IsInjective
<1>5. Cardinality(1..n) = n
  BY <1>1, FS_Interval
<1>6. f \in Surjection(1..n, S)
  BY <1>1, <1>4, <1>5, FS_Injection DEF n
<1> QED BY <1>2, <1>6 DEF Surjection, n

\* As many rows come before an untied one as are newer.
LEMMA Rank ==
    ASSUME TrailTypeOK, NEW q, NEW f \in Orderings(q), NEW x \in Matching(q),
           \A y \in Matching(q) \ {x} : CreatedAt(q, y) # CreatedAt(q, x)
    PROVE  \E k \in DOMAIN f :
              /\ f[k] = x /\ k \in Nat
              /\ Cardinality({y \in Matching(q) : CreatedAt(q, y) > CreatedAt(q, x)})
                   = k - 1
<1> DEFINE n == Cardinality(Matching(q))
           newer == {y \in Matching(q) : CreatedAt(q, y) > CreatedAt(q, x)}
<1>0. n \in Nat
  BY MatchingIsFinite
<1>1. PICK k \in 1..n : f[k] = x
  BY EveryRowIsListed
<1>2. /\ f \in [1..n -> Matching(q)]
      /\ \A i, j \in 1..n : i < j =>
            f[i] # f[j] /\ CreatedAt(q, f[i]) >= CreatedAt(q, f[j])
  BY DEF Orderings
<1>3. \A y \in Matching(q) : CreatedAt(q, y) \in Nat
  BY RowTimes
<1> HIDE DEF n
<1>4. ASSUME NEW i \in 1..(k - 1) PROVE f[i] \in newer
  <2>1. i \in 1..n /\ i < k
    BY <1>0, <1>1
  <2>2. /\ f[i] \in Matching(q) \ {x}
        /\ CreatedAt(q, f[i]) >= CreatedAt(q, x)
    BY <1>1, <1>2, <2>1
  <2> QED BY <1>3, <2>2
<1>5. ASSUME NEW y \in newer PROVE \E i \in 1..(k - 1) : f[i] = y
  <2>1. PICK i \in 1..n : f[i] = y
    BY EveryRowIsListed DEF n
  <2>2. i # k
    BY <1>1, <1>3, <2>1
  <2>3. ~ k < i
    BY <1>1, <1>2, <1>3, <2>1
  <2>4. i \in 1..(k - 1)
    BY <1>0, <1>1, <2>2, <2>3
  <2> QED BY <2>1, <2>4
<1>6. ExistsBijection(1..(k - 1), newer)
  <2> DEFINE g == [i \in 1..(k - 1) |-> f[i]]
  <2>1. g \in [1..(k - 1) -> newer]
    BY <1>4
  <2>2. \A i, j \in 1..(k - 1) : g[i] = g[j] => i = j
    <3> SUFFICES ASSUME NEW i \in 1..(k - 1), NEW j \in 1..(k - 1), f[i] = f[j]
                 PROVE  i = j
      OBVIOUS
    <3>1. i \in 1..n /\ j \in 1..n
      BY <1>0, <1>1
    <3> QED BY <1>2, <3>1
  <2>3. \A y \in newer : \E i \in 1..(k - 1) : g[i] = y
    BY <1>5
  <2> HIDE DEF g, newer
  <2>4. g \in Bijection(1..(k - 1), newer)
    BY <2>1, <2>2, <2>3 DEF Bijection, Injection, Surjection, IsInjective
  <2> QED BY <2>4 DEF ExistsBijection
<1>7. Cardinality(newer) = k - 1
  <2>1. k - 1 \in Nat
    BY <1>0, <1>1
  <2> HIDE DEF newer
  <2> QED BY <1>6, <2>1, FS_CountingElements
<1>8. k \in DOMAIN f /\ k \in Nat
  BY <1>0, <1>1, <1>2
<1> QED BY <1>1, <1>7, <1>8

(***************************************************************************)
(* skip and take: a row below the pages before p is on page p or below it. *)
(***************************************************************************)
LEMMA OnThePageOrBelow ==
    ASSUME TrailTypeOK, NEW q, NEW f \in Orderings(q), NEW x \in Matching(q),
           \A y \in Matching(q) \ {x} : CreatedAt(q, y) # CreatedAt(q, x),
           NEW p \in Nat \ {0}, NEW limit \in Nat,
           Cardinality({y \in Matching(q) : CreatedAt(q, y) > CreatedAt(q, x)})
             >= (p - 1) * limit
    PROVE  \/ x \in Page(f, p, limit)
           \/ Cardinality({y \in Matching(q) : CreatedAt(q, y) > CreatedAt(q, x)})
                >= p * limit
<1> DEFINE above == Cardinality({y \in Matching(q) : CreatedAt(q, y) > CreatedAt(q, x)})
           from  == (p - 1) * limit
           to    == p * limit
<1>1. PICK k \in DOMAIN f : f[k] = x /\ k \in Nat /\ above = k - 1
  BY Rank
<1>2. from \in Nat /\ to \in Nat
  BY Products
<1>3. above >= from
  OBVIOUS
<1>4. Page(f, p, limit) = {f[i] : i \in {j \in DOMAIN f : from < j /\ j <= to}}
  BY DEF Page
<1> HIDE DEF above, from, to
<1>5. CASE k <= to
  <2>1. from < k
    BY <1>1, <1>2, <1>3
  <2> QED BY <1>1, <1>4, <1>5, <2>1
<1>6. CASE ~ k <= to
  <2>1. above >= to
    BY <1>1, <1>2, <1>6
  <2> QED BY <2>1 DEF above, to
<1> QED BY <1>5, <1>6

-----------------------------------------------------------------------------
(***************************************************************************)
(* The time of a row is set once, and events have one row each: what was   *)
(* listed keeps its place among the others.                                *)
(***************************************************************************)
LEMMA OrdersKeepTheirTime ==
    ASSUME Core, TrailNext, NEW o \in OrderIds, orders[o] # Null
    PROVE  orders'[o] # Null /\ orders'[o].createdAt = orders[o].createdAt
<1>0. TrailTypeOK /\ \A r \in Requests : RequestKnows(r)
  BY DEF Core, TypeOK, TrailInv
<1>1. ASSUME NEW r \in Requests, Save(r)
      PROVE  orders'[o] # Null /\ orders'[o].createdAt = orders[o].createdAt
  <2>1. Row(r) # Null
    BY <1>0, <1>1, RowTypes, Moments DEF Save
  <2>2. orders'[o] = IF body[r].order = o THEN Row(r) ELSE orders[o]
    BY <1>0, <1>1 DEF Save, TrailTypeOK
  <2>3. body[r].order = o => Row(r).createdAt = orders[o].createdAt
    BY DEF Row
  <2> QED BY <2>1, <2>2, <2>3
<1>2. (\E r \in Requests : Save(r)) \/ UNCHANGED orders
  BY DEF TrailNext, Step, Listener, Create, UpdateStatus, Call, BeginInsert, Emit,
         Answer, Handle, Record, Refuse, Fail, Crash, Tick
<1> QED BY <1>1, <1>2

LEMMA EventsKeepTheirTime ==
    ASSUME Core, TrailTellsTheOrder, TrailNext
    PROVE  /\ events \subseteq events'
           /\ \A e \in events, f \in events' : e.change = f.change => e = f
<1>0. TrailTypeOK /\ ChangesComeFirst
  BY DEF Core, TypeOK, TrailInv
<1>1. ASSUME NEW n \in 1..MaxChanges, Record(n)
      PROVE  /\ events \subseteq events'
             /\ \A e \in events, f \in events' : e.change = f.change => e = f
  <2>1. n \notin Recorded /\ events \subseteq events'
    BY <1>0, <1>1 DEF Record, ChangesComeFirst
  <2>2. \A f \in events' \ events : f.change = n
    BY <1>0, <1>1, Inserted
  <2> QED BY <2>1, <2>2 DEF TrailTellsTheOrder, Recorded
<1>2. (\E n \in 1..MaxChanges : Record(n)) \/ UNCHANGED events
  BY DEF TrailNext, Step, Listener, Create, UpdateStatus, Call, BeginInsert, Save, Emit,
         Answer, Handle, Refuse, Fail, Crash, Tick
<1> QED BY <1>1, <1>2 DEF TrailTellsTheOrder

LEMMA RowsKeepTheirTime ==
    ASSUME Core, TrailTellsTheOrder, TrailNext, query' = query,
           NEW x \in Matching(query)
    PROVE  CreatedAt(query, x)' = CreatedAt(query, x)
<1>1. query # Null
  BY DEF Matching
<1>2. CASE query.kind = "orders"
  <2>1. x \in OrderIds /\ orders[x] # Null
    BY <1>1, <1>2 DEF Matching, Matches
  <2> QED BY <1>2, <2>1, OrdersKeepTheirTime DEF CreatedAt
<1>3. CASE query.kind # "orders"
  <2>1. PICK row \in events : row.change = x
    BY <1>1, <1>3 DEF Matching, MatchesEvent, Recorded
  <2>2. (CHOOSE e \in events : e.change = x) = row
    BY <2>1 DEF TrailTellsTheOrder
  <2>3. (CHOOSE e \in events' : e.change = x) = row
    BY <2>1, EventsKeepTheirTime
  <2>4. CreatedAt(query, x) = row.occurredAt
    BY <1>3, <2>2 DEF CreatedAt
  <2>5. CreatedAt(query, x)' = row.occurredAt
    BY <1>3, <2>3 DEF CreatedAt
  <2> QED BY <2>4, <2>5
<1> QED BY <1>2, <1>3

\* As long as no row stops to match, rows are only pushed further down.
LEMMA RowsSink ==
    ASSUME Core, TrailTellsTheOrder, TrailNext, query' = query,
           Matching(query) \subseteq Matching(query)', NEW x \in Matching(query)
    PROVE  /\ Tied(x) => Tied(x)'
           /\ Cardinality(Newer(x)) \in Nat /\ Cardinality(Newer(x)') \in Nat
           /\ Cardinality(Newer(x)) <= Cardinality(Newer(x)')
<1>1. \A y \in Matching(query) : CreatedAt(query, y)' = CreatedAt(query, y)
  BY RowsKeepTheirTime
<1>2. Tied(x) => Tied(x)'
  BY <1>1 DEF Tied
<1>3. Newer(x) \subseteq Newer(x)'
  BY <1>1 DEF Newer
<1>4. IsFiniteSet(Matching(query)')
  <2>1. IsFiniteSet(Matching(query))
    BY MatchingIsFinite
  <2>2. \/ Matching(query)' \in SUBSET OrderIds
        \/ Matching(query)' \in SUBSET (1..MaxChanges)
    BY DEF Matching
  <2>3. IsFiniteSet(1..MaxChanges)
    BY Moments, FS_Interval
  <2> QED BY <2>2, <2>3, OrderIdsAssumption, FS_Subset
<1>5. IsFiniteSet(Newer(x)')
  <2>1. Newer(x)' \subseteq Matching(query)'
    BY DEF Newer
  <2> QED BY <1>4, <2>1, FS_Subset
<1>6. /\ IsFiniteSet(Newer(x))
      /\ Cardinality(Newer(x)) <= Cardinality(Newer(x)')
  BY <1>3, <1>5, FS_Subset
<1> QED BY <1>2, <1>5, <1>6, FS_CardinalityType

LEMMA TrailWalk ==
    ASSUME Core, TrailTellsTheOrder, WalkInv, TrailNext, Observe
    PROVE  WalkInv'
<1>0. UNCHANGED <<query, at, page, ids>>
  BY DEF Observe
<1>1. CASE Matching(query) \subseteq Matching(query)'
  <2>1. due' = due /\ due \subseteq Matching(query)'
    BY <1>1 DEF Observe, WalkInv
  <2>2. ASSUME NEW S, S \subseteq due, NEW p \in Nat, BelowPage(S, p), at # "idle"
        PROVE  BelowPage(S, p)'
    <3> SUFFICES ASSUME NEW x \in S
                 PROVE  Tied(x)' \/ Cardinality(Newer(x)') >= p * query.limit
      BY <1>0 DEF BelowPage
    <3>1. x \in Matching(query)
      BY <2>2 DEF WalkInv
    <3>2. Tied(x) \/ Cardinality(Newer(x)) >= p * query.limit
      BY <2>2 DEF BelowPage
    <3>3. p * query.limit \in Nat
      <4>1. query.limit \in Nat
        BY <2>2, QueryAssumption, DayAssumption
           DEF WalkInv, QuerySalesOrdersDto, QueryAuditDto
      <4> QED BY <4>1
    <3>4. /\ Tied(x) => Tied(x)'
          /\ Cardinality(Newer(x)) \in Nat /\ Cardinality(Newer(x)') \in Nat
          /\ Cardinality(Newer(x)) <= Cardinality(Newer(x)')
      BY <1>0, <1>1, <3>1, RowsSink
    <3> DEFINE c == Cardinality(Newer(x))
               d == Cardinality(Newer(x)')
               m == p * query.limit
    <3>5. c >= m => d >= m
      <4>1. c \in Nat /\ d \in Nat /\ m \in Nat /\ c <= d
        BY <3>3, <3>4
      <4> HIDE DEF c, d, m
      <4> QED BY <4>1
    <3> QED BY <3>2, <3>4, <3>5
  <2>3. at # "idle" => page \in Nat /\ page - 1 \in Nat
    BY DEF WalkInv, Core, TypeOK
  <2>4. CASE at = "ids"
    <3>1. BelowPage(due, page - 1)
      BY <2>4 DEF WalkInv
    <3>2. BelowPage(due, page - 1)'
      BY <1>0, <2>1, <2>2, <2>3, <2>4, <3>1 DEF BelowPage
    <3> QED BY <1>0, <2>1, <2>4, <3>2 DEF WalkInv
  <2>5. CASE at = "rows"
    <3>1. BelowPage(due \ ids, page)
      BY <2>5 DEF WalkInv
    <3>2. BelowPage(due \ ids, page)'
      BY <1>0, <2>1, <2>2, <2>3, <2>5, <3>1 DEF BelowPage
    <3> QED BY <1>0, <2>1, <2>5, <3>2 DEF WalkInv
  <2>6. CASE at = "count"
    <3>1. BelowPage(due, page)
      BY <2>6 DEF WalkInv
    <3>2. BelowPage(due, page)'
      BY <1>0, <2>1, <2>2, <2>3, <2>6, <3>1 DEF BelowPage
    <3> QED BY <1>0, <2>1, <2>6, <3>2 DEF WalkInv
  <2>7. CASE at = "idle"
    BY <1>0, <2>1, <2>7 DEF WalkInv
  <2> QED BY <2>4, <2>5, <2>6, <2>7 DEF Core, TypeOK
<1>2. CASE ~ (Matching(query) \subseteq Matching(query)')
  <2>1. due' = {}
    BY <1>2 DEF Observe
  <2> QED BY <1>0, <2>1 DEF WalkInv, BelowPage
<1> QED BY <1>1, <1>2

-----------------------------------------------------------------------------
(***************************************************************************)
(* The queries of findAll: the trail stands still, the client moves.       *)
(***************************************************************************)
LEMMA ListingStays ==
    ASSUME UNCHANGED trail, query' = query
    PROVE  /\ Matching(query)' = Matching(query)
           /\ \A S, p : BelowPage(S, p) => BelowPage(S, p)'
<1>1. orders' = orders /\ events' = events /\ changes' = changes
  BY DEF trail, history
<1>2. Recorded' = Recorded
  BY <1>1 DEF Recorded
<1>3. Matching(query)' = Matching(query)
  BY <1>1, <1>2 DEF Matching, Matches, MatchesEvent
<1>4. ASSUME NEW x PROVE CreatedAt(query, x)' = CreatedAt(query, x)
  BY <1>1 DEF CreatedAt
<1>5. ASSUME NEW x PROVE Newer(x)' = Newer(x) /\ (Tied(x) => Tied(x)')
  BY <1>3, <1>4 DEF Newer, Tied
<1>6. \A S, p : BelowPage(S, p) => BelowPage(S, p)'
  BY <1>5 DEF BelowPage
<1> QED BY <1>3, <1>6

LEMMA FindAllWalk ==
    ASSUME Core, FindAll
    PROVE  WalkInv'
<1>1. PICK q \in Queries : query' = q /\ due' = Matching(q)
  BY DEF FindAll
<1>2. UNCHANGED trail /\ at' = "ids" /\ page' = 1
  BY DEF FindAll
<1>3. Matching(query)' = Matching(q)
  <2>1. orders' = orders /\ events' = events /\ changes' = changes
    BY <1>2 DEF trail, history
  <2>2. Recorded' = Recorded
    BY <2>1 DEF Recorded
  <2> QED BY <1>1, <2>1, <2>2 DEF Matching, Matches, MatchesEvent
<1>4. BelowPage(due, page - 1)'
  <2> SUFFICES ASSUME NEW x \in due'
               PROVE  Cardinality(Newer(x)') >= (page' - 1) * query'.limit
    BY DEF BelowPage
  <2>1. (page' - 1) * query'.limit = 0
    <3>1. query'.limit \in Nat
      BY <1>1, QueryAssumption, DayAssumption DEF QuerySalesOrdersDto, QueryAuditDto
    <3> QED BY <1>2, <3>1
  <2>2. Cardinality(Newer(x)') \in Nat
    <3>1. Newer(x)' \subseteq Matching(q)
      BY <1>3 DEF Newer
    <3>2. IsFiniteSet(Newer(x)')
      BY <3>1, MatchingIsFinite, FS_Subset
    <3> QED BY <3>2, FS_CardinalityType
  <2> QED BY <2>1, <2>2
<1> QED BY <1>1, <1>2, <1>3, <1>4 DEF WalkInv

\* What a page leaves out of what was below the pages before it.
LEMMA PageLeaves ==
    ASSUME Core, WalkInv, at = "ids", NEW f \in Orderings(query)
    PROVE  BelowPage(due \ Page(f, page, query.limit), page)
<1> SUFFICES ASSUME NEW x \in due, x \notin Page(f, page, query.limit), ~ Tied(x)
             PROVE  Cardinality(Newer(x)) >= page * query.limit
  BY DEF BelowPage
<1>1. x \in Matching(query) /\ TrailTypeOK /\ page \in Nat \ {0}
  BY DEF WalkInv, Core, TypeOK
<1>2. query.limit \in Nat
  BY QueryAssumption, DayAssumption DEF WalkInv, QuerySalesOrdersDto, QueryAuditDto
<1>3. \A y \in Matching(query) \ {x} : CreatedAt(query, y) # CreatedAt(query, x)
  BY DEF Tied
<1>4. Cardinality(Newer(x)) >= (page - 1) * query.limit
  BY DEF WalkInv, BelowPage
<1>5. Newer(x) = {y \in Matching(query) : CreatedAt(query, y) > CreatedAt(query, x)}
  BY DEF Newer
<1> QED BY <1>1, <1>2, <1>3, <1>4, <1>5, OnThePageOrBelow

LEMMA FindIdsWalk ==
    ASSUME Core, WalkInv, FindIds
    PROVE  WalkInv'
<1>1. at = "ids" /\ UNCHANGED <<trail, query, page>>
  BY DEF FindIds
<1>2. PICK f \in Orderings(query) :
          LET found == Page(f, page, query.limit) IN
          IF query.kind = "orders"
            THEN at' = "rows" /\ ids' = found /\ UNCHANGED due
            ELSE at' = "count" /\ due' = due \ found /\ UNCHANGED ids
  BY DEF FindIds
<1>0. PICK left : left = due \ Page(f, page, query.limit)
  OBVIOUS
<1>3. BelowPage(left, page)
  BY <1>0, <1>1, PageLeaves
<1>4. Matching(query)' = Matching(query) /\ BelowPage(left, page)'
  BY <1>1, <1>3, ListingStays DEF BelowPage
<1>5. query' \in Queries /\ page' >= 1 /\ due \subseteq Matching(query)
  BY <1>1 DEF WalkInv
<1>6. CASE query.kind = "orders"
  <2>1. at' = "rows" /\ due' \ ids' = left /\ due' = due
    BY <1>0, <1>2, <1>6
  <2>2. BelowPage(due \ ids, page)'
    BY <1>4, <2>1 DEF BelowPage
  <2> QED BY <1>1, <1>4, <1>5, <1>6, <2>1, <2>2 DEF WalkInv
<1>7. CASE query.kind # "orders"
  <2>1. at' = "count" /\ due' = left
    BY <1>0, <1>2, <1>7
  <2>2. BelowPage(due, page)'
    BY <1>4, <2>1 DEF BelowPage
  <2> QED BY <1>0, <1>4, <1>5, <2>1, <2>2 DEF WalkInv
<1> QED BY <1>6, <1>7

LEMMA FindRowsWalk ==
    ASSUME Core, WalkInv, FindRows
    PROVE  WalkInv'
<1>1. /\ at = "rows" /\ at' = "count" /\ UNCHANGED <<trail, query, page>>
      /\ due' = due \ (ids \cap Matching(query))
  BY DEF FindRows
<1>2. due' \subseteq due \ ids /\ due' \subseteq Matching(query)
  BY <1>1 DEF WalkInv
<1>3. BelowPage(due', page)
  BY <1>1, <1>2 DEF WalkInv, BelowPage
<1>4. Matching(query)' = Matching(query) /\ BelowPage(due, page)'
  BY <1>1, <1>3, ListingStays DEF BelowPage
<1> QED BY <1>1, <1>2, <1>4 DEF WalkInv

LEMMA CountWalk ==
    ASSUME Core, WalkInv, Count
    PROVE  WalkInv'
<1>1. at = "count" /\ UNCHANGED trail
  BY DEF Count
<1>2. CASE /\ at' = "ids" /\ page' = page + 1
           /\ UNCHANGED <<query, ids, due>>
  <2>1. page \in Nat /\ page' \in Nat /\ page' - 1 = page /\ page' >= 1
    BY <1>2 DEF Core, TypeOK
  <2>2. BelowPage(due, page)
    BY <1>1 DEF WalkInv
  <2>3. /\ Matching(query)' = Matching(query)
        /\ \A p : BelowPage(due, p) => BelowPage(due, p)'
    BY <1>1, <1>2, ListingStays
  <2>4. BelowPage(due, page - 1)'
    BY <1>2, <2>1, <2>2, <2>3 DEF BelowPage
  <2> QED BY <1>1, <1>2, <2>1, <2>3, <2>4 DEF WalkInv
<1>3. CASE Done
  BY <1>3 DEF Done, WalkInv
<1> QED BY <1>2, <1>3 DEF Count

-----------------------------------------------------------------------------
(***************************************************************************)
(* The inductive invariant of the client.                                  *)
(***************************************************************************)
LEMMA WalkInvInit == Init => WalkInv
BY DEF Init, WalkInit, WalkInv

LEMMA WalkInvStep ==
    Core /\ TrailTellsTheOrder /\ WalkInv /\ [Next]_vars => WalkInv'
<1> SUFFICES ASSUME Core, TrailTellsTheOrder, WalkInv, [Next]_vars
             PROVE  WalkInv'
  OBVIOUS
<1>1. CASE TrailNext /\ Observe
  BY <1>1, TrailWalk
<1>2. CASE FindAll
  BY <1>2, FindAllWalk
<1>3. CASE FindIds
  BY <1>3, FindIdsWalk
<1>4. CASE FindRows
  BY <1>4, FindRowsWalk
<1>5. CASE Count
  BY <1>5, CountWalk
<1>6. CASE GiveUp
  BY <1>6 DEF GiveUp, Done, WalkInv
<1>7. CASE UNCHANGED vars
  <2>1. UNCHANGED trail /\ UNCHANGED <<query, at, page, ids, due>>
    BY <1>7 DEF vars, walk
  <2>2. /\ Matching(query)' = Matching(query)
        /\ \A S, p : BelowPage(S, p) => BelowPage(S, p)'
    BY <2>1, ListingStays
  <2> QED BY <2>1, <2>2 DEF WalkInv
<1> QED BY <1>1, <1>2, <1>3, <1>4, <1>5, <1>6, <1>7 DEF Next

(***************************************************************************)
(* In every reachable state the trail is sound, and a row that matched     *)
(* when a client began to read and that it has not been sent stands in the *)
(* listing below the pages it was sent, unless it shares its time.         *)
(***************************************************************************)
THEOREM Invariance == Spec => []IInv
<1>1. IInv <=> Core /\ WalkInv
  BY DEF IInv
<1> QED BY <1>1, WalkInvInit, WalkInvStep, CoreInvariance, ReadersOnlyRead, TrailIsOrdered,
          PTL DEF Spec

(***************************************************************************)
(* findAll, page by page to the last: the client has been sent every order *)
(* or event there was when it began, whatever was inserted in the          *)
(* meantime; but for those that share their time with another, and unless  *)
(* one stopped to match.                                                   *)
(***************************************************************************)
THEOREM WalksAreComplete == Spec => CompleteWalksMissNothing
<1>1. IInv /\ at = "count" /\ page * query.limit >= Cardinality(Matching(query)) =>
        \A x \in due : \E y \in Matching(query) \ {x} :
            CreatedAt(query, y) = CreatedAt(query, x)
  <2> SUFFICES ASSUME IInv, at = "count",
                      page * query.limit >= Cardinality(Matching(query)),
                      NEW x \in due
               PROVE  Tied(x)
    BY DEF Tied
  <2>1. x \in Matching(query) /\ TrailTypeOK
    BY DEF IInv, WalkInv, Core, TypeOK
  <2>2. Tied(x) \/ Cardinality(Newer(x)) >= page * query.limit
    BY DEF IInv, WalkInv, BelowPage
  <2>3. page * query.limit \in Nat
    <3>1. page \in Nat /\ query.limit \in Nat
      BY QueryAssumption, DayAssumption
         DEF IInv, WalkInv, Core, TypeOK, QuerySalesOrdersDto, QueryAuditDto
    <3> QED BY <3>1
  <2>4. /\ Cardinality(Newer(x)) \in Nat /\ Cardinality(Matching(query)) \in Nat
        /\ Cardinality(Newer(x)) < Cardinality(Matching(query))
    <3>1. CreatedAt(query, x) \in Nat
      BY <2>1, RowTimes
    <3>2. Newer(x) \subseteq Matching(query) /\ x \notin Newer(x)
      BY <3>1 DEF Newer
    <3>3. IsFiniteSet(Matching(query))
      BY MatchingIsFinite
    <3>4. /\ IsFiniteSet(Newer(x))
          /\ Cardinality(Newer(x)) <= Cardinality(Matching(query))
          /\ Cardinality(Newer(x)) # Cardinality(Matching(query))
      BY <2>1, <3>2, <3>3, FS_Subset
    <3> QED BY <3>3, <3>4, FS_CardinalityType
  <2> DEFINE c == Cardinality(Newer(x))
             d == Cardinality(Matching(query))
             m == page * query.limit
  <2>5. ~ c >= m
    <3>1. c \in Nat /\ d \in Nat /\ m \in Nat /\ c < d /\ m >= d
      BY <2>3, <2>4
    <3> HIDE DEF c, d, m
    <3> QED BY <3>1
  <2> QED BY <2>2, <2>5
<1>2. IInv /\ [Next]_vars =>
        [at = "count" /\ page * query.limit >= Cardinality(Matching(query))
           /\ at' = "idle" =>
           \A x \in due :
               \E y \in Matching(query) \ {x} :
                   CreatedAt(query, y) = CreatedAt(query, x)]_vars
  BY <1>1
<1> QED BY <1>2, Invariance, PTL DEF Spec, CompleteWalksMissNothing

=============================================================================
