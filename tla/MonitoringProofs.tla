-------------------------- MODULE MonitoringProofs --------------------------
(***************************************************************************)
(* What the date filters promise, and that whoever reads a listing leaves  *)
(* the audit trail what it is: all that AuditTrailProofs shows of it holds *)
(* here too.                                                               *)
(***************************************************************************)
EXTENDS Monitoring, AuditTrailProofs

(***************************************************************************)
(* The steps of the client leave the trail alone.                          *)
(***************************************************************************)
Walking == FindAll \/ FindIds \/ FindRows \/ Count \/ GiveUp

LEMMA MatchingIsRows ==
    ASSUME TrailTypeOK, NEW q
    PROVE  Matching(q) \subseteq Rows
BY DEF Matching, Rows

LEMMA PageMatches ==
    ASSUME NEW q, NEW f \in Orderings(q), NEW p, NEW limit
    PROVE  Page(f, p, limit) \subseteq Matching(q)
<1>1. f \in [1..Cardinality(Matching(q)) -> Matching(q)]
  BY DEF Orderings
<1> QED BY <1>1 DEF Page

LEMMA WalkTypes ==
    ASSUME TypeOK, Walking
    PROVE  TypeOK'
<1>0. UNCHANGED trail
  BY DEF Walking, FindAll, FindIds, FindRows, Count, GiveUp
<1>1. TrailTypeOK'
  BY <1>0 DEF TypeOK, TrailTypeOK, trail, history
<1>2. CASE FindAll
  <2>1. due' \subseteq Rows
    BY <1>2, MatchingIsRows DEF FindAll, TypeOK
  <2> QED BY <1>1, <1>2, <2>1 DEF FindAll, TypeOK
<1>3. CASE FindIds
  <2>1. PICK f \in Orderings(query) :
          LET found == Page(f, page, query.limit) IN
          IF query.kind = "orders"
            THEN at' = "rows" /\ ids' = found /\ UNCHANGED due
            ELSE at' = "count" /\ due' = due \ found /\ UNCHANGED ids
    BY <1>3 DEF FindIds
  <2>2. Page(f, page, query.limit) \subseteq Rows
    BY PageMatches, MatchingIsRows DEF TypeOK
  <2> QED BY <1>1, <1>3, <2>1, <2>2 DEF FindIds, TypeOK
<1>4. CASE FindRows
  BY <1>1, <1>4 DEF FindRows, TypeOK
<1>5. CASE Count
  BY <1>1, <1>5 DEF Count, Done, TypeOK
<1>6. CASE GiveUp
  BY <1>1, <1>6 DEF GiveUp, Done, TypeOK
<1> QED BY <1>2, <1>3, <1>4, <1>5, <1>6 DEF Walking

LEMMA TypeStep == Core /\ [Next]_vars => TypeOK'
<1> SUFFICES ASSUME Core, [Next]_vars PROVE TypeOK'
  OBVIOUS
<1>1. CASE TrailNext /\ Observe
  BY <1>1, TrailTypes DEF Core, TypeOK, TrailIInv, Observe
<1>2. CASE Walking
  BY <1>2, WalkTypes DEF Core
<1>3. CASE UNCHANGED vars
  BY <1>3 DEF Core, TypeOK, TrailTypeOK, vars, trail, walk, history
<1> QED BY <1>1, <1>2, <1>3 DEF Next, Walking

LEMMA NextOfTheTrail == [Next]_vars => [TrailNext]_trail
BY DEF Next, FindAll, FindIds, FindRows, Count, GiveUp, vars

(***************************************************************************)
(* Reading a listing never disturbs the audit trail: whatever is proved of *)
(* it alone holds while findAll of sales orders and of audit events run.   *)
(***************************************************************************)
THEOREM ReadersOnlyRead == Spec => TrailSpec
BY NextOfTheTrail, PTL DEF Spec, Init, TrailSpec

LEMMA WalkTypesInit == Init => TypeOK
BY TypeInit DEF Init, WalkInit, TypeOK

LEMMA CoreInvariance == Spec => []Core
<1>1. Init => Core
  BY WalkTypesInit, InvInit DEF Init, Core, TrailIInv
<1>2. Core /\ [Next]_vars => Core'
  BY TypeStep, NextOfTheTrail, InvStep DEF Core, TypeOK, TrailIInv
<1> QED BY <1>1, <1>2, PTL DEF Spec

-----------------------------------------------------------------------------
\* The ends of days are numbers like the times they are compared with.
LEMMA EndsAlike ==
    ASSUME NEW d \in Nat
    PROVE  /\ d * DayLength \in Nat /\ (d + 1) * DayLength \in Nat
           /\ Millisecond \in Nat /\ Millisecond >= 1
           /\ StartOfDay(d) = d * DayLength
           /\ EndOfDay(d) = (d + 1) * DayLength - Millisecond
<1>1. DayLength \in Nat /\ Millisecond \in 1..DayLength /\ d + 1 \in Nat
  BY DayAssumption
<1>2. \A a, b \in Nat : a * b \in Nat
  OBVIOUS
<1> QED BY <1>1, <1>2 DEF StartOfDay, EndOfDay

(***************************************************************************)
(* The date filters of findAll: with T23:59:59.999Z as the end of a day,   *)
(* only its last millisecond is left out, whatever the length of either.   *)
(***************************************************************************)
THEOREM FiltersAreInclusive == Spec => []OnlyTheLastMillisecondEscapes
<1>1. Core => OnlyTheLastMillisecondEscapes
  <2> SUFFICES ASSUME Core, NEW o \in OrderIds, NEW d \in Days, NEW e \in Days,
                      orders[o] # Null
               PROVE  LET t      == orders[o].createdAt
                          during == d * DayLength <= t /\ t < (e + 1) * DayLength
                          last   == t + Millisecond > (e + 1) * DayLength IN
                      /\ InRange(d, e, t) => during
                      /\ during => InRange(d, e, t) \/ last
    BY DEF OnlyTheLastMillisecondEscapes
  <2> DEFINE t == orders[o].createdAt
             P == d * DayLength
             Q == (e + 1) * DayLength
  <2>1. t \in Nat
    BY Moments DEF Core, TypeOK, TrailTypeOK, SalesOrder
  <2>2. d \in Nat /\ e \in Nat /\ d # Null /\ e # Null
    BY DayAssumption, Moments
  <2>3. /\ P \in Nat /\ Q \in Nat /\ Millisecond \in Nat /\ Millisecond >= 1
        /\ StartOfDay(d) = P /\ EndOfDay(e) = Q - Millisecond
    BY <2>2, EndsAlike
  <2>4. InRange(d, e, t) <=> t >= P /\ t <= Q - Millisecond
    BY <2>2, <2>3 DEF InRange
  <2> HIDE DEF t, P, Q
  <2>5. /\ InRange(d, e, t) => P <= t /\ t < Q
        /\ P <= t /\ t < Q => InRange(d, e, t) \/ t + Millisecond > Q
    BY <2>1, <2>3, <2>4
  <2> QED BY <2>5 DEF t, P, Q
<1> QED BY <1>1, CoreInvariance, PTL

=============================================================================
