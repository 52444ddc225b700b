--------------------------- MODULE Transfer_proofs ---------------------------
(***************************************************************************)
(* Proofs about export and import, for any tables, requests and page       *)
(* sizes, from the invariant of the SQL store.                             *)
(***************************************************************************)
EXTENDS Transfer, SqlStore_proofs, FiniteSetTheorems, WellFoundedInduction

(* The store: an export or an import changes none of its tables.           *)

\* With exports and imports the SQL store takes the steps of its own specification
\* and no others (Export only reads, Import writes to another installation).
THEOREM TransferUsesStore == TransferSpec => Spec
<1>1. TransferInit => Init
    BY DEF TransferInit
<1>2. [TransferNext]_allVars => [Next]_vars
    BY DEF TransferNext, TransferStep, StoreStep, allVars
<1> QED
    BY <1>1, <1>2, PTL DEF TransferSpec, Spec

LEMMA StoreInvThroughout == TransferSpec => []StoreInv
BY TransferUsesStore, StoreInvariance, PTL

-----------------------------------------------------------------------------
(* Induction over numbers, from the least of the numbers at which a claim  *)
(* fails.                                                                  *)

LEMMA LeastExists ==
    ASSUME NEW S, S \subseteq Nat, S # {}
    PROVE  \E x \in S : \A y \in S : x <= y
<1> DEFINE R == OpToRel(<, Nat)
<1>1. IsWellFoundedOn(R, Nat)
    BY NatLessThanWellFounded
<1>2. \A x, y \in Nat : <<y, x>> \notin R => x <= y
    BY DEF OpToRel
<1> HIDE DEF R
<1>3. PICK x \in S : \A y \in S : <<y, x>> \notin R
    BY <1>1, WFMin
<1>4. ASSUME NEW y \in S PROVE x <= y
  <2>1. x \in Nat /\ y \in Nat
      OBVIOUS
  <2>2. <<y, x>> \notin R
      BY <1>3
  <2> QED
      BY <1>2, <2>1, <2>2
<1> QED
    BY <1>4

Inductive(S, n) == 0 \in S /\ \A m \in 0..(n - 1) : m \in S => m + 1 \in S

LEMMA UpTo ==
    ASSUME NEW n \in Nat, NEW S, Inductive(S, n)
    PROVE  \A m \in 0..n : m \in S
<1> SUFFICES ASSUME (0..n) \ S # {} PROVE FALSE
    OBVIOUS
<1> DEFINE T == (0..n) \ S
<1> USE DEF Inductive
<1>1. PICK x \in T : \A y \in T : x <= y
  <2>1. T \subseteq Nat /\ T # {}
      OBVIOUS
  <2> HIDE DEF T
  <2> QED
      BY <2>1, LeastExists
<1>2. x - 1 \in 0..(n - 1) /\ x - 1 \in S
    BY <1>1
<1>3. (x - 1) + 1 \in S
    BY <1>2
<1> QED
    BY <1>1, <1>3

-----------------------------------------------------------------------------
(* Listings.                                                               *)

\* SetToSeq lists every member of a finite set.
IsListing(s, S) ==
    /\ s \in Seq(S) /\ \A x \in S : \E k \in 1..Len(s) : s[k] = x

LEMMA SetToSeqLists ==
    ASSUME NEW S, IsFiniteSet(S)
    PROVE  IsListing(SetToSeq(S), S)
<1>1. PICK n \in Nat : ExistsBijection(1..n, S)
    BY FS_NatBijection
<1>2. Cardinality(S) = n
    BY <1>1, FS_CountingElements
<1>3. PICK f \in Bijection(1..n, S) : TRUE
    BY <1>1 DEF ExistsBijection
<1>4. f \in [1..n -> S] /\ IsInjective(f)
    BY <1>3 DEF Bijection, Injection, IsInjective
<1> DEFINE g == SetToSeq(S)
<1>5. g \in [1..n -> S] /\ IsInjective(g)
    BY <1>2, <1>4 DEF SetToSeq
<1> HIDE DEF g
<1>6. g \in Seq(S) /\ Len(g) = n
    BY <1>5
<1>7. g \in Injection(1..n, S) /\ IsFiniteSet(1..n) /\ Cardinality(1..n) = n
    BY <1>5, FS_Interval DEF Injection
<1>8. g \in Surjection(1..n, S)
    BY <1>2, <1>7, FS_Injection
<1>9. \A x \in S : \E k \in 1..Len(g) : g[k] = x
    BY <1>6, <1>8 DEF Surjection
<1> QED
    BY <1>6, <1>9 DEF IsListing, g

\* The rows in the order of their identifiers.
Numbered(S) == IsFiniteSet(S) /\ \A x, y \in S : x.id \in Nat /\ (x.id = y.id => x = y)

Earlier(S, x) == {y \in S : y.id < x.id}

LEMMA ByIdLists ==
    ASSUME NEW S, Numbered(S)
    PROVE  /\ ById(S) \in Seq(S) /\ Len(ById(S)) = Cardinality(S)
           /\ \A x \in S : \E k \in 1..Len(ById(S)) : ById(S)[k] = x
           /\ \A k \in 1..Len(ById(S)) : Cardinality(Earlier(S, ById(S)[k])) = k - 1
<1> DEFINE n == Cardinality(S)
           before == [x \in S |-> Cardinality(Earlier(S, x)) + 1]
           s == ById(S)
<1>0. IsFiniteSet(S) /\ n \in Nat /\ \A x, y \in S : x.id \in Nat /\ (x.id = y.id => x = y)
    BY FS_CardinalityType DEF Numbered
<1>1. ASSUME NEW x \in S
      PROVE  /\ IsFiniteSet(Earlier(S, x)) /\ Cardinality(Earlier(S, x)) \in Nat
             /\ Cardinality(Earlier(S, x)) < n
  <2>1. Earlier(S, x) \subseteq S /\ x \notin Earlier(S, x)
      BY <1>0 DEF Earlier
  <2>2. Earlier(S, x) # S
      BY <2>1
  <2> QED
      BY <1>0, <2>1, <2>2, FS_Subset, FS_CardinalityType
<1>2. before \in [S -> 1..n]
  <2>1. \A x \in S : Cardinality(Earlier(S, x)) + 1 \in 1..n
      BY <1>0, <1>1
  <2> QED
      BY <2>1
<1>3. ASSUME NEW x \in S, NEW y \in S, x.id < y.id
      PROVE  Cardinality(Earlier(S, x)) < Cardinality(Earlier(S, y))
  <2>1. Earlier(S, x) \subseteq Earlier(S, y) /\ x \in Earlier(S, y) /\ x \notin Earlier(S, x)
      BY <1>0, <1>3 DEF Earlier
  <2>2. Earlier(S, x) # Earlier(S, y)
      BY <2>1
  <2> QED
      BY <1>1, <2>1, <2>2, FS_Subset
<1>4. ASSUME NEW x \in S, NEW y \in S, Cardinality(Earlier(S, x)) = Cardinality(Earlier(S, y))
      PROVE  x = y
  <2>1. x.id \in Nat /\ y.id \in Nat /\ ~(x.id < y.id) /\ ~(y.id < x.id)
      BY <1>0, <1>1, <1>3, <1>4
  <2>2. x.id = y.id
      BY <2>1
  <2> QED
      BY <1>0, <2>2
<1>5. before \in Injection(S, 1..n)
  <2>1. \A x, y \in S : before[x] = before[y] => x = y
      BY <1>1, <1>4
  <2> QED
      BY <1>2, <2>1 DEF Injection, IsInjective
<1>6. IsFiniteSet(1..n) /\ Cardinality(1..n) = n
    BY <1>0, FS_Interval
<1>7. before \in Surjection(S, 1..n)
    BY <1>5, <1>6, FS_Injection
<1> DEFINE At(k) == CHOOSE x \in S : Cardinality(Earlier(S, x)) = k - 1
<1>a. s = [k \in 1..n |-> At(k)]
    BY DEF ById, Earlier
<1> HIDE DEF s, n, At
<1>b. s = [k \in 1..n |-> s[k]] /\ \A k \in 1..n : s[k] = At(k)
    BY <1>a
<1>8. ASSUME NEW k \in 1..n
      PROVE  s[k] \in S /\ Cardinality(Earlier(S, s[k])) = k - 1
  <2>1. PICK x \in S : before[x] = k
      BY <1>7 DEF Surjection
  <2>2. Cardinality(Earlier(S, x)) = k - 1
      BY <1>1, <2>1
  <2>3. s[k] = CHOOSE y \in S : Cardinality(Earlier(S, y)) = k - 1
      BY <1>b DEF At
  <2> QED
      BY <2>2, <2>3
<1>10. s \in Seq(S) /\ Len(s) = n
    BY <1>0, <1>8, <1>b
<1>11. ASSUME NEW x \in S PROVE \E k \in 1..Len(s) : s[k] = x
  <2> DEFINE k == Cardinality(Earlier(S, x)) + 1
  <2>1. k \in 1..n /\ k - 1 = Cardinality(Earlier(S, x))
      BY <1>0, <1>1
  <2>2. s[k] \in S /\ Cardinality(Earlier(S, s[k])) = Cardinality(Earlier(S, x))
      BY <1>8, <2>1
  <2>3. s[k] = x
      BY <1>4, <2>2
  <2> QED
      BY <1>10, <2>1, <2>3
<1> QED
    BY <1>8, <1>10, <1>11 DEF s, n

\* The rules in the order of their ranks, equal ones in that of their identifiers.
RankOrdered(S) == Numbered(S) /\ \A x \in S : x.rank \in Nat

Ahead(S, x) == {y \in S : Precedes(y, x)}

LEMMA RankTotal ==
    ASSUME NEW S, RankOrdered(S)
    PROVE  /\ \A x \in S : ~Precedes(x, x)
           /\ \A x, y \in S : Precedes(x, y) \/ Precedes(y, x) \/ x = y
           /\ \A x, y, z \in S : Precedes(x, y) => (Precedes(y, z) => Precedes(x, z))
<1>1. \A x, y \in S : x.id \in Nat /\ x.rank \in Nat /\ (x.id = y.id => x = y)
    BY DEF RankOrdered, Numbered
<1>2. \A x \in S : ~Precedes(x, x)
    BY <1>1 DEF Precedes
<1>3. ASSUME NEW x \in S, NEW y \in S PROVE Precedes(x, y) \/ Precedes(y, x) \/ x = y
    BY <1>1 DEF Precedes
<1>4. ASSUME NEW x \in S, NEW y \in S, NEW z \in S, Precedes(x, y), Precedes(y, z)
      PROVE  Precedes(x, z)
    BY <1>1, <1>4 DEF Precedes
<1> QED
    BY <1>2, <1>3, <1>4

LEMMA ByRankLists ==
    ASSUME NEW S, RankOrdered(S)
    PROVE  /\ ByRank(S) \in Seq(S) /\ Len(ByRank(S)) = Cardinality(S)
           /\ \A x \in S : \E k \in 1..Len(ByRank(S)) : ByRank(S)[k] = x
           /\ \A k \in 1..Len(ByRank(S)) : Cardinality(Ahead(S, ByRank(S)[k])) = k - 1
<1> DEFINE n == Cardinality(S)
           before == [x \in S |-> Cardinality(Ahead(S, x)) + 1]
           s == ByRank(S)
<1>0. IsFiniteSet(S) /\ n \in Nat
    BY FS_CardinalityType DEF RankOrdered, Numbered
<1>p. /\ \A x \in S : ~Precedes(x, x)
      /\ \A x, y \in S : Precedes(x, y) \/ Precedes(y, x) \/ x = y
      /\ \A x, y, z \in S : Precedes(x, y) => (Precedes(y, z) => Precedes(x, z))
    BY RankTotal
<1>1. ASSUME NEW x \in S
      PROVE  /\ IsFiniteSet(Ahead(S, x)) /\ Cardinality(Ahead(S, x)) \in Nat
             /\ Cardinality(Ahead(S, x)) < n
  <2>1. Ahead(S, x) \subseteq S /\ x \notin Ahead(S, x)
      BY <1>p DEF Ahead
  <2>2. Ahead(S, x) # S
      BY <2>1
  <2> QED
      BY <1>0, <2>1, <2>2, FS_Subset, FS_CardinalityType
<1>2. before \in [S -> 1..n]
  <2>1. \A x \in S : Cardinality(Ahead(S, x)) + 1 \in 1..n
      BY <1>0, <1>1
  <2> QED
      BY <2>1
<1>3. ASSUME NEW x \in S, NEW y \in S, Precedes(x, y)
      PROVE  Cardinality(Ahead(S, x)) < Cardinality(Ahead(S, y))
  <2>1. Ahead(S, x) \subseteq Ahead(S, y) /\ x \in Ahead(S, y) /\ x \notin Ahead(S, x)
      BY <1>p, <1>3 DEF Ahead
  <2>2. Ahead(S, x) # Ahead(S, y)
      BY <2>1
  <2> QED
      BY <1>1, <2>1, <2>2, FS_Subset
<1>4. ASSUME NEW x \in S, NEW y \in S, Cardinality(Ahead(S, x)) = Cardinality(Ahead(S, y))
      PROVE  x = y
  <2>1. ~Precedes(x, y) /\ ~Precedes(y, x)
      BY <1>1, <1>3, <1>4
  <2> QED
      BY <1>p, <2>1
<1>5. before \in Injection(S, 1..n)
  <2>1. \A x, y \in S : before[x] = before[y] => x = y
      BY <1>1, <1>4
  <2> QED
      BY <1>2, <2>1 DEF Injection, IsInjective
<1>6. IsFiniteSet(1..n) /\ Cardinality(1..n) = n
    BY <1>0, FS_Interval
<1>7. before \in Surjection(S, 1..n)
    BY <1>5, <1>6, FS_Injection
<1> DEFINE At(k) == CHOOSE x \in S : Cardinality(Ahead(S, x)) = k - 1
<1>a. s = [k \in 1..n |-> At(k)]
    BY DEF ByRank, Ahead
<1> HIDE DEF s, n, At
<1>b. s = [k \in 1..n |-> s[k]] /\ \A k \in 1..n : s[k] = At(k)
    BY <1>a
<1>8. ASSUME NEW k \in 1..n
      PROVE  s[k] \in S /\ Cardinality(Ahead(S, s[k])) = k - 1
  <2>1. PICK x \in S : before[x] = k
      BY <1>7 DEF Surjection
  <2>2. Cardinality(Ahead(S, x)) = k - 1
      BY <1>1, <2>1
  <2>3. s[k] = CHOOSE y \in S : Cardinality(Ahead(S, y)) = k - 1
      BY <1>b DEF At
  <2> QED
      BY <2>2, <2>3
<1>10. s \in Seq(S) /\ Len(s) = n
    BY <1>0, <1>8, <1>b
<1>11. ASSUME NEW x \in S PROVE \E k \in 1..Len(s) : s[k] = x
  <2> DEFINE k == Cardinality(Ahead(S, x)) + 1
  <2>1. k \in 1..n /\ k - 1 = Cardinality(Ahead(S, x))
      BY <1>0, <1>1
  <2>2. s[k] \in S /\ Cardinality(Ahead(S, s[k])) = Cardinality(Ahead(S, x))
      BY <1>8, <2>1
  <2>3. s[k] = x
      BY <1>4, <2>2
  <2> QED
      BY <1>10, <2>1, <2>3
<1> QED
    BY <1>8, <1>10, <1>11 DEF s, n

LEMMA MinOfTwo ==
    ASSUME NEW a \in Int, NEW b \in Int
    PROVE  Min({a, b}) = IF a <= b THEN a ELSE b
<1> DEFINE m == IF a <= b THEN a ELSE b
<1>1. m \in {a, b} /\ \A y \in {a, b} : m <= y
    OBVIOUS
<1>2. \A x \in {a, b} : (\A y \in {a, b} : x <= y) => x = m
    OBVIOUS
<1> QED
    BY <1>1, <1>2 DEF Min

IsRows(r, S, s, from, limit) ==
    /\ r \in Seq(S) /\ Len(r) = IF from + limit <= Len(s) THEN limit ELSE Len(s) - from
    /\ \A i \in 1..Len(r) : r[i] = s[from + i]

LEMMA RowsAre ==
    ASSUME NEW S, NEW s \in Seq(S), NEW from \in 0..Len(s), NEW limit \in Nat
    PROVE  IsRows(Rows(s, from, limit), S, s, from, limit)
<1> DEFINE end == IF from + limit <= Len(s) THEN from + limit ELSE Len(s)
<1>1. Len(s) \in Nat /\ end \in from..Len(s)
    OBVIOUS
<1>2. Min({from + limit, Len(s)}) = end
    BY MinOfTwo
<1>3. Rows(s, from, limit) = SubSeq(s, from + 1, end)
    BY <1>2 DEF Rows
<1> HIDE DEF end
<1>4. /\ SubSeq(s, from + 1, end) \in Seq(S)
      /\ Len(SubSeq(s, from + 1, end)) = end - from
      /\ \A i \in 1..(end - from) : SubSeq(s, from + 1, end)[i] = s[from + i]
    BY <1>1
<1> QED
    BY <1>1, <1>3, <1>4 DEF end, IsRows

\* A page begins where the last one ended, and the token tells where it ends.
EndOf(s, next) == IF next = 0 THEN Len(s) ELSE next

IsPage(page, s, from) ==
    /\ page.next \in 0..Len(s) /\ EndOf(s, page.next) \in from..Len(s)
    /\ Len(page.rows) = EndOf(s, page.next) - from
    /\ \A i \in 1..Len(page.rows) : page.rows[i] = s[from + i]

LEMMA PageIs ==
    ASSUME NEW S, NEW s \in Seq(S), NEW from \in 0..Len(s), NEW limit \in Nat \ {0}
    PROVE  IsPage(Page(s, from, limit), s, from) /\ Page(s, from, limit).rows \in Seq(S)
<1> DEFINE some == Rows(s, from, limit + 1)
           rows == Rows(some, 0, limit)
           next == IF Len(some) > limit THEN from + limit ELSE 0
<1>0. Len(s) \in Nat /\ limit + 1 \in Nat /\ limit \in Nat
    OBVIOUS
<1>1. IsRows(some, S, s, from, limit + 1)
    BY <1>0, RowsAre
<1> HIDE DEF some
<1>2. some \in Seq(S) /\ Len(some) \in Nat
    BY <1>1 DEF IsRows
<1>3. IsRows(rows, S, some, 0, limit)
    BY <1>0, <1>2, RowsAre
<1> HIDE DEF rows
<1>4. rows \in Seq(S) /\ Len(rows) = IF limit <= Len(some) THEN limit ELSE Len(some)
    BY <1>0, <1>2, <1>3 DEF IsRows
<1>5. Len(some) = IF from + (limit + 1) <= Len(s) THEN limit + 1 ELSE Len(s) - from
    BY <1>1 DEF IsRows
<1>6. next \in 0..Len(s)
    BY <1>0, <1>2, <1>5
<1>7. EndOf(s, next) \in from..Len(s) /\ Len(rows) = EndOf(s, next) - from
  <2>1. CASE Len(some) > limit
      BY <1>0, <1>2, <1>4, <1>5, <2>1 DEF EndOf
  <2>2. CASE ~(Len(some) > limit)
      BY <1>0, <1>2, <1>4, <1>5, <2>2 DEF EndOf
  <2> QED
      BY <2>1, <2>2
<1>8. ASSUME NEW i \in 1..Len(rows) PROVE rows[i] = s[from + i]
  <2>1. i \in 1..Len(some) /\ 0 + i = i
      BY <1>0, <1>2, <1>4
  <2>2. rows[i] = some[0 + i] /\ some[i] = s[from + i]
      BY <1>1, <1>3, <2>1 DEF IsRows
  <2> QED
      BY <2>1, <2>2
<1>9. Page(s, from, limit).rows = rows /\ Page(s, from, limit).next = next
    BY DEF Page, some, rows
<1> QED
    BY <1>4, <1>6, <1>7, <1>8, <1>9 DEF IsPage

-----------------------------------------------------------------------------
(* The tables: finite, because their keys and identifiers are.             *)

LEMMA KeyedIsFinite ==
    ASSUME NEW S, NEW K, IsFiniteSet(K), \A x \in S : x.key \in K,
           \A x, y \in S : x.key = y.key => x = y
    PROVE  IsFiniteSet(S)
<1> DEFINE f == [x \in S |-> x.key]
<1>1. f \in Injection(S, K)
    BY DEF Injection, IsInjective
<1> QED
    BY <1>1, FS_Injection

LEMMA RowsNumbered ==
    ASSUME NEW S, \A x \in S : x.id \in Id, \A x, y \in S : x.id = y.id => x = y
    PROVE  Numbered(S)
<1> DEFINE f == [x \in S |-> x.id]
<1>1. f \in Injection(S, Id)
    BY DEF Injection, IsInjective
<1>2. IsFiniteSet(S)
    BY <1>1, FS_Injection, TransferAssumption
<1> QED
    BY <1>2, TransferAssumption DEF Numbered

FlagsIn(d, n) == {x \in d.flags : x.ns = n}
SegmentsIn(d, n) == {x \in d.segments : x.ns = n}
RulesIn(d, n, f) == {r \in d.rules : r.ns = n /\ r.flag = f}
RolloutsIn(d, n, f) == {r \in d.rollouts : r.ns = n /\ r.flag = f}
VariantsIn(d, n, f) == {v \in d.variants : v.ns = n /\ v.flag = f}
DistributionsOf(d, i) == {x \in d.distributions : x.rule = i}
ConstraintsIn(d, n, s) == {k \in d.constraints : k.ns = n /\ k.segment = s}

Tables(d) == d \in Database /\ Acceptable(d) /\ UniqueIds(d)

LEMMA TablesFinite ==
    ASSUME NEW d, Tables(d), NEW n, NEW f, NEW i
    PROVE  /\ IsFiniteSet(FlagsIn(d, n)) /\ IsFiniteSet(SegmentsIn(d, n))
           /\ Numbered(RulesIn(d, n, f)) /\ Numbered(RolloutsIn(d, n, f))
           /\ Numbered(VariantsIn(d, n, f)) /\ Numbered(DistributionsOf(d, i))
           /\ Numbered(ConstraintsIn(d, n, f))
<1>1. /\ d.flags \subseteq FlagRow /\ d.variants \subseteq VariantRow
      /\ d.segments \subseteq SegmentRow /\ d.constraints \subseteq ConstraintsRow
      /\ d.rules \subseteq RuleRow /\ d.distributions \subseteq DistributionRow
      /\ d.rollouts \subseteq RolloutRow
    BY Fields DEF Tables
<1>2. /\ \A x, y \in d.variants : x.id = y.id => x = y
      /\ \A x, y \in d.rules : x.id = y.id => x = y
      /\ \A x, y \in d.rollouts : x.id = y.id => x = y
      /\ \A x, y \in d.constraints : x.id = y.id => x = y
      /\ \A x, y \in d.distributions : x.id = y.id => x = y
    BY UniqueTables DEF Tables
<1>3. IsFiniteSet(FlagsIn(d, n))
  <2>1. \A x \in FlagsIn(d, n) : x.key \in FlagKey
      BY <1>1 DEF FlagsIn, FlagRow
  <2>2. \A x, y \in FlagsIn(d, n) : x.key = y.key => x = y
      BY DEF FlagsIn, Tables, Acceptable, UniqueKeys
  <2> QED
      BY <2>1, <2>2, KeyedIsFinite, TransferAssumption
<1>4. IsFiniteSet(SegmentsIn(d, n))
  <2>1. \A x \in SegmentsIn(d, n) : x.key \in SegmentKey
      BY <1>1 DEF SegmentsIn, SegmentRow
  <2>2. \A x, y \in SegmentsIn(d, n) : x.key = y.key => x = y
      BY DEF SegmentsIn, Tables, Acceptable, UniqueKeys
  <2> QED
      BY <2>1, <2>2, KeyedIsFinite, TransferAssumption
<1>5. Numbered(RulesIn(d, n, f))
    BY <1>1, <1>2, RowsNumbered DEF RulesIn, RuleRow
<1>6. Numbered(RolloutsIn(d, n, f))
    BY <1>1, <1>2, RowsNumbered DEF RolloutsIn, RolloutRow
<1>7. Numbered(VariantsIn(d, n, f))
    BY <1>1, <1>2, RowsNumbered DEF VariantsIn, VariantRow
<1>8. Numbered(DistributionsOf(d, i))
    BY <1>1, <1>2, RowsNumbered DEF DistributionsOf, DistributionRow
<1>9. Numbered(ConstraintsIn(d, n, f))
    BY <1>1, <1>2, RowsNumbered DEF ConstraintsIn, ConstraintsRow
<1> QED
    BY <1>3, <1>4, <1>5, <1>6, <1>7, <1>8, <1>9

LEMMA RulesOrdered ==
    ASSUME NEW d, Tables(d), NEW n, NEW f
    PROVE  RankOrdered(RulesIn(d, n, f))
<1>1. Numbered(RulesIn(d, n, f))
    BY TablesFinite
<1>2. d.rules \subseteq RuleRow
    BY Fields DEF Tables
<1> QED
    BY <1>1, <1>2 DEF RankOrdered, RulesIn, RuleRow

-----------------------------------------------------------------------------
(* Export.  What it writes of a flag and of a segment, from tables d.      *)

RulesListed(d, x) ==
    LET rules == ByRank(RulesIn(d, x.ns, x.key))
    IN  [k \in DOMAIN rules |-> ExportedRule(d, rules[k], FlagVariants(d, x.ns, x.key))]

RolloutsListed(d, x) ==
    LET rollouts == ById(RolloutsIn(d, x.ns, x.key))
    IN  [k \in DOMAIN rollouts |-> ExportedRollout(d, rollouts[k])]

KeysListed(variants) == [k \in DOMAIN variants |-> variants[k].key]

FlagListed(d, x) ==
    [key |-> x.key, enabled |-> x.enabled,
     variants |-> KeysListed(FlagVariants(d, x.ns, x.key)),
     rules |-> RulesListed(d, x), rollouts |-> RolloutsListed(d, x)]

ValuesListed(d, n, s) ==
    LET c == Constraints(d, n, s) IN [j \in DOMAIN c |-> c[j].value]

SegmentListed(d, s) ==
    [key |-> s.key, match |-> s.match, constraints |-> ValuesListed(d, s.ns, s.key)]

AllFlags(d, n) == SetToSeq(FlagsIn(d, n))
AllSegments(d, n) == SetToSeq(SegmentsIn(d, n))

FlagsTo(d, s, m) == {FlagListed(d, s[i]) : i \in 1..m}
SegmentsTo(d, s, m) == {SegmentListed(d, s[i]) : i \in 1..m}

FlagDocs(d) == {FlagListed(d, x) : x \in d.flags}
SegmentDocs(d) == {SegmentListed(d, x) : x \in d.segments}

\* A document that has everything of its namespace.
FullDocs(d) ==
    {c \in [ns : Namespace, flags : Seq(FlagDocs(d)), segments : Seq(SegmentDocs(d))] :
       /\ ToSet(c.flags) = {FlagListed(d, x) : x \in FlagsIn(d, c.ns)}
       /\ ToSet(c.segments) = {SegmentListed(d, x) : x \in SegmentsIn(d, c.ns)}}

\* A flag of the page, before and after its rules are listed.
PendingIn(d, n) ==
    {p \in [row : FlagsIn(d, n), variants : {FlagVariants(d, n, f) : f \in FlagKey},
            rules : {<<>>} \cup {RulesListed(d, x) : x \in FlagsIn(d, n)}] :
       p.variants = FlagVariants(d, n, p.row.key)}

PendingDocs(d, s) == {FlagListed(d, s[k].row) : k \in 1..Len(s)}

(***************************************************************************)
(* The invariant of an export during which nothing changed: the documents  *)
(* written are full, and the one being written has everything up to the    *)
(* offset, or, while a page is gone through, up to the end of the page     *)
(* but for the flags that are pending.                                     *)
(***************************************************************************)
ExportType ==
    /\ batch \in Nat \ {0} /\ names \in Seq(Namespace)
    /\ doc = [ns |-> doc.ns, flags |-> doc.flags, segments |-> doc.segments]
    /\ phase \in {"idle", "namespaces"} =>
         offset = 0 /\ doc = NoDoc /\ docs = <<>>
    /\ phase \in {"rules", "rollouts", "segments"} => names # <<>>

AtFlags(d) ==
    /\ doc.flags \in Seq(FlagDocs(d)) /\ doc.segments = <<>>
    /\ offset \in 0..Len(AllFlags(d, Head(names)))
    /\ ToSet(doc.flags) = FlagsTo(d, AllFlags(d, Head(names)), offset)

AtPage(d) ==
    /\ names # <<>> /\ doc.ns = Head(names)
    /\ doc.flags \in Seq(FlagDocs(d)) /\ doc.segments = <<>>
    /\ pending \in Seq(PendingIn(d, Head(names)))
    /\ offset \in 0..Len(AllFlags(d, Head(names)))
    /\ ToSet(doc.flags) \cup PendingDocs(d, pending) =
         FlagsTo(d, AllFlags(d, Head(names)), EndOf(AllFlags(d, Head(names)), offset))
    /\ phase = "rollouts" =>
         pending # <<>> /\ pending[1].rules = RulesListed(d, pending[1].row)

AtSegments(d) ==
    /\ names # <<>> /\ doc.ns = Head(names)
    /\ doc.flags \in Seq(FlagDocs(d)) /\ doc.segments \in Seq(SegmentDocs(d))
    /\ ToSet(doc.flags) = {FlagListed(d, x) : x \in FlagsIn(d, doc.ns)}
    /\ offset \in 0..Len(AllSegments(d, doc.ns))
    /\ ToSet(doc.segments) = SegmentsTo(d, AllSegments(d, doc.ns), offset)

ExportSound(d) ==
    /\ phase \in {"flags", "rules", "rollouts", "segments", "exported"} =>
         docs \in Seq(FullDocs(d))
    /\ phase = "flags" => AtFlags(d)
    /\ phase \in {"rules", "rollouts"} => AtPage(d)
    /\ phase = "segments" => AtSegments(d)

ExportInv == ExportType /\ (~disturbed => ExportSound(db))

LEMMA ToSetAppend ==
    ASSUME NEW S, NEW s \in Seq(S), NEW e \in S
    PROVE  ToSet(Append(s, e)) = ToSet(s) \cup {e}
<1> DEFINE t == Append(s, e)
<1>1. /\ Len(s) \in Nat /\ DOMAIN s = 1..Len(s) /\ DOMAIN t = 1..(Len(s) + 1)
      /\ t[Len(s) + 1] = e /\ \A i \in 1..Len(s) : t[i] = s[i]
    OBVIOUS
<1> HIDE DEF t
<1>2. \A i \in 1..(Len(s) + 1) : i \in 1..Len(s) \/ i = Len(s) + 1
    BY <1>1
<1>3. \A i \in 1..Len(s) : i \in 1..(Len(s) + 1)
    BY <1>1
<1>4. Len(s) + 1 \in 1..(Len(s) + 1)
    BY <1>1
<1>5. ToSet(t) = ToSet(s) \cup {e}
    BY <1>1, <1>2, <1>3, <1>4 DEF ToSet
<1> QED
    BY <1>5 DEF t

LEMMA ToSetConcat ==
    ASSUME NEW S, NEW s \in Seq(S), NEW t \in Seq(S)
    PROVE  ToSet(s \o t) = ToSet(s) \cup ToSet(t)
<1>1. s \o t \in Seq(S) /\ Len(s \o t) = Len(s) + Len(t) /\ Len(s) \in Nat /\ Len(t) \in Nat
    OBVIOUS
<1>2. /\ \A i \in 1..Len(s) : (s \o t)[i] = s[i]
      /\ \A i \in 1..Len(t) : (s \o t)[Len(s) + i] = t[i]
    OBVIOUS
<1>3. \A i \in 1..(Len(s) + Len(t)) : i \in 1..Len(s) \/ i - Len(s) \in 1..Len(t)
    BY <1>1
<1>4. DOMAIN (s \o t) = 1..(Len(s) + Len(t)) /\ DOMAIN s = 1..Len(s) /\ DOMAIN t = 1..Len(t)
    BY <1>1
<1>5. ASSUME NEW x \in ToSet(s \o t) PROVE x \in ToSet(s) \cup ToSet(t)
  <2>1. PICK i \in 1..(Len(s) + Len(t)) : x = (s \o t)[i]
      BY <1>4 DEF ToSet
  <2>2. CASE i \in 1..Len(s)
      BY <1>2, <1>4, <2>1, <2>2 DEF ToSet
  <2>3. CASE i - Len(s) \in 1..Len(t)
    <3>1. Len(s) + (i - Len(s)) = i
        BY <1>1
    <3>2. x = t[i - Len(s)]
        BY <1>2, <2>1, <2>3, <3>1
    <3> QED
        BY <1>4, <2>3, <3>2 DEF ToSet
  <2> QED
      BY <1>3, <2>2, <2>3
<1>6. ASSUME NEW x \in ToSet(s) \cup ToSet(t) PROVE x \in ToSet(s \o t)
  <2>1. CASE x \in ToSet(s)
    <3>1. PICK i \in 1..Len(s) : x = s[i]
        BY <1>4, <2>1 DEF ToSet
    <3>2. i \in 1..(Len(s) + Len(t)) /\ x = (s \o t)[i]
        BY <1>1, <1>2, <3>1
    <3> QED
        BY <1>4, <3>2 DEF ToSet
  <2>2. CASE x \in ToSet(t)
    <3>1. PICK i \in 1..Len(t) : x = t[i]
        BY <1>4, <2>2 DEF ToSet
    <3>2. Len(s) + i \in 1..(Len(s) + Len(t)) /\ x = (s \o t)[Len(s) + i]
        BY <1>1, <1>2, <3>1
    <3> QED
        BY <1>4, <3>2 DEF ToSet
  <2> QED
      BY <2>1, <2>2
<1> QED
    BY <1>5, <1>6

LEMMA NamesType ==
    ASSUME NEW some \in Seq(Namespace)
    PROVE  Rows(some, 0, MaxListed) \in Seq(Namespace)
<1>1. 0 \in 0..Len(some) /\ MaxListed \in Nat
    BY TransferAssumption
<1> QED
    BY <1>1, RowsAre DEF IsRows

\* A listing of tables, and its pages.
LEMMA ListingPage ==
    ASSUME NEW S, IsFiniteSet(S), batch \in Nat \ {0}, NEW from \in 0..Len(SetToSeq(S))
    PROVE  /\ IsPage(Page(SetToSeq(S), from, batch), SetToSeq(S), from)
           /\ Page(SetToSeq(S), from, batch).rows \in Seq(S)
           /\ SetToSeq(S) \in Seq(S)
           /\ {SetToSeq(S)[i] : i \in 1..Len(SetToSeq(S))} = S
<1>1. IsListing(SetToSeq(S), S)
    BY SetToSeqLists
<1> DEFINE s == SetToSeq(S)
<1> HIDE DEF s
<1>2. s \in Seq(S) /\ \A x \in S : \E k \in 1..Len(s) : s[k] = x
    BY <1>1 DEF IsListing, s
<1>3. {s[i] : i \in 1..Len(s)} = S
    BY <1>2
<1>4. from \in 0..Len(s)
    BY DEF s
<1>5. IsPage(Page(s, from, batch), s, from) /\ Page(s, from, batch).rows \in Seq(S)
    BY <1>2, <1>4, PageIs
<1> QED
    BY <1>2, <1>3, <1>5 DEF s

\* An empty document has the flags up to the offset 0.
LEMMA NothingListed ==
    ASSUME Tables(db), db' = db, doc' = NoDoc, offset' = 0
    PROVE  AtFlags(db)'
<1> DEFINE F == AllFlags(db', Head(names'))
<1>1. NoDoc.flags = <<>> /\ NoDoc.segments = <<>>
    BY DEF NoDoc
<1>2. F \in Seq(FlagsIn(db', Head(names')))
    BY TablesFinite, SetToSeqLists DEF IsListing, AllFlags
<1>3. 0 \in 0..Len(F)
    BY <1>2
<1>4. ToSet(<<>>) = {} /\ FlagsTo(db', F, 0) = {}
    BY DEF ToSet, FlagsTo
<1> HIDE DEF F
<1>5. <<>> \in Seq(FlagDocs(db'))
    OBVIOUS
<1>6. doc'.flags = <<>> /\ doc'.segments = <<>>
    BY <1>1, Zenon
<1>7. /\ doc'.flags \in Seq(FlagDocs(db')) /\ offset' \in 0..Len(F)
      /\ ToSet(doc'.flags) = FlagsTo(db', F, offset')
    BY <1>3, <1>4, <1>5, <1>6, Zenon
<1> QED
    BY <1>6, <1>7, Zenon DEF AtFlags, F

LEMMA BeginExportStep ==
    ASSUME Tables(db), ExportInv, NEW some, NEW everything, BeginExport(some, everything),
           ~everything => some \in Seq(Namespace), db' = db
    PROVE  ExportInv'
<1>1. /\ offset = 0 /\ doc = NoDoc /\ docs = <<>> /\ ExportType
      /\ UNCHANGED <<batch, offset, pending, doc, docs, disturbed>>
    BY DEF ExportInv, ExportType, BeginExport
<1>2. names' \in Seq(Namespace) /\ phase' \in {"namespaces", "flags"}
    BY DEF BeginExport
<1>3. ExportType'
    BY <1>1, <1>2 DEF ExportType
<1>4. AtFlags(db)'
    BY <1>1, NothingListed
<1> QED
    BY <1>1, <1>2, <1>3, <1>4 DEF ExportInv, ExportSound

LEMMA ListNamespacesStep ==
    ASSUME Tables(db), ExportInv, ListNamespaces, db' = db
    PROVE  ExportInv'
<1> DEFINE page == Page(SetToSeq(db.namespaces), 0, batch)
<1>1. /\ offset = 0 /\ doc = NoDoc /\ docs = <<>> /\ ExportType /\ batch \in Nat \ {0}
      /\ names \in Seq(Namespace) /\ UNCHANGED <<batch, offset, pending, doc, docs, disturbed>>
    BY DEF ExportInv, ExportType, ListNamespaces
<1>2. db.namespaces \subseteq Namespace
    BY Fields DEF Tables
<1>3. page.rows \in Seq(Namespace)
  <2>1. IsFiniteSet(db.namespaces)
      BY <1>2, FS_Subset, TransferAssumption
  <2>2. SetToSeq(db.namespaces) \in Seq(db.namespaces)
      BY <2>1, SetToSeqLists DEF IsListing
  <2>3. 0 \in 0..Len(SetToSeq(db.namespaces))
      BY <2>2
  <2>4. page.rows \in Seq(db.namespaces)
      BY <1>1, <2>1, <2>3, ListingPage
  <2> QED
      BY <1>2, <2>4
<1>4. names' \in Seq(Namespace) /\ phase' \in {"namespaces", "flags"}
  <2>1. names \o page.rows \in Seq(Namespace)
      BY <1>1, <1>3
  <2> QED
      BY <2>1, NamesType DEF ListNamespaces
<1>5. ExportType'
    BY <1>1, <1>4 DEF ExportType
<1>6. AtFlags(db)'
    BY <1>1, NothingListed
<1> QED
    BY <1>1, <1>4, <1>5, <1>6 DEF ExportInv, ExportSound

PageOf(page, S, s, from) ==
    s \in Seq(S) /\ from \in 0..Len(s) /\ IsPage(page, s, from) /\ page.rows \in Seq(S)
PageFlags(d, rows) == {FlagListed(d, rows[k]) : k \in 1..Len(rows)}
PageSegments(d, rows) == {SegmentListed(d, rows[k]) : k \in 1..Len(rows)}

\* What is listed up to a page and with the page is what is listed to its end.
LEMMA NextFlags ==
    ASSUME NEW d, NEW S, NEW s, NEW from, NEW page, PageOf(page, S, s, from)
    PROVE  FlagsTo(d, s, from) \cup PageFlags(d, page.rows) = FlagsTo(d, s, EndOf(s, page.next))
<1> DEFINE end == EndOf(s, page.next)
           rows == page.rows
<1>1. /\ Len(s) \in Nat /\ end \in from..Len(s) /\ Len(rows) = end - from
      /\ from \in Nat /\ \A i \in 1..Len(rows) : rows[i] = s[from + i]
    BY DEF IsPage, PageOf
<1> HIDE DEF end, rows
<1>2. \A i \in 1..end : i \in 1..from \/ (i - from \in 1..Len(rows) /\ from + (i - from) = i)
    BY <1>1
<1>3. /\ \A i \in 1..from : i \in 1..end
      /\ \A i \in 1..Len(rows) : from + i \in 1..end
    BY <1>1
<1>4. FlagsTo(d, s, from) \cup PageFlags(d, rows) = FlagsTo(d, s, end)
  <2>1. \A i \in 1..end : \/ FlagListed(d, s[i]) \in FlagsTo(d, s, from)
                          \/ FlagListed(d, s[i]) \in PageFlags(d, rows)
    <3> SUFFICES ASSUME NEW i \in 1..end, i \notin 1..from
                 PROVE  FlagListed(d, s[i]) \in PageFlags(d, rows)
        BY DEF FlagsTo, PageFlags
    <3>1. i - from \in 1..Len(rows) /\ rows[i - from] = s[i]
        BY <1>1, <1>2
    <3> QED
        BY <3>1 DEF PageFlags
  <2>2. \A i \in 1..Len(rows) : FlagListed(d, rows[i]) \in FlagsTo(d, s, end)
      BY <1>1, <1>3 DEF FlagsTo, PageFlags
  <2>3. \A i \in 1..from : FlagListed(d, s[i]) \in FlagsTo(d, s, end)
      BY <1>3 DEF FlagsTo, PageFlags
  <2> QED
      BY <2>1, <2>2, <2>3 DEF FlagsTo, PageFlags
<1> QED
    BY <1>4 DEF end, rows

LEMMA NextSegments ==
    ASSUME NEW d, NEW S, NEW s, NEW from, NEW page, PageOf(page, S, s, from)
    PROVE  SegmentsTo(d, s, from) \cup PageSegments(d, page.rows)
             = SegmentsTo(d, s, EndOf(s, page.next))
<1> DEFINE end == EndOf(s, page.next)
           rows == page.rows
<1>1. /\ Len(s) \in Nat /\ end \in from..Len(s) /\ Len(rows) = end - from
      /\ from \in Nat /\ \A i \in 1..Len(rows) : rows[i] = s[from + i]
    BY DEF IsPage, PageOf
<1> HIDE DEF end, rows
<1>2. \A i \in 1..end : i \in 1..from \/ (i - from \in 1..Len(rows) /\ from + (i - from) = i)
    BY <1>1
<1>3. /\ \A i \in 1..from : i \in 1..end
      /\ \A i \in 1..Len(rows) : from + i \in 1..end
    BY <1>1
<1>4. SegmentsTo(d, s, from) \cup PageSegments(d, rows)
        = SegmentsTo(d, s, end)
  <2>1. \A i \in 1..end :
            \/ SegmentListed(d, s[i]) \in SegmentsTo(d, s, from)
            \/ SegmentListed(d, s[i]) \in PageSegments(d, rows)
    <3> SUFFICES ASSUME NEW i \in 1..end, i \notin 1..from
                 PROVE  SegmentListed(d, s[i]) \in PageSegments(d, rows)
        BY DEF SegmentsTo, PageSegments
    <3>1. i - from \in 1..Len(rows) /\ rows[i - from] = s[i]
        BY <1>1, <1>2
    <3> QED
        BY <3>1 DEF PageSegments
  <2>2. \A i \in 1..Len(rows) : SegmentListed(d, rows[i]) \in SegmentsTo(d, s, end)
      BY <1>1, <1>3 DEF SegmentsTo, PageSegments
  <2>3. \A i \in 1..from : SegmentListed(d, s[i]) \in SegmentsTo(d, s, end)
      BY <1>3 DEF SegmentsTo, PageSegments
  <2> QED
      BY <2>1, <2>2, <2>3 DEF SegmentsTo, PageSegments
<1> QED
    BY <1>4 DEF end, rows

LEMMA ListFlagsStep ==
    ASSUME Tables(db), ExportInv, ListFlags, db' = db
    PROVE  ExportInv'
<1> DEFINE n == Head(names)
           S == FlagsIn(db, n)
           F == AllFlags(db, n)
           page == Page(F, offset, batch)
           rows == page.rows
<1>1. /\ ExportType /\ batch \in Nat \ {0} /\ names # <<>> /\ phase = "flags" /\ phase' = "rules"
      /\ names \in Seq(Namespace) /\ doc' = [doc EXCEPT !.ns = n] /\ offset' = page.next
      /\ UNCHANGED <<batch, names, docs, disturbed>>
    BY DEF ExportInv, ExportType, ListFlags, AllFlags, FlagsIn
<1>2. pending' = [k \in DOMAIN rows |->
                    [row |-> rows[k], variants |-> FlagVariants(db, n, rows[k].key),
                     rules |-> <<>>]]
    BY DEF ListFlags, AllFlags, FlagsIn
<1>3. /\ doc' = [ns |-> n, flags |-> doc.flags, segments |-> doc.segments]
      /\ doc'.ns = n /\ doc'.flags = doc.flags /\ doc'.segments = doc.segments
  <2>1. doc = [ns |-> doc.ns, flags |-> doc.flags, segments |-> doc.segments]
      BY <1>1 DEF ExportType
  <2> HIDE DEF n
  <2> QED
      BY <1>1, <2>1
<1>4. ExportType'
    BY <1>1, <1>3 DEF ExportType
<1>5. ASSUME ~disturbed PROVE AtPage(db)' /\ docs \in Seq(FullDocs(db))
  <2>1. AtFlags(db) /\ docs \in Seq(FullDocs(db))
      BY <1>1, <1>5 DEF ExportInv, ExportSound
  <2>2. IsFiniteSet(S) /\ offset \in 0..Len(SetToSeq(S))
      BY <2>1, TablesFinite DEF AtFlags, AllFlags
  <2>3. IsPage(page, F, offset) /\ rows \in Seq(S) /\ F \in Seq(S)
      BY <1>1, <2>2, ListingPage DEF AllFlags
  <2>4. FlagsTo(db, F, offset) \cup PageFlags(db, rows)
          = FlagsTo(db, F, EndOf(F, page.next))
    <3>1. offset \in 0..Len(F)
        BY <2>2 DEF AllFlags
    <3>2. IsPage(page, F, offset) /\ page.rows \in Seq(S) /\ F \in Seq(S)
        BY <2>3
    <3> HIDE DEF F, page, S, rows
    <3>3. FlagsTo(db, F, offset) \cup PageFlags(db, page.rows) = FlagsTo(db, F, EndOf(F, page.next))
      <4>1. PageOf(page, S, F, offset)
          BY <3>1, <3>2 DEF PageOf
      <4> QED
          BY <4>1, NextFlags
    <3> QED
        BY <3>3 DEF rows
  <2>5. offset' \in 0..Len(F)
      BY <1>1, <2>3 DEF IsPage
  <2>6. pending' \in Seq(PendingIn(db, n))
    <3>0. DOMAIN rows = 1..Len(rows) /\ Len(rows) \in Nat /\ \A k \in 1..Len(rows) : rows[k] \in S
        BY <2>3
    <3>1. \A k \in 1..Len(rows) : rows[k].key \in FlagKey
        BY <3>0, Fields DEF Tables, FlagsIn, FlagRow
    <3>2. ASSUME NEW k \in 1..Len(rows)
          PROVE  [row |-> rows[k], variants |-> FlagVariants(db, n, rows[k].key),
                  rules |-> <<>>] \in PendingIn(db, n)
        BY <3>0, <3>1 DEF PendingIn
    <3> HIDE DEF n, rows
    <3> QED
        BY <1>2, <3>0, <3>2
  <2>7. PendingDocs(db, pending') = PageFlags(db, rows)
    <3>0. DOMAIN rows = 1..Len(rows) /\ Len(rows) \in Nat
        BY <2>3
    <3> HIDE DEF n, rows
    <3>1. Len(pending') = Len(rows) /\ \A k \in 1..Len(rows) : pending'[k].row = rows[k]
        BY <1>2, <3>0
    <3> QED
        BY <3>1 DEF PendingDocs, PageFlags
  <2>8. /\ doc.flags \in Seq(FlagDocs(db)) /\ doc.segments = <<>>
        /\ ToSet(doc.flags) = FlagsTo(db, F, offset)
      BY <2>1 DEF AtFlags
  <2>9. ToSet(doc'.flags) \cup PendingDocs(db, pending') = FlagsTo(db, F, EndOf(F, offset'))
      BY <1>1, <1>3, <2>4, <2>7, <2>8
  <2>10. Head(names') = n /\ names' # <<>> /\ phase' # "rollouts"
      BY <1>1
  <2>11. doc'.segments = <<>>
      BY <1>3, <2>8, Zenon
  <2> HIDE DEF n, F
  <2>12. AtPage(db)'
      BY <1>3, <2>1, <2>5, <2>6, <2>8, <2>9, <2>10, <2>11 DEF AtPage, F
  <2> QED
      BY <2>1, <2>12
<1> QED
    BY <1>1, <1>4, <1>5 DEF ExportInv, ExportSound

LEMMA PendingIs ==
    ASSUME NEW d, NEW n, NEW p \in PendingIn(d, n)
    PROVE  /\ p = [row |-> p.row, variants |-> p.variants, rules |-> p.rules]
           /\ p.row \in FlagsIn(d, n) /\ p.row.ns = n
           /\ p.variants = FlagVariants(d, p.row.ns, p.row.key)
BY DEF PendingIn, FlagsIn

LEMMA ListRulesStep ==
    ASSUME Tables(db), ExportInv, ListRules, db' = db
    PROVE  ExportInv'
<1> DEFINE n == Head(names)
           f == Head(pending)
           rules == ByRank({r \in db.rules : r.ns = f.row.ns /\ r.flag = f.row.key})
           listed == [k \in DOMAIN rules |-> ExportedRule(db, rules[k], f.variants)]
<1>1. /\ ExportType /\ phase = "rules" /\ phase' \in {"failed", "rollouts"} /\ pending # <<>>
      /\ phase' = "rollouts" => pending' = [pending EXCEPT ![1].rules = listed]
      /\ UNCHANGED <<batch, offset, names, doc, docs, disturbed>>
    BY DEF ExportInv, ListRules
<1>2. ExportType'
    BY <1>1 DEF ExportType
<1>3. ASSUME ~disturbed, phase' = "rollouts" PROVE AtPage(db)' /\ docs \in Seq(FullDocs(db))
  <2>1. AtPage(db) /\ docs \in Seq(FullDocs(db))
      BY <1>1, <1>3 DEF ExportInv, ExportSound
  <2>2. pending \in Seq(PendingIn(db, n))
      BY <2>1 DEF AtPage
  <2>3. f \in PendingIn(db, n) /\ f = pending[1] /\ Len(pending) \in Nat /\ 1 \in 1..Len(pending)
      BY <1>1, <2>2
  <2>4. /\ f = [row |-> f.row, variants |-> f.variants, rules |-> f.rules]
        /\ f.row \in FlagsIn(db, n) /\ f.variants = FlagVariants(db, f.row.ns, f.row.key)
    <3> HIDE DEF f, n
    <3> QED
        BY <2>3, PendingIs
  <2>5. listed = RulesListed(db, f.row)
      BY <2>4 DEF RulesListed, RulesIn
  <2> HIDE DEF listed, f, n
  <2>6. pending' = [pending EXCEPT ![1] = [row |-> f.row, variants |-> f.variants, rules |-> listed]]
      BY <1>1, <1>3, <2>2, <2>3, <2>4
  <2>7. [row |-> f.row, variants |-> f.variants, rules |-> listed] \in PendingIn(db, n)
      BY <2>3, <2>4, <2>5 DEF PendingIn
  <2>8. /\ pending' \in Seq(PendingIn(db, n)) /\ Len(pending') = Len(pending) /\ pending' # <<>>
        /\ pending'[1] = [row |-> f.row, variants |-> f.variants, rules |-> listed]
        /\ \A k \in 1..Len(pending) : k # 1 => pending'[k] = pending[k]
      BY <2>2, <2>3, <2>6, <2>7
  <2>9. \A k \in 1..Len(pending) : pending'[k].row = pending[k].row
    <3> SUFFICES ASSUME NEW k \in 1..Len(pending) PROVE pending'[k].row = pending[k].row
        OBVIOUS
    <3>1. CASE k = 1
        BY <2>3, <2>8, <3>1
    <3>2. CASE k # 1
        BY <2>8, <3>2
    <3> QED
        BY <3>1, <3>2
  <2>10. PendingDocs(db, pending') = PendingDocs(db, pending)
      BY <2>8, <2>9 DEF PendingDocs
  <2>11. pending'[1].rules = RulesListed(db, pending'[1].row)
      BY <2>5, <2>8
  <2>12. AtPage(db)'
      BY <1>1, <2>1, <2>8, <2>10, <2>11 DEF AtPage, n
  <2> QED
      BY <2>1, <2>12
<1> QED
    BY <1>1, <1>2, <1>3 DEF ExportInv, ExportSound

\* A flag leaves the page for the document.
LEMMA PendingTail ==
    ASSUME NEW d, NEW P, NEW s \in Seq(P), s # <<>>
    PROVE  PendingDocs(d, s) = {FlagListed(d, s[1].row)} \cup PendingDocs(d, Tail(s))
<1> DEFINE t == Tail(s)
<1>1. /\ Len(s) \in Nat /\ Len(s) >= 1 /\ Len(t) = Len(s) - 1
      /\ \A k \in 1..Len(t) : t[k] = s[k + 1]
    OBVIOUS
<1> HIDE DEF t
<1>2. \A k \in 1..Len(s) : k = 1 \/ (k - 1 \in 1..Len(t) /\ t[k - 1] = s[k])
  <2> SUFFICES ASSUME NEW k \in 1..Len(s), k # 1
               PROVE  k - 1 \in 1..Len(t) /\ t[k - 1] = s[k]
      OBVIOUS
  <2>1. k - 1 \in 1..Len(t) /\ (k - 1) + 1 = k
      BY <1>1
  <2> QED
      BY <1>1, <2>1
<1>3. 1 \in 1..Len(s) /\ \A k \in 1..Len(t) : k + 1 \in 1..Len(s) /\ t[k] = s[k + 1]
    BY <1>1
<1>4. PendingDocs(d, s) \subseteq {FlagListed(d, s[1].row)} \cup PendingDocs(d, t)
    BY <1>2 DEF PendingDocs
<1>5. {FlagListed(d, s[1].row)} \cup PendingDocs(d, t) \subseteq PendingDocs(d, s)
    BY <1>3 DEF PendingDocs
<1> QED
    BY <1>4, <1>5 DEF t

LEMMA ListRolloutsStep ==
    ASSUME Tables(db), ExportInv, ListRollouts, db' = db
    PROVE  ExportInv'
<1> DEFINE n == Head(names)
           f == Head(pending)
           rollouts == ById({r \in db.rollouts : r.ns = f.row.ns /\ r.flag = f.row.key})
           made1 == [key |-> f.row.key, enabled |-> f.row.enabled,
                     variants |-> [k \in DOMAIN f.variants |-> f.variants[k].key],
                     rules |-> f.rules,
                     rollouts |-> [k \in DOMAIN rollouts |-> ExportedRollout(db, rollouts[k])]]
<1>1. /\ ExportType /\ phase = "rollouts" /\ phase' = "rules" /\ pending' = Tail(pending)
      /\ doc' = [doc EXCEPT !.flags = Append(@, made1)]
      /\ UNCHANGED <<batch, offset, names, docs, disturbed>>
    BY DEF ExportInv, ListRollouts
<1>2. /\ doc' = [ns |-> doc.ns, flags |-> Append(doc.flags, made1), segments |-> doc.segments]
      /\ doc'.ns = doc.ns /\ doc'.flags = Append(doc.flags, made1)
      /\ doc'.segments = doc.segments
  <2>1. doc = [ns |-> doc.ns, flags |-> doc.flags, segments |-> doc.segments]
      BY <1>1 DEF ExportType
  <2> HIDE DEF made1
  <2> QED
      BY <1>1, <2>1
<1>3. ExportType'
  <2> HIDE DEF made1
  <2> QED
      BY <1>1, <1>2 DEF ExportType
<1>4. ASSUME ~disturbed PROVE AtPage(db)' /\ docs \in Seq(FullDocs(db))
  <2>1. AtPage(db) /\ docs \in Seq(FullDocs(db))
      BY <1>1, <1>4 DEF ExportInv, ExportSound
  <2>2. /\ pending \in Seq(PendingIn(db, n)) /\ pending # <<>>
        /\ pending[1].rules = RulesListed(db, pending[1].row)
      BY <1>1, <2>1 DEF AtPage
  <2>3. f \in PendingIn(db, n) /\ f = pending[1]
      BY <2>2
  <2>4. f.row \in FlagsIn(db, n) /\ f.variants = FlagVariants(db, f.row.ns, f.row.key)
    <3> HIDE DEF f, n
    <3> QED
        BY <2>3, PendingIs
  <2>5. made1 = FlagListed(db, f.row)
    <3>1. f.rules = RulesListed(db, f.row)
        BY <2>2, <2>3
    <3> HIDE DEF f
    <3> QED
        BY <2>4, <3>1 DEF FlagListed, RolloutsListed, RolloutsIn, KeysListed
  <2> HIDE DEF made1, f, n
  <2>6. made1 \in FlagDocs(db)
      BY <2>4, <2>5 DEF FlagDocs, FlagsIn
  <2>7. doc.flags \in Seq(FlagDocs(db))
      BY <2>1 DEF AtPage
  <2>8. doc'.flags \in Seq(FlagDocs(db)) /\ ToSet(doc'.flags) = ToSet(doc.flags) \cup {made1}
      BY <1>2, <2>6, <2>7, ToSetAppend
  <2>9. PendingDocs(db, pending) = {made1} \cup PendingDocs(db, pending')
      BY <1>1, <2>2, <2>3, <2>5, PendingTail
  <2>10. ToSet(doc'.flags) \cup PendingDocs(db, pending') =
           ToSet(doc.flags) \cup PendingDocs(db, pending)
      BY <2>8, <2>9
  <2>11. pending' \in Seq(PendingIn(db, n))
      BY <1>1, <2>2
  <2>12. doc'.segments = <<>>
      BY <1>2, <2>1, Zenon DEF AtPage
  <2>13. doc'.ns = Head(names') /\ names' # <<>>
      BY <1>1, <1>2, <2>1 DEF AtPage
  <2>14. AtPage(db)'
      BY <1>1, <2>1, <2>8, <2>10, <2>11, <2>12, <2>13 DEF AtPage, n
  <2> QED
      BY <2>1, <2>14
<1> QED
    BY <1>1, <1>3, <1>4 DEF ExportInv, ExportSound

LEMMA AllListed ==
    ASSUME NEW d, Tables(d), NEW n
    PROVE  /\ AllFlags(d, n) \in Seq(FlagsIn(d, n)) /\ AllSegments(d, n) \in Seq(SegmentsIn(d, n))
           /\ FlagsTo(d, AllFlags(d, n), Len(AllFlags(d, n))) =
                {FlagListed(d, x) : x \in FlagsIn(d, n)}
           /\ SegmentsTo(d, AllSegments(d, n), Len(AllSegments(d, n))) =
                {SegmentListed(d, x) : x \in SegmentsIn(d, n)}
<1> DEFINE F == AllFlags(d, n)
           S == AllSegments(d, n)
<1>1. IsListing(F, FlagsIn(d, n)) /\ IsListing(S, SegmentsIn(d, n))
    BY TablesFinite, SetToSeqLists DEF AllFlags, AllSegments
<1> HIDE DEF F, S
<1>2. /\ F \in Seq(FlagsIn(d, n)) /\ \A x \in FlagsIn(d, n) : \E k \in 1..Len(F) : F[k] = x
      /\ S \in Seq(SegmentsIn(d, n)) /\ \A x \in SegmentsIn(d, n) : \E k \in 1..Len(S) : S[k] = x
    BY <1>1 DEF IsListing
<1>3. /\ \A k \in 1..Len(F) : F[k] \in FlagsIn(d, n)
      /\ \A k \in 1..Len(S) : S[k] \in SegmentsIn(d, n)
    BY <1>2
<1>4. FlagsTo(d, F, Len(F)) = {FlagListed(d, x) : x \in FlagsIn(d, n)}
    BY <1>2, <1>3 DEF FlagsTo
<1>5. SegmentsTo(d, S, Len(S)) = {SegmentListed(d, x) : x \in SegmentsIn(d, n)}
    BY <1>2, <1>3 DEF SegmentsTo
<1> QED
    BY <1>2, <1>4, <1>5 DEF F, S

LEMMA PageDoneStep ==
    ASSUME Tables(db), ExportInv, PageDone, db' = db
    PROVE  ExportInv'
<1> DEFINE n == Head(names)
           F == AllFlags(db, n)
<1>1. /\ ExportType /\ phase = "rules" /\ pending = <<>>
      /\ phase' = IF offset # 0 THEN "flags" ELSE "segments"
      /\ UNCHANGED <<batch, offset, names, doc, docs, disturbed>>
    BY DEF ExportInv, PageDone, exportVars
<1>2. ExportType'
    BY <1>1 DEF ExportType
<1>3. ASSUME ~disturbed
      PROVE  /\ docs \in Seq(FullDocs(db))
             /\ offset # 0 => AtFlags(db)'
             /\ offset = 0 => AtSegments(db)'
  <2>1. AtPage(db) /\ docs \in Seq(FullDocs(db))
      BY <1>1, <1>3 DEF ExportInv, ExportSound
  <2>2. /\ names # <<>> /\ doc.ns = n /\ doc.flags \in Seq(FlagDocs(db)) /\ doc.segments = <<>>
        /\ offset \in 0..Len(F)
        /\ ToSet(doc.flags) \cup PendingDocs(db, pending) = FlagsTo(db, F, EndOf(F, offset))
      BY <2>1 DEF AtPage
  <2>3. PendingDocs(db, pending) = {}
      BY <1>1 DEF PendingDocs
  <2>4. ToSet(doc.flags) = FlagsTo(db, F, EndOf(F, offset))
      BY <2>2, <2>3
  <2> HIDE DEF n
  <2>5. ASSUME offset # 0 PROVE AtFlags(db)'
      BY <1>1, <2>2, <2>4, <2>5 DEF AtFlags, EndOf, n
  <2>6. ASSUME offset = 0 PROVE AtSegments(db)'
    <3>1. ToSet(doc.flags) = {FlagListed(db, x) : x \in FlagsIn(db, n)}
        BY <2>4, <2>6, AllListed DEF EndOf
    <3>2. 0 \in 0..Len(AllSegments(db, n))
      <4>1. AllSegments(db, n) \in Seq(SegmentsIn(db, n))
          BY AllListed
      <4> QED
          BY <4>1
    <3>3. ToSet(<<>>) = {} /\ SegmentsTo(db, AllSegments(db, n), 0) = {}
        BY DEF ToSet, SegmentsTo
    <3>4. <<>> \in Seq(SegmentDocs(db))
        OBVIOUS
    <3>5. /\ doc.segments \in Seq(SegmentDocs(db))
          /\ ToSet(doc.segments) = SegmentsTo(db, AllSegments(db, n), 0)
        BY <2>2, <3>3, <3>4, Zenon
    <3> QED
        BY <1>1, <2>2, <2>6, <3>1, <3>2, <3>5 DEF AtSegments, n
  <2> QED
      BY <2>1, <2>5, <2>6
<1> QED
    BY <1>1, <1>2, <1>3 DEF ExportInv, ExportSound

LEMMA ListSegmentsStep ==
    ASSUME Tables(db), ExportInv, ListSegments, db' = db
    PROVE  ExportInv'
<1> DEFINE n == Head(names)
           S == SegmentsIn(db, n)
           A == AllSegments(db, n)
           page == Page(A, offset, batch)
           shown == [k \in DOMAIN page.rows |->
                      LET s == page.rows[k]
                          c == Constraints(db, n, s.key)
                      IN  [key |-> s.key, match |-> s.match,
                           constraints |-> [j \in DOMAIN c |-> c[j].value]]]
           more == doc.segments \o shown
           new == [doc EXCEPT !.segments = more]
<1>1. /\ ExportType /\ phase = "segments" /\ offset' = page.next
      /\ UNCHANGED <<batch, disturbed>>
      /\ page.next # 0 =>
           phase' = phase /\ doc' = new /\ UNCHANGED <<names, docs>>
      /\ page.next = 0 =>
           /\ docs' = Append(docs, new) /\ doc' = NoDoc /\ names' = Tail(names)
           /\ phase' = IF Len(names) > 1 THEN "flags" ELSE "exported"
    BY DEF ExportInv, ListSegments, AllSegments, SegmentsIn
<1>2. batch \in Nat \ {0} /\ names \in Seq(Namespace)
    BY <1>1 DEF ExportType
<1> HIDE DEF shown
<1>3. new = [ns |-> doc.ns, flags |-> doc.flags, segments |-> doc.segments \o shown]
  <2>1. doc = [ns |-> doc.ns, flags |-> doc.flags, segments |-> doc.segments]
      BY <1>1 DEF ExportType
  <2> HIDE DEF more
  <2>2. new = [ns |-> doc.ns, flags |-> doc.flags, segments |-> more]
      BY <2>1
  <2> QED
      BY <2>2 DEF more
<1> HIDE DEF new, page
<1>4. ExportType'
  <2>1. CASE page.next # 0
      BY <1>1, <1>2, <1>3, <2>1 DEF ExportType
  <2>2. CASE page.next = 0
    <3>1. Tail(names) \in Seq(Namespace)
        BY <1>1, <1>2 DEF ExportType
    <3> QED
        BY <1>1, <1>2, <2>2, <3>1 DEF ExportType, NoDoc
  <2> QED
      BY <2>1, <2>2
<1>5. ASSUME ~disturbed PROVE ExportSound(db)'
  <2>1. AtSegments(db) /\ docs \in Seq(FullDocs(db))
      BY <1>1, <1>5 DEF ExportInv, ExportSound
  <2>2. /\ names # <<>> /\ doc.ns = n /\ doc.flags \in Seq(FlagDocs(db))
        /\ doc.segments \in Seq(SegmentDocs(db))
        /\ ToSet(doc.flags) = {FlagListed(db, x) : x \in FlagsIn(db, n)}
        /\ offset \in 0..Len(A) /\ ToSet(doc.segments) = SegmentsTo(db, A, offset)
      BY <2>1 DEF AtSegments
  <2>3. IsFiniteSet(S) /\ offset \in 0..Len(SetToSeq(S))
      BY <2>2, TablesFinite DEF AllSegments
  <2>4. IsPage(page, A, offset) /\ page.rows \in Seq(S) /\ A \in Seq(S)
      BY <1>2, <2>3, ListingPage DEF AllSegments, page
  <2> HIDE DEF A, S
  <2>5. PageOf(page, S, A, offset)
      BY <2>2, <2>4 DEF PageOf
  <2>6. SegmentsTo(db, A, offset) \cup PageSegments(db, page.rows) = SegmentsTo(db, A, EndOf(A, page.next))
    <3> HIDE DEF n
    <3> QED
        BY <2>5, NextSegments
  <2>7. /\ DOMAIN page.rows = 1..Len(page.rows) /\ Len(page.rows) \in Nat
        /\ \A k \in 1..Len(page.rows) : page.rows[k] \in S
      BY <2>4
  <2>8. shown = [k \in 1..Len(page.rows) |-> SegmentListed(db, page.rows[k])]
    <3>1. \A k \in 1..Len(page.rows) : page.rows[k].ns = n
        BY <2>7 DEF S, SegmentsIn
    <3> QED
        BY <2>7, <3>1 DEF shown, SegmentListed, ValuesListed
  <2>9. shown \in Seq(SegmentDocs(db)) /\ ToSet(shown) = PageSegments(db, page.rows)
    <3>1. \A k \in 1..Len(page.rows) : SegmentListed(db, page.rows[k]) \in SegmentDocs(db)
        BY <2>7 DEF S, SegmentsIn, SegmentDocs
    <3> QED
        BY <2>7, <2>8, <3>1 DEF ToSet, PageSegments
  <2>10. /\ doc.segments \o shown \in Seq(SegmentDocs(db))
         /\ ToSet(doc.segments \o shown) = SegmentsTo(db, A, EndOf(A, page.next))
    <3>1. ToSet(doc.segments \o shown) = ToSet(doc.segments) \cup ToSet(shown)
        BY <2>2, <2>9, ToSetConcat
    <3> QED
        BY <2>2, <2>6, <2>9, <3>1
  <2>11. /\ new.ns = n /\ new.flags = doc.flags /\ new.segments = doc.segments \o shown
      BY <1>3, <2>2
  <2>12. page.next \in 0..Len(A)
      BY <2>4 DEF IsPage
  <2>13. CASE page.next # 0
    <3>1. AtSegments(db)'
      <4>1. EndOf(A, page.next) = offset' /\ offset' \in 0..Len(A) /\ doc' = new /\ Head(names') = n
          BY <1>1, <2>12, <2>13 DEF EndOf
      <4> HIDE DEF n
      <4> QED
          BY <1>1, <2>2, <2>10, <2>11, <2>13, <4>1 DEF AtSegments, A
    <3> QED
        BY <1>1, <2>1, <2>13, <3>1 DEF ExportSound
  <2>14. CASE page.next = 0
    <3>1. ToSet(new.segments) = {SegmentListed(db, x) : x \in SegmentsIn(db, n)}
        BY <2>10, <2>11, <2>14, AllListed DEF EndOf, A
    <3>2. n \in Namespace
        BY <1>2, <2>2
    <3> HIDE DEF n
    <3>3. new \in [ns : Namespace, flags : Seq(FlagDocs(db)), segments : Seq(SegmentDocs(db))]
        BY <1>3, <2>2, <2>10, <3>2
    <3>4. new \in FullDocs(db)
        BY <2>2, <2>11, <3>1, <3>3 DEF FullDocs
    <3>5. docs' \in Seq(FullDocs(db)) /\ phase' \in {"flags", "exported"}
        BY <1>1, <2>1, <2>14, <3>4
    <3>6. AtFlags(db)'
        BY <1>1, <2>14, NothingListed
    <3> QED
        BY <3>5, <3>6 DEF ExportSound
  <2> QED
      BY <2>13, <2>14
<1> QED
    BY <1>1, <1>4, <1>5 DEF ExportInv

\* An import leaves the export's variables alone.
LEMMA ImportSteps ==
    ASSUME ExportInv, BeginImport \/ ImportCall \/ Imported \/ Interrupt
    PROVE  ExportInv'
<1>1. /\ UNCHANGED <<batch, offset, names, doc, docs, disturbed>> /\ ExportType
      /\ phase' \in {"importing", "failed", "imported", "interrupted"}
    BY DEF ExportInv, BeginImport, ImportCall, Imported, Interrupt, exportVars
<1> QED
    BY <1>1 DEF ExportInv, ExportType, ExportSound

\* A request between two steps of the export either changes no table or disturbs it.
LEMMA StoreSteps ==
    ASSUME ExportInv, StoreStep
    PROVE  ExportInv'
<1>1. /\ UNCHANGED <<phase, batch, offset, names, pending, doc, docs>> /\ ExportType
      /\ phase = "idle" \/ (~disturbed' => ~disturbed /\ db' = db)
    BY DEF ExportInv, StoreStep, exportVars
<1>2. ExportType'
    BY <1>1 DEF ExportType
<1>3. ASSUME ~disturbed' PROVE ExportSound(db)'
  <2>1. CASE phase = "idle"
      BY <1>1, <2>1 DEF ExportSound
  <2>2. CASE ~disturbed /\ db' = db
      BY <1>1, <2>2 DEF ExportInv, ExportSound, AtFlags, AtPage, AtSegments
  <2> QED
      BY <1>1, <1>3, <2>1, <2>2
<1> QED
    BY <1>2, <1>3 DEF ExportInv

LEMMA ExportInvariance == TransferSpec => []ExportInv
<1>1. TransferInit => ExportInv
  <2> SUFFICES ASSUME TransferInit PROVE ExportInv
      OBVIOUS
  <2>1. batch \in Nat \ {0} /\ names \in Seq(Namespace) /\ phase = "idle"
      BY TransferAssumption DEF TransferInit
  <2>2. offset = 0 /\ doc = NoDoc /\ docs = <<>>
      BY DEF TransferInit
  <2> QED
      BY <2>1, <2>2 DEF ExportInv, ExportType, ExportSound, NoDoc
<1>2. ASSUME ExportInv, StoreInv, [TransferNext]_allVars PROVE ExportInv'
  <2>1. Tables(db)
      BY <1>2 DEF StoreInv, TypeOK, Tables
  <2>2. CASE TransferStep
    <3>1. db' = db
        BY <2>2 DEF TransferStep, vars
    <3>2. ASSUME NEW n \in Namespace, BeginExport(<<n>>, FALSE) PROVE ExportInv'
      <4>1. <<n>> \in Seq(Namespace)
          OBVIOUS
      <4> QED
          BY <1>2, <2>1, <3>1, <3>2, <4>1, BeginExportStep
    <3>3. CASE BeginExport(SetToSeq(Namespace), FALSE)
      <4>1. SetToSeq(Namespace) \in Seq(Namespace)
          BY TransferAssumption, SetToSeqLists DEF IsListing
      <4> QED
          BY <1>2, <2>1, <3>1, <3>3, <4>1, BeginExportStep
    <3>4. CASE BeginExport(<<>>, TRUE)
        BY <1>2, <2>1, <3>1, <3>4, BeginExportStep
    <3>5. CASE ExportStep
        BY <1>2, <2>1, <3>1, <3>5, ListNamespacesStep, ListFlagsStep, ListRulesStep,
           ListRolloutsStep, PageDoneStep, ListSegmentsStep DEF ExportStep
    <3>6. CASE BeginImport \/ ImportCall \/ Imported \/ Interrupt
        BY <1>2, <3>6, ImportSteps
    <3> QED
        BY <2>2, <3>2, <3>3, <3>4, <3>5, <3>6 DEF TransferStep
  <2>3. CASE StoreStep
      BY <1>2, <2>3, StoreSteps
  <2>4. CASE UNCHANGED allVars
    <3>1. UNCHANGED <<phase, db, batch, offset, names, pending, doc, docs, disturbed>>
        BY <2>4 DEF allVars, vars, transferVars, exportVars
    <3> QED
        BY <1>2, <3>1 DEF ExportInv, ExportType, ExportSound, AtFlags, AtPage, AtSegments
  <2> QED
      BY <1>2, <2>2, <2>3, <2>4 DEF TransferNext
<1> QED
    BY <1>1, <1>2, StoreInvThroughout, PTL DEF TransferSpec

-----------------------------------------------------------------------------
(* What a declarative store makes of the documents.                        *)

\* Rules use segments of their namespace and variants of their flag; rollouts do.
Tidy(d) ==
    /\ Tables(d) /\ Separate(d)
    /\ \A x \in d.ruleSegments : \E r \in d.rules : r.id = x.rule /\ r.ns = x.ns
    /\ \A x \in d.distributions : \E r \in d.rules, v \in d.variants :
         r.id = x.rule /\ v.id = x.variant /\ r.flag = v.flag

LEMMA TidyParents ==
    ASSUME NEW d, Tidy(d)
    PROVE  /\ \A r \in d.rules : \A x \in d.distributions : x.rule = r.id =>
                \E v \in d.variants : v.id = x.variant /\ v.ns = r.ns /\ v.flag = r.flag
           /\ \A r \in d.rules : \A x \in d.ruleSegments : x.rule = r.id =>
                x.ns = r.ns /\ HasSegment(d, r.ns, x.segment)
           /\ \A r \in d.rollouts : \A x \in d.rolloutSegments : x.rollout = r.id =>
                x.ns = r.ns /\ HasSegment(d, r.ns, x.segment)
           /\ \A v, w \in d.variants : v.id = w.id => v = w
<1>1. /\ \A x, y \in d.variants : x.id = y.id => x = y
      /\ \A x, y \in d.rules : x.id = y.id => x = y
      /\ \A x, y \in d.rollouts : x.id = y.id => x = y
    BY UniqueTables DEF Tidy, Tables
<1>2. Closed(d)
    BY AcceptableIsClosed DEF Tidy, Tables, Acceptable
<1>3. ASSUME NEW r \in d.rules, NEW x \in d.distributions, x.rule = r.id
      PROVE  \E v \in d.variants : v.id = x.variant /\ v.ns = r.ns /\ v.flag = r.flag
  <2>1. PICK q \in d.rules, v \in d.variants : q.id = x.rule /\ v.id = x.variant /\ q.flag = v.flag
      BY DEF Tidy
  <2>2. PICK p \in d.rules, w \in d.variants : p.id = x.rule /\ w.id = x.variant /\ p.ns = w.ns
      BY DEF Tidy, Separate
  <2>3. q = r /\ p = r /\ v = w
      BY <1>1, <1>3, <2>1, <2>2
  <2> QED
      BY <2>1, <2>2, <2>3
<1>4. ASSUME NEW r \in d.rules, NEW x \in d.ruleSegments, x.rule = r.id
      PROVE  x.ns = r.ns /\ HasSegment(d, r.ns, x.segment)
  <2>1. PICK q \in d.rules : q.id = x.rule /\ q.ns = x.ns
      BY DEF Tidy
  <2>2. q = r
      BY <1>1, <1>4, <2>1
  <2> QED
      BY <1>2, <2>1, <2>2 DEF Closed
<1>5. ASSUME NEW r \in d.rollouts, NEW x \in d.rolloutSegments, x.rollout = r.id
      PROVE  x.ns = r.ns /\ HasSegment(d, r.ns, x.segment)
  <2>1. PICK q \in d.rollouts : q.id = x.rollout /\ q.ns = x.ns
      BY DEF Tidy, Separate
  <2>2. q = r
      BY <1>1, <1>5, <2>1
  <2> QED
      BY <1>2, <2>1, <2>2 DEF Closed
<1> QED
    BY <1>1, <1>3, <1>4, <1>5

SegmentIn(d, n, s) == [ns |-> n, key |-> s.key, match |-> s.match,
                       constraints |-> ValuesListed(d, n, s.key)]

LEMMA SegmentsOfAre ==
    ASSUME NEW d, NEW n
    PROVE  SegmentsOf(d, n) = {SegmentIn(d, n, s) : s \in SegmentsIn(d, n)}
<1>1. SegmentsOf(d, n) =
        {[ns |-> s.ns, key |-> s.key, match |-> s.match,
          constraints |-> ValuesListed(d, n, s.key)] : s \in SegmentsIn(d, n)}
    BY DEF SegmentsOf, SegmentsIn, ValuesListed
<1>2. \A s \in SegmentsIn(d, n) : s.ns = n
    BY DEF SegmentsIn
<1> QED
    BY <1>1, <1>2 DEF SegmentIn

LEMMA SegmentKnown ==
    ASSUME NEW d, NEW n, NEW key, HasSegment(d, n, key)
    PROVE  \E s \in SegmentsOf(d, n) : s.key = key
<1>1. PICK x \in d.segments : x.ns = n /\ x.key = key
    BY DEF HasSegment
<1>2. SegmentIn(d, n, x) \in SegmentsOf(d, n)
    BY <1>1, SegmentsOfAre DEF SegmentsIn
<1>3. SegmentIn(d, n, x).key = key
    BY <1>1 DEF SegmentIn
<1> QED
    BY <1>2, <1>3

\* The segments of a full document are those of its namespace.
LEMMA SnapshotSegmentsAre ==
    ASSUME NEW d, NEW c \in FullDocs(d)
    PROVE  SnapshotSegments(c) = SegmentsOf(d, c.ns)
<1> DEFINE n == c.ns
           Put(s) == [ns |-> n, key |-> s.key, match |-> s.match, constraints |-> s.constraints]
<1>1. ToSet(c.segments) = {SegmentListed(d, x) : x \in SegmentsIn(d, n)}
    BY DEF FullDocs
<1>2. SnapshotSegments(c) = {Put(s) : s \in ToSet(c.segments)}
    BY DEF SnapshotSegments, ToSet
<1>3. \A x \in SegmentsIn(d, n) : Put(SegmentListed(d, x)) = SegmentIn(d, n, x)
    BY DEF SegmentListed, SegmentIn, SegmentsIn
<1> HIDE DEF Put, n
<1>4. SnapshotSegments(c) = {Put(SegmentListed(d, x)) : x \in SegmentsIn(d, n)}
    BY <1>1, <1>2
<1>5. SnapshotSegments(c) = {SegmentIn(d, n, x) : x \in SegmentsIn(d, n)}
    BY <1>3, <1>4
<1> QED
    BY <1>5, SegmentsOfAre DEF n

\* A rule and a rollout as the tables say, in the form of a snapshot.
VariantsOf(d, r) ==
    LET dists == ById(DistributionsOf(d, r.id))
    IN  [j \in DOMAIN dists |-> {(CHOOSE v \in d.variants : v.id = dists[j].variant).key}]

RuleOf(d, n, r) ==
    [operator |-> SegmentOperator(KeysOfRule(d, r.id), r.operator),
     segments |-> EvaluatedSegments(SegmentsOf(d, n), KeysOfRule(d, r.id)),
     distributions |-> VariantsOf(d, r)]

RolloutOf(d, n, r) ==
    [operator |-> IF r.operator # "threshold" /\ KeysOfRollout(d, r) = {} THEN "none"
                  ELSE r.operator,
     segments |-> EvaluatedSegments(SegmentsOf(d, n), KeysOfRollout(d, r))]

\* The key of a distribution's variant is found among those listed with the flag.
LEMMA VariantKeyFound ==
    ASSUME NEW d, Tidy(d), NEW n, NEW f, NEW i, NEW v \in d.variants,
           v.id = i, v.ns = n, v.flag = f
    PROVE  /\ VariantKeyOf(FlagVariants(d, n, f), i) = {(CHOOSE w \in d.variants : w.id = i).key}
           /\ v.key \in VariantKeyOf(FlagVariants(d, n, f), i)
           /\ v.key \in ToSet(KeysListed(FlagVariants(d, n, f)))
<1> DEFINE s == FlagVariants(d, n, f)
<1>1. Numbered(VariantsIn(d, n, f))
    BY TablesFinite DEF Tidy
<1>2. /\ s \in Seq(VariantsIn(d, n, f))
      /\ \A x \in VariantsIn(d, n, f) : \E k \in 1..Len(s) : s[k] = x
    BY <1>1, ByIdLists DEF FlagVariants, VariantsIn
<1> HIDE DEF s
<1>3. DOMAIN s = 1..Len(s) /\ \A k \in DOMAIN s : s[k] \in d.variants
    BY <1>2 DEF VariantsIn
<1>4. \A w \in d.variants : w.id = i => w = v
    BY TidyParents
<1>5. (CHOOSE w \in d.variants : w.id = i) = v
    BY <1>4
<1>6. PICK k \in DOMAIN s : s[k] = v
    BY <1>2, <1>3 DEF VariantsIn
<1>7. \A j \in DOMAIN s : s[j].id = i => s[j] = v
    BY <1>3, <1>4
<1>8. VariantKeyOf(s, i) = {v.key}
    BY <1>6, <1>7 DEF VariantKeyOf
<1>9. v.key \in ToSet(KeysListed(s))
    BY <1>6 DEF ToSet, KeysListed
<1> QED
    BY <1>5, <1>8, <1>9 DEF s

LEMMA DistributionsListed ==
    ASSUME NEW d, NEW i, Tables(d)
    PROVE  /\ ById(DistributionsOf(d, i)) \in Seq(DistributionsOf(d, i))
           /\ \A j \in DOMAIN ById(DistributionsOf(d, i)) :
                /\ ById(DistributionsOf(d, i))[j] \in d.distributions
                /\ ById(DistributionsOf(d, i))[j].rule = i
<1> DEFINE s == ById(DistributionsOf(d, i))
<1>1. s \in Seq(DistributionsOf(d, i))
    BY TablesFinite, ByIdLists
<1> HIDE DEF s
<1>2. \A j \in DOMAIN s : s[j] \in DistributionsOf(d, i)
    BY <1>1
<1> QED
    BY <1>1, <1>2 DEF s, DistributionsOf

LEMMA RuleExported ==
    ASSUME NEW d, Tidy(d), NEW n, NEW f, NEW r \in d.rules, r.ns = n, r.flag = f
    PROVE  LET e == ExportedRule(d, r, FlagVariants(d, n, f))
           IN  /\ SnapshotRule(e, SegmentsOf(d, n)) = RuleOf(d, n, r)
               /\ \A key \in e.segments : \E s \in SegmentsOf(d, n) : s.key = key
               /\ \A keys \in ToSet(e.distributions) :
                    keys \cap ToSet(KeysListed(FlagVariants(d, n, f))) # {}
<1> DEFINE e == ExportedRule(d, r, FlagVariants(d, n, f))
           dists == ById(DistributionsOf(d, r.id))
           V == FlagVariants(d, n, f)
           found == [k \in DOMAIN dists |-> VariantKeyOf(V, dists[k].variant)]
<1>1. /\ e.segments = KeysOfRule(d, r.id)
      /\ e.operator = SegmentOperator(KeysOfRule(d, r.id), r.operator)
      /\ e.distributions = found
    BY DEF ExportedRule, DistributionsOf
<1>2. ASSUME NEW j \in DOMAIN dists
      PROVE  \E v \in d.variants : v.id = dists[j].variant /\ v.ns = n /\ v.flag = f
  <2>1. dists[j] \in d.distributions /\ dists[j].rule = r.id
      BY DistributionsListed DEF Tidy
  <2> HIDE DEF dists
  <2> QED
      BY <2>1, TidyParents
<1> HIDE DEF dists, e
<1>3. ASSUME NEW j \in DOMAIN dists
      PROVE  /\ VariantKeyOf(V, dists[j].variant) =
                  {(CHOOSE w \in d.variants : w.id = dists[j].variant).key}
             /\ VariantKeyOf(V, dists[j].variant) \cap ToSet(KeysListed(V)) # {}
  <2>1. PICK v \in d.variants : v.id = dists[j].variant /\ v.ns = n /\ v.flag = f
      BY <1>2
  <2> QED
      BY <2>1, VariantKeyFound
<1> HIDE DEF V
<1>4. found = VariantsOf(d, r)
    BY <1>3 DEF VariantsOf, dists
<1>5. \A keys \in ToSet(found) : keys \cap ToSet(KeysListed(V)) # {}
    BY <1>3 DEF ToSet
<1>6. ASSUME NEW key \in KeysOfRule(d, r.id) PROVE \E s \in SegmentsOf(d, n) : s.key = key
  <2>1. PICK x \in d.ruleSegments : x.rule = r.id /\ x.segment = key
      BY DEF KeysOfRule
  <2>2. HasSegment(d, n, key)
      BY <2>1, TidyParents
  <2> QED
      BY <2>2, SegmentKnown
<1> HIDE DEF found
<1>7. SnapshotRule(e, SegmentsOf(d, n)) = RuleOf(d, n, r)
    BY <1>1, <1>4 DEF SnapshotRule, RuleOf
<1> QED
    BY <1>1, <1>5, <1>6, <1>7 DEF e, V

LEMMA RolloutExported ==
    ASSUME NEW d, Tidy(d), NEW n, NEW r \in d.rollouts, r.ns = n
    PROVE  LET e == ExportedRollout(d, r)
           IN  /\ SnapshotRollout(e, SegmentsOf(d, n)) = RolloutOf(d, n, r)
               /\ \A key \in e.segments : \E s \in SegmentsOf(d, n) : s.key = key
<1> DEFINE e == ExportedRollout(d, r)
<1>1. SnapshotRollout(e, SegmentsOf(d, n)) = RolloutOf(d, n, r)
    BY DEF SnapshotRollout, RolloutOf, ExportedRollout
<1>2. e.segments = KeysOfRollout(d, r)
    BY DEF ExportedRollout
<1>3. ASSUME NEW key \in KeysOfRollout(d, r) PROVE \E s \in SegmentsOf(d, n) : s.key = key
  <2>1. PICK x \in d.rolloutSegments : x.rollout = r.id /\ x.segment = key
      BY DEF KeysOfRollout
  <2>2. HasSegment(d, n, key)
      BY <2>1, TidyParents
  <2> QED
      BY <2>2, SegmentKnown
<1> QED
    BY <1>1, <1>2, <1>3

RulesOf(d, n, f) ==
    LET rules == ByRank(RulesIn(d, n, f)) IN [k \in DOMAIN rules |-> RuleOf(d, n, rules[k])]

RolloutsOf(d, n, f) ==
    LET rollouts == ById(RolloutsIn(d, n, f))
    IN  [k \in DOMAIN rollouts |-> RolloutOf(d, n, rollouts[k])]

FlagIn(d, n, x) ==
    [ns |-> n, key |-> x.key, enabled |-> x.enabled,
     variants |-> KeysListed(FlagVariants(d, n, x.key)),
     rules |-> RulesOf(d, n, x.key), rollouts |-> RolloutsOf(d, n, x.key)]

LEMMA FlagsOfAre ==
    ASSUME NEW d, NEW n
    PROVE  FlagsOf(d, n) = {FlagIn(d, n, x) : x \in FlagsIn(d, n)}
<1>1. ASSUME NEW f
      PROVE  /\ StrategiesOf(d, n, f).rules = RulesOf(d, n, f)
             /\ StrategiesOf(d, n, f).rollouts = RolloutsOf(d, n, f)
    BY DEF StrategiesOf, RulesOf, RolloutsOf, RuleOf, RolloutOf, VariantsOf, RulesIn, RolloutsIn,
           DistributionsOf
<1>2. \A x \in FlagsIn(d, n) :
        [ns |-> n, key |-> x.key, enabled |-> x.enabled,
         variants |-> [k \in DOMAIN FlagVariants(d, n, x.key) |-> FlagVariants(d, n, x.key)[k].key],
         rules |-> StrategiesOf(d, n, x.key).rules,
         rollouts |-> StrategiesOf(d, n, x.key).rollouts] = FlagIn(d, n, x)
    BY <1>1 DEF FlagIn, KeysListed
<1> QED
    BY <1>2 DEF FlagsOf, FlagsIn

LEMMA FlagExported ==
    ASSUME NEW d, Tidy(d), NEW n, NEW x \in FlagsIn(d, n)
    PROVE  /\ SnapshotFlag(n, FlagListed(d, x), SegmentsOf(d, n)) = FlagIn(d, n, x)
           /\ Resolvable(FlagListed(d, x), SegmentsOf(d, n))
<1> DEFINE f == x.key
           rules == ByRank(RulesIn(d, n, f))
           rollouts == ById(RolloutsIn(d, n, f))
           e == FlagListed(d, x)
           V == FlagVariants(d, n, f)
           S == SegmentsOf(d, n)
<1>0. x.ns = n
    BY DEF FlagsIn
<1>1. /\ e.key = f /\ e.enabled = x.enabled /\ e.variants = KeysListed(V)
      /\ e.rules = [k \in DOMAIN rules |-> ExportedRule(d, rules[k], V)]
      /\ e.rollouts = [k \in DOMAIN rollouts |-> ExportedRollout(d, rollouts[k])]
    BY <1>0 DEF FlagListed, RulesListed, RolloutsListed
<1>2. rules \in Seq(RulesIn(d, n, f)) /\ rollouts \in Seq(RolloutsIn(d, n, f))
    BY TablesFinite, RulesOrdered, ByIdLists, ByRankLists DEF Tidy
<1> HIDE DEF rules, rollouts, V, S, e, f
<1>3. ASSUME NEW k \in DOMAIN rules
      PROVE  /\ SnapshotRule(e.rules[k], S) = RuleOf(d, n, rules[k])
             /\ \A key \in e.rules[k].segments : \E s \in S : s.key = key
             /\ \A keys \in ToSet(e.rules[k].distributions) : keys \cap ToSet(e.variants) # {}
  <2>1. rules[k] \in d.rules /\ rules[k].ns = n /\ rules[k].flag = f
      BY <1>2 DEF RulesIn
  <2>2. e.rules[k] = ExportedRule(d, rules[k], V)
      BY <1>1
  <2> QED
      BY <1>1, <2>1, <2>2, RuleExported DEF V, S
<1>4. ASSUME NEW k \in DOMAIN rollouts
      PROVE  /\ SnapshotRollout(e.rollouts[k], S) = RolloutOf(d, n, rollouts[k])
             /\ \A key \in e.rollouts[k].segments : \E s \in S : s.key = key
  <2>1. rollouts[k] \in d.rollouts /\ rollouts[k].ns = n
      BY <1>2 DEF RolloutsIn
  <2>2. e.rollouts[k] = ExportedRollout(d, rollouts[k])
      BY <1>1
  <2> QED
      BY <2>1, <2>2, RolloutExported DEF S
<1>5. DOMAIN e.rules = DOMAIN rules /\ DOMAIN e.rollouts = DOMAIN rollouts
    BY <1>1
<1>6. [k \in DOMAIN e.rules |-> SnapshotRule(e.rules[k], S)] = RulesOf(d, n, f)
    BY <1>3, <1>5 DEF RulesOf, rules
<1>7. [k \in DOMAIN e.rollouts |-> SnapshotRollout(e.rollouts[k], S)] = RolloutsOf(d, n, f)
    BY <1>4, <1>5 DEF RolloutsOf, rollouts
<1>8. SnapshotFlag(n, e, S) = FlagIn(d, n, x)
    BY <1>1, <1>6, <1>7 DEF SnapshotFlag, FlagIn, f, V
<1>9. Resolvable(e, S)
    BY <1>3, <1>4, <1>5 DEF Resolvable
<1> QED
    BY <1>8, <1>9 DEF e, S

\* The schema of the files lists the operator of every constraint of the namespace.
Listable(d, n) == \A x \in d.constraints : x.ns = n => x.value # "unlisted"

LEMMA FullDocValidated ==
    ASSUME NEW d, Tidy(d), NEW c \in FullDocs(d)
    PROVE  Validated(c) <=> Listable(d, c.ns)
<1> DEFINE n == c.ns
           V(s) == ValuesListed(d, n, s.key)
<1>1. ToSet(c.segments) = {SegmentListed(d, x) : x \in SegmentsIn(d, n)}
    BY DEF FullDocs
<1>2. Validated(c) <=> \A e \in ToSet(c.segments) : "unlisted" \notin ToSet(e.constraints)
    BY DEF Validated, ToSet
<1>3. \A x \in SegmentsIn(d, n) : SegmentListed(d, x).constraints = V(x)
    BY DEF SegmentListed, SegmentsIn
<1> HIDE DEF n, V
<1>4. Validated(c) <=> \A x \in SegmentsIn(d, n) : "unlisted" \notin ToSet(V(x))
    BY <1>1, <1>2, <1>3
<1>5. ASSUME NEW x \in SegmentsIn(d, n)
      PROVE  ToSet(V(x)) = {k.value : k \in ConstraintsIn(d, n, x.key)}
  <2> DEFINE S == ConstraintsIn(d, n, x.key)
             e == ById(S)
  <2>1. Numbered(S)
      BY TablesFinite DEF Tidy
  <2>2. V(x) = [j \in DOMAIN e |-> e[j].value]
      BY DEF V, ValuesListed, Constraints, ConstraintsIn
  <2> HIDE DEF S
  <2>3. e \in Seq(S) /\ \A y \in S : \E k \in 1..Len(e) : e[k] = y
      BY <2>1, ByIdLists
  <2> HIDE DEF e
  <2>4. DOMAIN e = 1..Len(e) /\ \A j \in DOMAIN e : e[j] \in S
      BY <2>3
  <2>5. ToSet(V(x)) = {e[j].value : j \in DOMAIN e}
      BY <2>2 DEF ToSet
  <2> QED
      BY <2>3, <2>4, <2>5 DEF S
<1>6. \A y \in d.constraints : y.ns = n => \E x \in SegmentsIn(d, n) : x.key = y.segment
  <2>1. Closed(d)
      BY AcceptableIsClosed DEF Tidy, Tables, Acceptable
  <2> QED
      BY <2>1 DEF Closed, HasSegment, SegmentsIn
<1>7. (\A x \in SegmentsIn(d, n) : "unlisted" \notin ToSet(V(x))) <=> Listable(d, n)
    BY <1>5, <1>6 DEF Listable, ConstraintsIn
<1> QED
    BY <1>4, <1>7 DEF n

\* The snapshot of full documents of namespaces N.
Snapshot(d, N) ==
    [ok |-> \A m \in N : Listable(d, m), segments |-> UNION {SegmentsOf(d, m) : m \in N},
     flags |-> UNION {FlagsOf(d, m) : m \in N}]

LEMMA OfNamespace ==
    ASSUME NEW d, NEW n
    PROVE  (\A s \in SegmentsOf(d, n) : s.ns = n) /\ (\A x \in FlagsOf(d, n) : x.ns = n)
BY SegmentsOfAre, FlagsOfAre DEF SegmentIn, FlagIn

LEMMA OwnPart ==
    ASSUME NEW d, NEW N, NEW n \in N
    PROVE  /\ {s \in Snapshot(d, N).segments : s.ns = n} = SegmentsOf(d, n)
           /\ {x \in Snapshot(d, N).flags : x.ns = n} = FlagsOf(d, n)
BY OfNamespace DEF Snapshot

LEMMA ReplacingOwn ==
    ASSUME NEW d, NEW N, NEW n
    PROVE  /\ Replacing(Snapshot(d, N).segments, SegmentsOf(d, n)) =
                Snapshot(d, N \cup {n}).segments
           /\ Replacing(Snapshot(d, N).flags, FlagsOf(d, n)) = Snapshot(d, N \cup {n}).flags
<1>1. \A m : (\A s \in SegmentsOf(d, m) : s.ns = m) /\ (\A x \in FlagsOf(d, m) : x.ns = m)
    BY OfNamespace
<1>2. Replacing(UNION {SegmentsOf(d, m) : m \in N}, SegmentsOf(d, n)) =
        UNION {SegmentsOf(d, m) : m \in N \cup {n}}
    BY <1>1 DEF Replacing
<1>3. Replacing(UNION {FlagsOf(d, m) : m \in N}, FlagsOf(d, n)) =
        UNION {FlagsOf(d, m) : m \in N \cup {n}}
    BY <1>1 DEF Replacing
<1> QED
    BY <1>2, <1>3 DEF Snapshot

\* A full document adds what its namespace has to the snapshot.
LEMMA FullDocAdded ==
    ASSUME NEW d, Tidy(d), NEW N, NEW c \in FullDocs(d)
    PROVE  AddDoc(Snapshot(d, N), c) = Snapshot(d, N \cup {c.ns})
<1> DEFINE n == c.ns
           ss == Snapshot(d, N)
           new == Snapshot(d, N \cup {n})
           S == SegmentsOf(d, n)
<1>1. Replacing(ss.segments, SnapshotSegments(c)) = new.segments
    BY SnapshotSegmentsAre, ReplacingOwn
<1>2. {s \in new.segments : s.ns = n} = S
  <2>1. n \in N \cup {n}
      OBVIOUS
  <2> QED
      BY <2>1, OwnPart
<1>3. ToSet(c.flags) = {FlagListed(d, x) : x \in FlagsIn(d, n)}
    BY DEF FullDocs
<1> HIDE DEF n, ss, new, S
<1>4. \A f \in ToSet(c.flags) : Resolvable(f, S)
    BY <1>3, FlagExported DEF S
<1>5. {SnapshotFlag(n, f, S) : f \in ToSet(c.flags)} = FlagsOf(d, n)
  <2>1. \A x \in FlagsIn(d, n) : SnapshotFlag(n, FlagListed(d, x), S) = FlagIn(d, n, x)
      BY FlagExported DEF S
  <2>2. {SnapshotFlag(n, f, S) : f \in ToSet(c.flags)} = {FlagIn(d, n, x) : x \in FlagsIn(d, n)}
      BY <1>3, <2>1
  <2> QED
      BY <2>2, FlagsOfAre
<1>6. Replacing(ss.flags, {SnapshotFlag(n, f, S) : f \in ToSet(c.flags)}) = new.flags
    BY <1>5, ReplacingOwn DEF ss, new
<1>7. AddDoc(ss, c) =
        [ok |-> ss.ok /\ Validated(c) /\ \A f \in ToSet(c.flags) : Resolvable(f, S),
         segments |-> new.segments,
         flags |-> Replacing(ss.flags, {SnapshotFlag(n, f, S) : f \in ToSet(c.flags)})]
    BY <1>1, <1>2 DEF AddDoc, n
<1>8. (ss.ok /\ Validated(c) /\ \A f \in ToSet(c.flags) : Resolvable(f, S)) = new.ok
  <2>1. ss.ok = (\A m \in N : Listable(d, m))
      BY DEF ss, Snapshot
  <2>2. new.ok = (\A m \in N \cup {n} : Listable(d, m))
      BY DEF new, Snapshot
  <2>3. Validated(c) <=> Listable(d, n)
      BY FullDocValidated DEF n
  <2> QED
      BY <1>4, <2>1, <2>2, <2>3
<1>9. AddDoc(ss, c) = [ok |-> new.ok, segments |-> new.segments, flags |-> new.flags]
    BY <1>6, <1>7, <1>8
<1> QED
    BY <1>9 DEF ss, new, n, Snapshot

NamesTo(ds, k) == {ds[i].ns : i \in 1..k}

\* The loop over the documents.
LEMMA SnapshotIs ==
    ASSUME NEW ds, Len(ds) \in Nat, NEW g, g = [k \in 0..Len(ds) |-> g[k]], g[0] = NoSnapshot,
           \A k \in 1..Len(ds) : g[k] = AddDoc(g[k - 1], ds[k])
    PROVE  SnapshotOf(ds) = g[Len(ds)]
<1> DEFINE n == Len(ds)
           Loop(f) == f = [k \in 0..n |-> IF k = 0 THEN NoSnapshot ELSE AddDoc(f[k - 1], ds[k])]
<1>0. n \in Nat
    OBVIOUS
<1> HIDE DEF n
<1>1. Loop(g)
  <2>1. \A k \in 0..n : g[k] = IF k = 0 THEN NoSnapshot ELSE AddDoc(g[k - 1], ds[k])
      BY <1>0 DEF n
  <2>2. g = [k \in 0..n |-> g[k]]
      BY DEF n
  <2> QED
      BY <2>1, <2>2
<1> DEFINE after == SnapshotAfter(ds)
<1>2. after = CHOOSE f : Loop(f)
    BY DEF SnapshotAfter, n
<1> HIDE DEF after
<1>3. Loop(after)
  <2> HIDE DEF Loop
  <2> QED
      BY <1>1, <1>2
<1>4. \A k \in 0..n : after[k] = IF k = 0 THEN NoSnapshot ELSE AddDoc(after[k - 1], ds[k])
    BY <1>3
<1> DEFINE Same == {k \in 0..n : after[k] = g[k]}
<1>5. Inductive(Same, n)
  <2>1. 0 \in Same
      BY <1>0, <1>4
  <2>2. ASSUME NEW m \in 0..(n - 1), m \in Same PROVE m + 1 \in Same
    <3>1. m + 1 \in 1..n /\ m + 1 \in 0..n /\ (m + 1) - 1 = m /\ m + 1 # 0
        BY <1>0
    <3>2. after[m + 1] = AddDoc(after[m], ds[m + 1])
        BY <1>4, <3>1
    <3>3. g[m + 1] = AddDoc(g[m], ds[m + 1])
        BY <3>1 DEF n
    <3> QED
        BY <2>2, <3>1, <3>2, <3>3
  <2> QED
      BY <2>1, <2>2 DEF Inductive
<1>6. n \in Same
  <2> HIDE DEF Same
  <2> QED
      BY <1>0, <1>5, UpTo
<1> QED
    BY <1>6 DEF SnapshotOf, after, n

LEMMA SnapshotOfFull ==
    ASSUME NEW d, Tidy(d), NEW ds \in Seq(FullDocs(d))
    PROVE  SnapshotOf(ds) = Snapshot(d, NamesTo(ds, Len(ds)))
<1> DEFINE g == [k \in 0..Len(ds) |-> Snapshot(d, NamesTo(ds, k))]
<1>0. Len(ds) \in Nat /\ \A k \in 1..Len(ds) : ds[k] \in FullDocs(d)
    OBVIOUS
<1>1. g[0] = NoSnapshot
  <2>1. g[0] = Snapshot(d, NamesTo(ds, 0)) /\ NamesTo(ds, 0) = {}
      BY <1>0 DEF NamesTo
  <2>2. UNION {SegmentsOf(d, m) : m \in {}} = {} /\ UNION {FlagsOf(d, m) : m \in {}} = {}
      OBVIOUS
  <2>3. (\A m \in {} : Listable(d, m)) = TRUE
      OBVIOUS
  <2> QED
      BY <2>1, <2>2, <2>3 DEF Snapshot, NoSnapshot
<1>2. ASSUME NEW k \in 1..Len(ds) PROVE g[k] = AddDoc(g[k - 1], ds[k])
  <2>1. NamesTo(ds, k) = NamesTo(ds, k - 1) \cup {ds[k].ns}
    <3>1. \A i \in 1..k : i \in 1..(k - 1) \/ i = k
        BY <1>0
    <3>2. k \in 1..k /\ \A i \in 1..(k - 1) : i \in 1..k
        BY <1>0
    <3> QED
        BY <3>1, <3>2 DEF NamesTo
  <2>2. AddDoc(Snapshot(d, NamesTo(ds, k - 1)), ds[k]) = Snapshot(d, NamesTo(ds, k))
      BY <1>0, <2>1, FullDocAdded
  <2>3. g[k] = Snapshot(d, NamesTo(ds, k)) /\ g[k - 1] = Snapshot(d, NamesTo(ds, k - 1))
      BY <1>0
  <2> QED
      BY <2>2, <2>3
<1>3. g = [k \in 0..Len(ds) |-> g[k]] /\ g[Len(ds)] = Snapshot(d, NamesTo(ds, Len(ds)))
    BY <1>0
<1> HIDE DEF g
<1> QED
    BY <1>0, <1>1, <1>2, <1>3, SnapshotIs

\* Export, documentsFromFile and addDoc: files exported while no table changed are
\* refused exactly when a constraint of their namespaces has an operator the schema of
\* the files does not list.  All others give, in a declarative store, the flags, rules
\* in the order of their ranks, segments, distributions and rollouts that the tables
\* have, for any tables and any page size, as long as rules use segments of their
\* namespace and variants of their flag.
THEOREM ExportedFilesAgree == TransferSpec => []FilesAgree
<1>1. ASSUME ExportInv, StoreInv PROVE FilesAgree
  <2> SUFFICES ASSUME phase = "exported", ~disturbed, RulesUseOwnSegments, OwnVariants
               PROVE  /\ SnapshotOf(docs).ok <=>
                           \A k \in DOMAIN docs : Listable(db, docs[k].ns)
                      /\ \A k \in DOMAIN docs : Agrees(SnapshotOf(docs), db, docs[k].ns)
      BY DEF FilesAgree, Listable
  <2>1. docs \in Seq(FullDocs(db))
      BY <1>1 DEF ExportInv, ExportSound
  <2>2. Tidy(db)
      BY <1>1 DEF Tidy, Tables, StoreInv, TypeOK, NamespacesSeparate, RulesUseOwnSegments,
                  OwnVariants
  <2> DEFINE N == NamesTo(docs, Len(docs))
  <2>3. SnapshotOf(docs) = Snapshot(db, N)
      BY <2>1, <2>2, SnapshotOfFull
  <2>4. \A k \in DOMAIN docs : docs[k].ns \in N
      BY <2>1 DEF NamesTo
  <2>5. Snapshot(db, N).ok <=> \A k \in DOMAIN docs : Listable(db, docs[k].ns)
    <3>1. \A m \in N : \E k \in DOMAIN docs : docs[k].ns = m
        BY <2>1 DEF NamesTo
    <3> HIDE DEF N
    <3> QED
        BY <2>4, <3>1 DEF Snapshot
  <2> HIDE DEF N
  <2>6. ASSUME NEW k \in DOMAIN docs PROVE Agrees(Snapshot(db, N), db, docs[k].ns)
      BY <2>4, OwnPart DEF Agrees
  <2> QED
      BY <2>3, <2>5, <2>6
<1> QED
    BY <1>1, ExportInvariance, StoreInvThroughout, PTL

-----------------------------------------------------------------------------
(* Import.  First what any export can write, disturbed or not: the operator *)
(* of a rule is that of its segments, a distribution names at most one     *)
(* variant, and a rollout has segments, a threshold or nothing.            *)

AnyRule ==
    {r \in [segments : SUBSET SegmentKey, operator : Operators,
            distributions : Seq(SUBSET VariantKey)] :
       /\ r.operator = SegmentOperator(r.segments, r.operator)
       /\ \A k \in DOMAIN r.distributions : \A x, y \in r.distributions[k] : x = y}

AnyRollout ==
    {r \in [segments : SUBSET SegmentKey, operator : Operators \cup {"threshold", "none"}] :
       r.segments = {} <=> r.operator \in {"threshold", "none"}}

AnyFlag == [key : FlagKey, enabled : BOOLEAN, variants : Seq(VariantKey),
            rules : Seq(AnyRule), rollouts : Seq(AnyRollout)]

AnySegment == [key : SegmentKey, match : {"all", "any"}, constraints : Seq(Comparison)]

AnyDocument == [ns : Namespace, flags : Seq(AnyFlag), segments : Seq(AnySegment)]

VariantLists == {s \in Seq(VariantRow) : \A j, k \in DOMAIN s : s[j].id = s[k].id => s[j] = s[k]}

AnyPending == [row : FlagRow, variants : VariantLists, rules : Seq(AnyRule)]

DocInv ==
    /\ docs \in Seq(AnyDocument) /\ doc \in AnyDocument
    /\ pending \in Seq(AnyPending) /\ offset \in Nat
    /\ phase = "rollouts" => pending # <<>>

LEMMA PageType ==
    ASSUME NEW S, NEW s \in Seq(S), NEW from \in Nat, NEW limit \in Nat
    PROVE  Page(s, from, limit).rows \in Seq(S) /\ Page(s, from, limit).next \in Nat
<1>1. ASSUME NEW t \in Seq(S), NEW a \in Nat, NEW b \in Nat PROVE Rows(t, a, b) \in Seq(S)
  <2>1. Len(t) \in Nat
      OBVIOUS
  <2> DEFINE end == IF a + b <= Len(t) THEN a + b ELSE Len(t)
  <2>2. Min({a + b, Len(t)}) = end
      BY <2>1, MinOfTwo
  <2>3. end \in 0..Len(t)
      BY <2>1
  <2> HIDE DEF end
  <2>4. SubSeq(t, a + 1, end) \in Seq(S)
      BY <2>1, <2>3
  <2> QED
      BY <2>2, <2>4 DEF Rows
<1>2. Rows(s, from, limit + 1) \in Seq(S)
    BY <1>1
<1>3. Rows(Rows(s, from, limit + 1), 0, limit) \in Seq(S)
    BY <1>1, <1>2
<1>4. (IF Len(Rows(s, from, limit + 1)) > limit THEN from + limit ELSE 0) \in Nat
    OBVIOUS
<1> QED
    BY <1>3, <1>4 DEF Page

LEMMA VariantsType ==
    ASSUME NEW d, Tables(d), NEW n, NEW f
    PROVE  FlagVariants(d, n, f) \in VariantLists
<1> DEFINE s == FlagVariants(d, n, f)
<1>1. s \in Seq(VariantsIn(d, n, f))
  <2>1. Numbered(VariantsIn(d, n, f))
      BY TablesFinite
  <2> QED
      BY <2>1, ByIdLists DEF FlagVariants, VariantsIn
<1>2. VariantsIn(d, n, f) \subseteq VariantRow /\ VariantsIn(d, n, f) \subseteq d.variants
    BY Fields DEF VariantsIn, Tables
<1>3. \A x, y \in d.variants : x.id = y.id => x = y
    BY UniqueTables DEF Tables
<1> HIDE DEF s
<1>4. s \in Seq(VariantRow) /\ \A j \in DOMAIN s : s[j] \in d.variants
    BY <1>1, <1>2
<1>5. s \in VariantLists
    BY <1>3, <1>4 DEF VariantLists
<1> QED
    BY <1>5 DEF s

LEMMA OperatorSettled ==
    ASSUME NEW S, NEW o \in Operators
    PROVE  /\ SegmentOperator(S, o) \in Operators
           /\ SegmentOperator(S, SegmentOperator(S, o)) = SegmentOperator(S, o)
BY DEF SegmentOperator, Operators

LEMMA RuleType ==
    ASSUME NEW d, Tables(d), NEW r \in d.rules, NEW variants \in VariantLists
    PROVE  ExportedRule(d, r, variants) \in AnyRule
<1> DEFINE dists == ById(DistributionsOf(d, r.id))
           K == KeysOfRule(d, r.id)
           found == [k \in DOMAIN dists |-> VariantKeyOf(variants, dists[k].variant)]
           e == ExportedRule(d, r, variants)
<1>1. K \subseteq SegmentKey /\ r.operator \in Operators
    BY Fields DEF KeysOfRule, Tables, RuleSegmentRow, RuleRow
<1>2. e = [segments |-> K, operator |-> SegmentOperator(K, r.operator), distributions |-> found]
    BY DEF ExportedRule, DistributionsOf
<1>3. dists \in Seq(DistributionsOf(d, r.id))
    BY DistributionsListed
<1> HIDE DEF dists, K
<1>4. ASSUME NEW i
      PROVE  /\ VariantKeyOf(variants, i) \in SUBSET VariantKey
             /\ \A x, y \in VariantKeyOf(variants, i) : x = y
  <2>1. \A k \in DOMAIN variants : variants[k] \in VariantRow
      BY DEF VariantLists
  <2>2. \A k \in DOMAIN variants : variants[k].key \in VariantKey
      BY <2>1 DEF VariantRow
  <2>3. \A j, k \in DOMAIN variants : variants[j].id = variants[k].id => variants[j] = variants[k]
      BY DEF VariantLists
  <2> QED
      BY <2>2, <2>3 DEF VariantKeyOf
<1>5. found \in Seq(SUBSET VariantKey) /\ DOMAIN found = DOMAIN dists
    BY <1>3, <1>4
<1>6. \A k \in DOMAIN found : \A x, y \in found[k] : x = y
    BY <1>4, <1>5
<1> HIDE DEF found
<1>7. SegmentOperator(K, r.operator) \in Operators
    BY <1>1, OperatorSettled
<1>8. SegmentOperator(K, SegmentOperator(K, r.operator)) = SegmentOperator(K, r.operator)
    BY <1>1, OperatorSettled
<1> HIDE DEF e
<1>9. /\ e \in [segments : SUBSET SegmentKey, operator : Operators,
                distributions : Seq(SUBSET VariantKey)]
      /\ e.segments = K /\ e.operator = SegmentOperator(K, r.operator) /\ e.distributions = found
    BY <1>1, <1>2, <1>5, <1>7
<1> QED
    BY <1>6, <1>8, <1>9 DEF AnyRule, e

LEMMA RolloutType ==
    ASSUME NEW d, Tables(d), NEW r \in d.rollouts
    PROVE  ExportedRollout(d, r) \in AnyRollout
<1>1. r.operator \in Operators \cup {"threshold"} /\ KeysOfRollout(d, r) \subseteq SegmentKey
    BY Fields DEF Tables, RolloutRow, KeysOfRollout, RolloutSegmentRow
<1>2. r.operator = "threshold" => KeysOfRollout(d, r) = {}
    BY DEF KeysOfRollout
<1> QED
    BY <1>1, <1>2 DEF ExportedRollout, AnyRollout, Operators

LEMMA DocumentFields ==
    ASSUME NEW c \in AnyDocument
    PROVE  /\ c.ns \in Namespace /\ c.flags \in Seq(AnyFlag) /\ c.segments \in Seq(AnySegment)
           /\ \A n \in Namespace : [c EXCEPT !.ns = n] \in AnyDocument
           /\ \A s \in Seq(AnyFlag) : [c EXCEPT !.flags = s] \in AnyDocument
           /\ \A s \in Seq(AnySegment) : [c EXCEPT !.segments = s] \in AnyDocument
BY DEF AnyDocument

LEMMA ListFlagsType ==
    ASSUME Tables(db), ExportType, DocInv, ListFlags
    PROVE  DocInv'
<1> DEFINE n == Head(names)
           S == FlagsIn(db, n)
           page == Page(SetToSeq(S), offset, batch)
           rows == page.rows
<1>1. /\ batch \in Nat /\ n \in Namespace /\ doc' = [doc EXCEPT !.ns = n] /\ docs' = docs
      /\ offset' = page.next /\ phase' = "rules" /\ DocInv
    BY DEF ExportType, ListFlags, FlagsIn
<1>2. pending' = [k \in DOMAIN rows |->
                    [row |-> rows[k], variants |-> FlagVariants(db, n, rows[k].key),
                     rules |-> <<>>]]
    BY DEF ListFlags, FlagsIn
<1>3. S \subseteq FlagRow
    BY Fields DEF FlagsIn, Tables
<1>4. rows \in Seq(S) /\ page.next \in Nat
  <2>1. SetToSeq(S) \in Seq(S)
      BY TablesFinite, SetToSeqLists DEF IsListing
  <2> HIDE DEF S
  <2> QED
      BY <1>1, <2>1, PageType DEF DocInv
<1> HIDE DEF rows, page, S, n
<1>5. \A k \in DOMAIN rows :
        [row |-> rows[k], variants |-> FlagVariants(db, n, rows[k].key), rules |-> <<>>]
          \in AnyPending
  <2>1. \A k \in DOMAIN rows : rows[k] \in FlagRow
      BY <1>3, <1>4
  <2>2. <<>> \in Seq(AnyRule)
      OBVIOUS
  <2> QED
      BY <2>1, <2>2, VariantsType DEF AnyPending
<1>6. pending' \in Seq(AnyPending)
    BY <1>2, <1>4, <1>5
<1>7. doc' \in AnyDocument
    BY <1>1, DocumentFields DEF DocInv
<1> QED
    BY <1>1, <1>4, <1>6, <1>7 DEF DocInv

LEMMA PendingFields ==
    ASSUME NEW p \in AnyPending
    PROVE  /\ p.row \in FlagRow /\ p.variants \in VariantLists /\ p.rules \in Seq(AnyRule)
           /\ \A s \in Seq(AnyRule) : [p EXCEPT !.rules = s] \in AnyPending
BY DEF AnyPending

LEMMA ListRulesType ==
    ASSUME Tables(db), DocInv, ListRules
    PROVE  DocInv'
<1> DEFINE f == Head(pending)
           S == RulesIn(db, f.row.ns, f.row.key)
           rules == ByRank(S)
           listed == [k \in DOMAIN rules |-> ExportedRule(db, rules[k], f.variants)]
<1>1. /\ phase' \in {"failed", "rollouts"} /\ pending # <<>>
      /\ pending' = pending \/ pending' = [pending EXCEPT ![1].rules = listed]
      /\ UNCHANGED <<offset, doc, docs>>
    BY DEF ListRules, RulesIn
<1>2. pending \in Seq(AnyPending) /\ f \in AnyPending /\ f = pending[1]
    BY <1>1 DEF DocInv
<1>3. rules \in Seq(S)
  <2>1. RankOrdered(S)
      BY RulesOrdered
  <2> QED
      BY <2>1, ByRankLists
<1>4. \A k \in DOMAIN rules : rules[k] \in db.rules
    BY <1>3 DEF RulesIn
<1> HIDE DEF rules, f, S
<1>5. \A k \in DOMAIN rules : ExportedRule(db, rules[k], f.variants) \in AnyRule
  <2>1. f.variants \in VariantLists
      BY <1>2, PendingFields
  <2> QED
      BY <1>4, <2>1, RuleType
<1>6. listed \in Seq(AnyRule)
    BY <1>3, <1>5
<1> HIDE DEF listed
<1>7. [f EXCEPT !.rules = listed] \in AnyPending
    BY <1>2, <1>6, PendingFields
<1>8. [pending EXCEPT ![1].rules = listed] = [pending EXCEPT ![1] = [f EXCEPT !.rules = listed]]
    BY <1>2
<1>9. [pending EXCEPT ![1] = [f EXCEPT !.rules = listed]] \in Seq(AnyPending)
    BY <1>1, <1>2, <1>7
<1>10. [pending EXCEPT ![1] = [f EXCEPT !.rules = listed]] # <<>>
  <2> DEFINE new == [f EXCEPT !.rules = listed]
  <2> HIDE DEF new
  <2>1. Len([pending EXCEPT ![1] = new]) = Len(pending) /\ Len(pending) # 0
      BY <1>1, <1>2
  <2> QED
      BY <2>1 DEF new
<1>11. pending' \in Seq(AnyPending) /\ pending' # <<>>
    BY <1>1, <1>2, <1>8, <1>9, <1>10
<1> QED
    BY <1>1, <1>11 DEF DocInv

LEMMA ListRolloutsType ==
    ASSUME Tables(db), DocInv, ListRollouts
    PROVE  DocInv'
<1> DEFINE f == Head(pending)
           S == RolloutsIn(db, f.row.ns, f.row.key)
           rollouts == ById(S)
           listed == [k \in DOMAIN rollouts |-> ExportedRollout(db, rollouts[k])]
           keys == [k \in DOMAIN f.variants |-> f.variants[k].key]
           new == [key |-> f.row.key, enabled |-> f.row.enabled, variants |-> keys,
                   rules |-> f.rules, rollouts |-> listed]
<1>1. /\ phase = "rollouts" /\ phase' = "rules" /\ pending' = Tail(pending)
      /\ doc' = [doc EXCEPT !.flags = Append(@, new)]
      /\ UNCHANGED <<offset, docs>>
    BY DEF ListRollouts, RolloutsIn
<1>2. pending \in Seq(AnyPending) /\ pending # <<>> /\ f \in AnyPending
    BY <1>1 DEF DocInv
<1>3. rollouts \in Seq(S)
  <2>1. Numbered(S)
      BY TablesFinite
  <2> QED
      BY <2>1, ByIdLists
<1>4. \A k \in DOMAIN rollouts : rollouts[k] \in db.rollouts
    BY <1>3 DEF RolloutsIn
<1> HIDE DEF rollouts, f, S
<1>5. listed \in Seq(AnyRollout)
  <2>1. \A k \in DOMAIN rollouts : ExportedRollout(db, rollouts[k]) \in AnyRollout
      BY <1>4, RolloutType
  <2> QED
      BY <1>3, <2>1
<1>6. f.row \in FlagRow /\ f.variants \in VariantLists /\ f.rules \in Seq(AnyRule)
    BY <1>2, PendingFields
<1>7. keys \in Seq(VariantKey)
  <2>1. f.variants \in Seq(VariantRow)
      BY <1>6 DEF VariantLists
  <2>2. \A k \in DOMAIN f.variants : f.variants[k] \in VariantRow
      BY <2>1
  <2>3. \A v \in VariantRow : v.key \in VariantKey
      BY DEF VariantRow
  <2> QED
      BY <2>1, <2>2, <2>3
<1>8. f.row.key \in FlagKey /\ f.row.enabled \in BOOLEAN
    BY <1>6 DEF FlagRow
<1> HIDE DEF listed, keys
<1>9. new \in AnyFlag
    BY <1>5, <1>6, <1>7, <1>8 DEF AnyFlag
<1> HIDE DEF new
<1>10. doc' \in AnyDocument
  <2>1. Append(doc.flags, new) \in Seq(AnyFlag)
      BY <1>9, DocumentFields DEF DocInv
  <2> QED
      BY <1>1, <2>1, DocumentFields DEF DocInv
<1>11. pending' \in Seq(AnyPending)
    BY <1>1, <1>2
<1> QED
    BY <1>1, <1>10, <1>11 DEF DocInv

LEMMA ListSegmentsType ==
    ASSUME Tables(db), ExportType, DocInv, ListSegments
    PROVE  DocInv'
<1> DEFINE n == Head(names)
           S == SegmentsIn(db, n)
           page == Page(SetToSeq(S), offset, batch)
           rows == page.rows
           shown == [k \in DOMAIN rows |->
                      LET s == rows[k]
                          c == Constraints(db, n, s.key)
                      IN  [key |-> s.key, match |-> s.match,
                           constraints |-> [j \in DOMAIN c |-> c[j].value]]]
           more == doc.segments \o shown
           new == [doc EXCEPT !.segments = more]
<1>1. /\ batch \in Nat /\ offset' = page.next /\ phase' \in {"segments", "flags", "exported"}
      /\ \/ doc' = new /\ docs' = docs
         \/ doc' = NoDoc /\ docs' = Append(docs, new)
      /\ pending' = pending
    BY DEF ExportType, ListSegments, SegmentsIn
<1>2. S \subseteq SegmentRow
    BY Fields DEF SegmentsIn, Tables
<1>3. rows \in Seq(S) /\ page.next \in Nat
  <2>1. SetToSeq(S) \in Seq(S)
      BY TablesFinite, SetToSeqLists DEF IsListing
  <2> HIDE DEF S
  <2> QED
      BY <1>1, <2>1, PageType DEF DocInv
<1> HIDE DEF rows, page, S, n
<1>4. ASSUME NEW key PROVE ValuesListed(db, n, key) \in Seq(Comparison)
  <2> DEFINE c == Constraints(db, n, key)
  <2>1. c \in Seq(ConstraintsIn(db, n, key))
    <3>1. Numbered(ConstraintsIn(db, n, key))
        BY TablesFinite
    <3> QED
        BY <3>1, ByIdLists DEF Constraints, ConstraintsIn
  <2>2. \A x \in ConstraintsIn(db, n, key) : x.value \in Comparison
      BY Fields DEF Tables, ConstraintsIn, ConstraintsRow
  <2> HIDE DEF c
  <2>3. [j \in DOMAIN c |-> c[j].value] \in Seq(Comparison)
      BY <2>1, <2>2
  <2> QED
      BY <2>3 DEF ValuesListed, c
<1>5. shown \in Seq(AnySegment)
  <2>1. shown = [k \in DOMAIN rows |-> [key |-> rows[k].key, match |-> rows[k].match,
                                       constraints |-> ValuesListed(db, n, rows[k].key)]]
      BY DEF ValuesListed
  <2>2. \A k \in DOMAIN rows : rows[k] \in SegmentRow
      BY <1>2, <1>3
  <2>3. \A k \in DOMAIN rows : [key |-> rows[k].key, match |-> rows[k].match,
          constraints |-> ValuesListed(db, n, rows[k].key)] \in AnySegment
      BY <1>4, <2>2 DEF SegmentRow, AnySegment
  <2> HIDE DEF shown
  <2> QED
      BY <1>3, <2>1, <2>3
<1> HIDE DEF shown
<1>6. new \in AnyDocument
  <2>1. more \in Seq(AnySegment)
      BY <1>5, DocumentFields DEF DocInv
  <2> HIDE DEF more
  <2> QED
      BY <2>1, DocumentFields DEF DocInv
<1>7. NoDoc \in AnyDocument
    BY TransferAssumption DEF NoDoc, AnyDocument
<1> HIDE DEF new
<1>8. doc' \in AnyDocument /\ docs' \in Seq(AnyDocument)
    BY <1>1, <1>6, <1>7 DEF DocInv
<1> QED
    BY <1>1, <1>3, <1>8 DEF DocInv

LEMMA DocInvariance == TransferSpec => []DocInv
<1>1. TransferInit => DocInv
  <2> SUFFICES ASSUME TransferInit PROVE DocInv
      OBVIOUS
  <2>1. NoDoc \in AnyDocument
      BY TransferAssumption DEF NoDoc, AnyDocument
  <2>2. doc = NoDoc /\ docs = <<>> /\ pending = <<>> /\ offset = 0 /\ phase = "idle"
      BY DEF TransferInit
  <2> QED
      BY <2>1, <2>2 DEF DocInv
<1>2. ASSUME ExportInv, DocInv, StoreInv, [TransferNext]_allVars PROVE DocInv'
  <2>1. Tables(db) /\ ExportType
      BY <1>2 DEF StoreInv, TypeOK, Tables, ExportInv
  <2>2. CASE ListFlags
      BY <1>2, <2>1, <2>2, ListFlagsType
  <2>3. CASE ListRules
      BY <1>2, <2>1, <2>3, ListRulesType
  <2>4. CASE ListRollouts
      BY <1>2, <2>1, <2>4, ListRolloutsType
  <2>5. CASE ListSegments
      BY <1>2, <2>1, <2>5, ListSegmentsType
  <2>6. CASE UNCHANGED <<docs, doc, pending, offset>> /\ (phase' = "rollouts" => phase = "rollouts")
      BY <1>2, <2>6 DEF DocInv
  <2>7. ASSUME NEW some, NEW everything, BeginExport(some, everything)
        PROVE  UNCHANGED <<docs, doc, pending, offset>> /\ phase' # "rollouts"
      BY <2>7 DEF BeginExport
  <2>8. CASE BeginImport \/ ImportCall \/ Imported \/ Interrupt
    <3>1. UNCHANGED <<docs, doc, pending, offset>> /\ (phase' = "rollouts" => phase = "rollouts")
        BY <2>8 DEF BeginImport, ImportCall, Imported, Interrupt, exportVars
    <3> QED
        BY <2>6, <3>1
  <2>9. CASE ListNamespaces \/ PageDone
    <3>1. UNCHANGED <<docs, doc, pending, offset>> /\ phase' # "rollouts"
        BY <2>9 DEF ListNamespaces, PageDone, exportVars
    <3> QED
        BY <2>6, <3>1
  <2>10. CASE StoreStep \/ UNCHANGED allVars
    <3>1. UNCHANGED <<phase, docs, doc, pending, offset>>
        BY <2>10 DEF StoreStep, exportVars, allVars, transferVars
    <3> QED
        BY <2>6, <3>1
  <2> QED
      BY <1>2, <2>2, <2>3, <2>4, <2>5, <2>6, <2>7, <2>8, <2>9, <2>10
         DEF TransferNext, TransferStep, ExportStep
<1> QED
    BY <1>1, <1>2, ExportInvariance, StoreInvThroughout, PTL DEF TransferSpec

-----------------------------------------------------------------------------
(* The calls of an import, and where each of them is.                      *)

\* A function that is defined from its previous value exists.
IsLoop(g, n, T, init, step) ==
    g \in [0..n -> T] /\ g[0] = init /\ \A i \in 1..n : g[i] = step[i][g[i - 1]]

LEMMA LoopExists ==
    ASSUME NEW T, NEW n \in Nat, NEW init \in T, NEW step \in [1..n -> [T -> T]]
    PROVE  \E g : IsLoop(g, n, T, init, step)
<1> DEFINE Runs(m, g) == g[0] = init /\ \A i \in 1..m : g[i] = step[i][g[i - 1]]
           S == {m \in 0..n : \E g \in [0..m -> T] : Runs(m, g)}
<1>1. 0 \in S
  <2>1. [i \in 0..0 |-> init] \in [0..0 -> T] /\ Runs(0, [i \in 0..0 |-> init])
      OBVIOUS
  <2>2. \E g \in [0..0 -> T] : Runs(0, g)
      BY <2>1, Zenon
  <2>3. 0 \in 0..n
      OBVIOUS
  <2> QED
      BY <2>2, <2>3, Zenon
<1>2. ASSUME NEW m \in 0..(n - 1), m \in S PROVE m + 1 \in S
  <2> SUFFICES \E g \in [0..(m + 1) -> T] : Runs(m + 1, g)
      OBVIOUS
  <2>1. PICK g \in [0..m -> T] : Runs(m, g)
      BY <1>2
  <2> DEFINE h == [i \in 0..(m + 1) |-> IF i = m + 1 THEN step[m + 1][g[m]] ELSE g[i]]
  <2>2. step[m + 1][g[m]] \in T
      OBVIOUS
  <2>3. h \in [0..(m + 1) -> T]
      BY <2>2
  <2>4. h[0] = init
      BY <2>1
  <2>5. ASSUME NEW i \in 1..(m + 1) PROVE h[i] = step[i][h[i - 1]]
      BY <2>1
  <2> QED
      BY <2>3, <2>4, <2>5
<1>3. Inductive(S, n)
    BY <1>1, <1>2 DEF Inductive
<1>4. n \in S
  <2> HIDE DEF S
  <2> QED
      BY <1>3, UpTo
<1> QED
    BY <1>4 DEF IsLoop

\* The sequences after so many of s have been put together.
Joined(g, s, T) ==
    /\ g \in [0..Len(s) -> Seq(T)] /\ g[0] = <<>>
    /\ \A i \in 1..Len(s) : g[i] = g[i - 1] \o s[i]

LEMMA FlattenIs ==
    ASSUME NEW T, NEW s \in Seq(Seq(T))
    PROVE  \E g : Joined(g, s, T) /\ FlattenSeq(s) = g[Len(s)]
<1> DEFINE n == Len(s)
           step == [i \in 1..n |-> [x \in Seq(T) |-> x \o s[i]]]
<1>0. n \in Nat /\ \A i \in 1..n : s[i] \in Seq(T)
    OBVIOUS
<1> HIDE DEF n
<1>1. \A i \in 1..n : [x \in Seq(T) |-> x \o s[i]] \in [Seq(T) -> Seq(T)]
    BY <1>0
<1>2. step \in [1..n -> [Seq(T) -> Seq(T)]] /\ <<>> \in Seq(T)
    BY <1>1
<1>3. \A i \in 1..n : \A x \in Seq(T) : step[i][x] = x \o s[i]
    BY <1>0
<1> HIDE DEF step
<1>4. PICK g : IsLoop(g, n, Seq(T), <<>>, step)
    BY <1>0, <1>2, LoopExists
<1>5. g \in [0..n -> Seq(T)] /\ g[0] = <<>> /\ \A i \in 1..n : g[i] = step[i][g[i - 1]]
    BY <1>4 DEF IsLoop
<1>6. \A i \in 1..n : g[i] = g[i - 1] \o s[i]
  <2> SUFFICES ASSUME NEW i \in 1..n PROVE g[i] = g[i - 1] \o s[i]
      OBVIOUS
  <2>1. i - 1 \in 0..n
      BY <1>0
  <2>2. g[i - 1] \in Seq(T)
      BY <1>5, <2>1
  <2> QED
      BY <1>3, <1>5, <2>2
<1>7. Joined(g, s, T)
    BY <1>5, <1>6 DEF Joined, n
<1>8. CASE n = 0
  <2>1. s = <<>>
      BY <1>8 DEF n
  <2>2. FlattenSeq(s) = s
      BY <1>8 DEF FlattenSeq, n
  <2> QED
      BY <1>5, <1>7, <1>8, <2>1, <2>2 DEF n
<1>9. CASE n # 0
  <2> DEFINE Loop(f) == f = [i \in 1..n |-> IF i = 1 THEN s[i] ELSE f[i - 1] \o s[i]]
             h == [i \in 1..n |-> g[i]]
             flat == CHOOSE f : Loop(f)
  <2>1. g[1] = s[1]
    <3>1. 1 \in 1..n /\ 1 - 1 = 0
        BY <1>0, <1>9
    <3>2. g[1] = <<>> \o s[1] /\ s[1] \in Seq(T)
        BY <1>0, <1>5, <1>6, <3>1
    <3> QED
        BY <3>2
  <2>2. Loop(h)
    <3>1. ASSUME NEW i \in 1..n PROVE g[i] = IF i = 1 THEN s[i] ELSE h[i - 1] \o s[i]
      <4>1. CASE i = 1
          BY <2>1, <4>1
      <4>2. CASE i # 1
        <5>1. i - 1 \in 1..n
            BY <1>0, <4>2
        <5> QED
            BY <1>6, <4>2, <5>1
      <4> QED
          BY <4>1, <4>2
    <3> QED
        BY <3>1
  <2>3. Loop(flat)
    <3> HIDE DEF Loop, h
    <3> QED
        BY <2>2
  <2> HIDE DEF flat
  <2>4. \A i \in 1..n : flat[i] = IF i = 1 THEN s[i] ELSE flat[i - 1] \o s[i]
      BY <2>3
  <2> DEFINE Same == {i \in 0..n : i = 0 \/ flat[i] = g[i]}
  <2>5. Inductive(Same, n)
    <3>1. 0 \in Same
        BY <1>0
    <3>2. ASSUME NEW m \in 0..(n - 1), m \in Same PROVE m + 1 \in Same
      <4>1. m + 1 \in 1..n /\ m + 1 \in 0..n /\ (m + 1) - 1 = m /\ (m + 1 = 1 <=> m = 0)
          BY <1>0
      <4>2. CASE m = 0
          BY <2>1, <2>4, <4>1, <4>2
      <4>3. CASE m # 0
        <5>1. flat[m + 1] = flat[m] \o s[m + 1] /\ g[m + 1] = g[m] \o s[m + 1]
            BY <1>6, <2>4, <4>1, <4>3
        <5> QED
            BY <3>2, <4>1, <4>3, <5>1
      <4> QED
          BY <4>2, <4>3
    <3> QED
        BY <3>1, <3>2 DEF Inductive
  <2>6. n \in Same
    <3> HIDE DEF Same
    <3> QED
        BY <1>0, <2>5, UpTo
  <2>7. FlattenSeq(s) = flat[n]
      BY <1>9 DEF FlattenSeq, flat, n
  <2> QED
      BY <1>7, <1>9, <2>6, <2>7 DEF n
<1> QED
    BY <1>8, <1>9

\* Where each sequence of s is in the sequence t they make together.
IsLaid(off, s, t) ==
    /\ off \in [1..Len(s) -> Nat]
    /\ \A k \in 1..Len(s) :
         /\ off[k] + Len(s[k]) <= Len(t)
         /\ \A m \in 1..Len(s[k]) : t[off[k] + m] = s[k][m]
    /\ \A k, l \in 1..Len(s) : k < l => off[k] + Len(s[k]) <= off[l]
    /\ \A p \in 1..Len(t) : \E k \in 1..Len(s) : p - off[k] \in 1..Len(s[k])

\* c is a with b after it.
Follows(c, a, b) ==
    /\ Len(a) \in Nat /\ Len(b) \in Nat /\ Len(c) = Len(a) + Len(b)
    /\ \A p \in 1..Len(a) : c[p] = a[p]
    /\ \A m \in 1..Len(b) : c[Len(a) + m] = b[m]

LEMMA ConcatFollows ==
    ASSUME NEW T, NEW a \in Seq(T), NEW b \in Seq(T)
    PROVE  Follows(a \o b, a, b) /\ a \o b \in Seq(T)
BY DEF Follows

LEMMA FlattenLaid ==
    ASSUME NEW T, NEW s \in Seq(Seq(T))
    PROVE  FlattenSeq(s) \in Seq(T) /\ \E off : IsLaid(off, s, FlattenSeq(s))
<1>1. PICK g : Joined(g, s, T) /\ FlattenSeq(s) = g[Len(s)]
    BY FlattenIs
<1> DEFINE n == Len(s)
<1>0. n \in Nat /\ \A i \in 1..n : s[i] \in Seq(T)
    OBVIOUS
<1> HIDE DEF n
<1>2. /\ n \in Nat /\ \A i \in 1..n : s[i] \in Seq(T)
      /\ g \in [0..n -> Seq(T)] /\ g[0] = <<>> /\ \A i \in 1..n : g[i] = g[i - 1] \o s[i]
    BY <1>0, <1>1, Zenon DEF Joined, n
<1>3. ASSUME NEW i \in 1..n
      PROVE  /\ i - 1 \in 0..n /\ g[i] \in Seq(T) /\ g[i - 1] \in Seq(T)
             /\ Follows(g[i], g[i - 1], s[i])
  <2>1. i - 1 \in 0..n
      BY <1>2
  <2>2. g[i - 1] \in Seq(T) /\ s[i] \in Seq(T) /\ g[i] = g[i - 1] \o s[i]
      BY <1>2, <2>1
  <2>3. Follows(g[i - 1] \o s[i], g[i - 1], s[i]) /\ g[i - 1] \o s[i] \in Seq(T)
      BY <2>2, ConcatFollows
  <2> QED
      BY <2>1, <2>2, <2>3
<1>4. \A i \in 0..n : g[i] \in Seq(T) /\ Len(g[i]) \in Nat
    BY <1>2
<1> DEFINE Prefix(a, b) == Len(a) <= Len(b) /\ \A p \in 1..Len(a) : b[p] = a[p]
           Fits(i) ==
             /\ \A k \in 0..i : Prefix(g[k], g[i])
             /\ \A p \in 1..Len(g[i]) : \E k \in 1..i : p - Len(g[k - 1]) \in 1..Len(s[k])
           Good == {i \in 0..n : Fits(i)}
<1>5. Inductive(Good, n)
  <2>1. 0 \in Good
    <3>1. 0 \in 0..n /\ Len(g[0]) = 0
        BY <1>2
    <3>2. \A k \in 0..0 : k = 0
        OBVIOUS
    <3>3. Fits(0)
        BY <1>4, <3>1, <3>2
    <3> QED
        BY <3>1, <3>3
  <2>2. ASSUME NEW m \in 0..(n - 1), m \in Good PROVE m + 1 \in Good
    <3> DEFINE i == m + 1
    <3>1. i \in 1..n /\ i \in 0..n /\ i - 1 = m
        BY <1>2
    <3>2. Fits(m)
        BY <2>2
    <3>3. Follows(g[i], g[m], s[i])
        BY <1>3, <3>1
    <3> HIDE DEF i
    <3>a. ASSUME NEW a, NEW b, NEW c, Prefix(a, b), Follows(c, b, s[i]), Len(a) \in Nat
          PROVE  Prefix(a, c)
      <4>1. \A p \in 1..Len(a) : p \in 1..Len(b)
          BY <3>a DEF Follows
      <4> QED
          BY <3>a, <4>1 DEF Follows
    <3>4. ASSUME NEW k \in 0..i PROVE Prefix(g[k], g[i])
      <4>1. CASE k = i
        <5>1. Len(g[i]) \in Nat
            BY <1>4, <3>1
        <5> QED
            BY <4>1, <5>1
      <4>2. CASE k # i
        <5>1. k \in 0..m /\ k \in 0..n
            BY <1>2, <3>1, <4>2
        <5>2. Prefix(g[k], g[m]) /\ Len(g[k]) \in Nat
            BY <1>4, <3>2, <5>1
        <5> HIDE DEF Prefix
        <5> QED
            BY <3>3, <3>a, <5>2
      <4> QED
          BY <4>1, <4>2
    <3>5. ASSUME NEW p \in 1..Len(g[i])
          PROVE  \E k \in 1..i : p - Len(g[k - 1]) \in 1..Len(s[k])
      <4>1. CASE p \in 1..Len(g[m])
        <5>1. PICK k \in 1..m : p - Len(g[k - 1]) \in 1..Len(s[k])
            BY <3>2, <4>1
        <5>2. k \in 1..i
            BY <3>1
        <5> QED
            BY <5>1, <5>2
      <4>2. CASE p \notin 1..Len(g[m])
        <5>1. ASSUME NEW a, NEW b, NEW c, Follows(c, a, b), p \in 1..Len(c), p \notin 1..Len(a)
              PROVE  p - Len(a) \in 1..Len(b)
            BY <5>1 DEF Follows
        <5>2. p - Len(g[i - 1]) \in 1..Len(s[i]) /\ i \in 1..i
            BY <3>1, <3>3, <4>2, <5>1
        <5> QED
            BY <5>2
      <4> QED
          BY <4>1, <4>2
    <3>6. Fits(i)
        BY <3>4, <3>5
    <3> QED
        BY <3>1, <3>6 DEF i
  <2> QED
      BY <2>1, <2>2 DEF Inductive
<1>6. \A i \in 0..n : i \in Good
  <2> HIDE DEF Good
  <2> QED
      BY <1>2, <1>5, UpTo
<1>7. \A i \in 0..n : Fits(i)
    BY <1>6
<1> HIDE DEF Good
<1> DEFINE t == g[n]
           off == [k \in 1..n |-> Len(g[k - 1])]
<1>8. n \in 0..n /\ t \in Seq(T)
    BY <1>2
<1>9. off \in [1..n -> Nat]
    BY <1>3, <1>4
<1>10. ASSUME NEW k \in 1..n
       PROVE  /\ off[k] + Len(s[k]) <= Len(t)
              /\ \A m \in 1..Len(s[k]) : t[off[k] + m] = s[k][m]
  <2>1. k \in 0..n /\ off[k] = Len(g[k - 1]) /\ Follows(g[k], g[k - 1], s[k])
      BY <1>2, <1>3
  <2>2. Prefix(g[k], t)
      BY <1>7, <1>8, <2>1
  <2> DEFINE Within(a, c, u) ==
               Len(a) + Len(c) <= Len(u) /\ \A m \in 1..Len(c) : u[Len(a) + m] = c[m]
  <2>3. ASSUME NEW a, NEW b, NEW c, NEW u, Follows(b, a, c), Prefix(b, u)
        PROVE  Within(a, c, u)
    <3>1. \A m \in 1..Len(c) : Len(a) + m \in 1..Len(b)
        BY <2>3 DEF Follows
    <3> QED
        BY <2>3, <3>1 DEF Follows
  <2> HIDE DEF t, Prefix, off, Fits, Within
  <2>4. Within(g[k - 1], s[k], t)
      BY <2>1, <2>2, <2>3
  <2> QED
      BY <2>1, <2>4 DEF Within
<1>11. ASSUME NEW k \in 1..n, NEW l \in 1..n, k < l PROVE off[k] + Len(s[k]) <= off[l]
  <2>1. l - 1 \in 0..n /\ k \in 0..(l - 1)
      BY <1>2, <1>11
  <2>2. Len(g[k]) <= Len(g[l - 1])
      BY <1>7, <2>1
  <2>3. Len(g[k]) = Len(g[k - 1]) + Len(s[k])
      BY <1>3 DEF Follows
  <2> QED
      BY <2>2, <2>3
<1>12. ASSUME NEW p \in 1..Len(t) PROVE \E k \in 1..n : p - off[k] \in 1..Len(s[k])
  <2>1. PICK k \in 1..n : p - Len(g[k - 1]) \in 1..Len(s[k])
      BY <1>7, <1>8
  <2> QED
      BY <2>1
<1>13. FlattenSeq(s) = t
    BY <1>1 DEF n
<1> HIDE DEF t, off
<1>14. IsLaid(off, s, t)
    BY <1>9, <1>10, <1>11, <1>12 DEF IsLaid, n
<1> QED
    BY <1>8, <1>13, <1>14

\* A sequence s within C, after position o.
Block(C, o, s) ==
    o \in Nat /\ o + Len(s) <= Len(C) /\ \A m \in 1..Len(s) : C[o + m] = s[m]
In(p, o, s) == p - o \in 1..Len(s)

LEMMA BlockConcat ==
    ASSUME NEW T, NEW a \in Seq(T), NEW b \in Seq(T), NEW C, NEW o, Block(C, o, a \o b),
           Len(C) \in Nat
    PROVE  /\ Block(C, o, a) /\ Block(C, o + Len(a), b)
           /\ \A p \in Int : In(p, o, a \o b) => In(p, o, a) \/ In(p, o + Len(a), b)
<1> DEFINE c == a \o b
<1>1. Follows(c, a, b)
    BY ConcatFollows
<1>2. Block(C, o, c)
    OBVIOUS
<1> HIDE DEF c
<1>3. /\ Len(a) \in Nat /\ Len(b) \in Nat /\ Len(c) = Len(a) + Len(b) /\ o \in Nat
      /\ o + Len(c) <= Len(C)
    BY <1>1, <1>2 DEF Follows, Block
<1>4. ASSUME NEW m \in 1..Len(a) PROVE C[o + m] = a[m]
  <2>1. m \in 1..Len(c)
      BY <1>3
  <2> QED
      BY <1>1, <1>2, <2>1 DEF Follows, Block
<1>5. ASSUME NEW m \in 1..Len(b) PROVE C[(o + Len(a)) + m] = b[m]
  <2>1. Len(a) + m \in 1..Len(c) /\ o + (Len(a) + m) = (o + Len(a)) + m
      BY <1>3
  <2>2. C[o + (Len(a) + m)] = c[Len(a) + m] /\ c[Len(a) + m] = b[m]
      BY <1>1, <1>2, <2>1 DEF Follows, Block
  <2> QED
      BY <2>1, <2>2
<1>6. Block(C, o, a) /\ Block(C, o + Len(a), b)
    BY <1>3, <1>4, <1>5 DEF Block
<1>7. \A p \in Int : In(p, o, c) => In(p, o, a) \/ In(p, o + Len(a), b)
    BY <1>3 DEF In
<1> QED
    BY <1>6, <1>7 DEF c

PlacesIn(s) == CHOOSE off : IsLaid(off, s, FlattenSeq(s))

\* The sequences of s within C, where s as a whole is after position o.
Laid(C, o, s, off) ==
    /\ off \in [1..Len(s) -> Nat]
    /\ \A k \in 1..Len(s) : Block(C, o + off[k], s[k]) /\ off[k] + Len(s[k]) <= Len(FlattenSeq(s))
    /\ \A k, l \in 1..Len(s) : k < l => off[k] + Len(s[k]) <= off[l]
    /\ \A p \in Int : In(p, o, FlattenSeq(s)) => \E k \in 1..Len(s) : In(p, o + off[k], s[k])

LEMMA BlockFlatten ==
    ASSUME NEW T, NEW s \in Seq(Seq(T)), NEW C, NEW o, Block(C, o, FlattenSeq(s)), Len(C) \in Nat
    PROVE  Laid(C, o, s, PlacesIn(s)) /\ FlattenSeq(s) \in Seq(T)
<1> DEFINE t == FlattenSeq(s)
           off == PlacesIn(s)
<1>1. t \in Seq(T) /\ Len(t) \in Nat /\ Block(C, o, t)
    BY FlattenLaid
<1>2. IsLaid(off, s, t)
    BY FlattenLaid DEF PlacesIn
<1>3. Len(s) \in Nat /\ \A k \in 1..Len(s) : s[k] \in Seq(T) /\ Len(s[k]) \in Nat
    OBVIOUS
<1> HIDE DEF t, off
<1>4. off \in [1..Len(s) -> Nat] /\ \A k, l \in 1..Len(s) : k < l => off[k] + Len(s[k]) <= off[l]
    BY <1>2 DEF IsLaid
<1>5. ASSUME NEW k \in 1..Len(s)
      PROVE  Block(C, o + off[k], s[k]) /\ off[k] + Len(s[k]) <= Len(t)
  <2>1. /\ off[k] \in Nat /\ off[k] + Len(s[k]) <= Len(t) /\ Len(s[k]) \in Nat
        /\ \A m \in 1..Len(s[k]) : t[off[k] + m] = s[k][m]
      BY <1>2, <1>3 DEF IsLaid
  <2>2. o \in Nat /\ o + Len(t) <= Len(C) /\ \A m \in 1..Len(t) : C[o + m] = t[m]
      BY <1>1 DEF Block
  <2>3. o + off[k] \in Nat /\ (o + off[k]) + Len(s[k]) <= Len(C)
      BY <1>1, <2>1, <2>2
  <2>4. ASSUME NEW m \in 1..Len(s[k]) PROVE C[(o + off[k]) + m] = s[k][m]
    <3> DEFINE x == off[k]
               l == Len(s[k])
    <3>0. x \in Nat /\ l \in Nat /\ x + l <= Len(t) /\ m \in 1..l
        BY <2>1
    <3> HIDE DEF x, l
    <3>1. x + m \in 1..Len(t) /\ o + (x + m) = (o + x) + m
        BY <1>1, <2>2, <3>0
    <3> USE DEF x, l
    <3> QED
        BY <2>1, <2>2, <3>1
  <2> QED
      BY <2>1, <2>3, <2>4 DEF Block
<1>6. ASSUME NEW p \in Int, In(p, o, t) PROVE \E k \in 1..Len(s) : In(p, o + off[k], s[k])
  <2>1. o \in Nat
      BY <1>1 DEF Block
  <2>2. p - o \in 1..Len(t)
      BY <1>6 DEF In
  <2>3. PICK k \in 1..Len(s) : (p - o) - off[k] \in 1..Len(s[k])
      BY <1>2, <2>2 DEF IsLaid
  <2> DEFINE x == off[k]
  <2>a. x \in Nat
      BY <1>4
  <2> HIDE DEF x
  <2>b. (p - o) - x = p - (o + x)
      BY <2>1, <2>a
  <2>4. (p - o) - off[k] = p - (o + off[k])
      BY <2>b DEF x
  <2> QED
      BY <2>3, <2>4 DEF In
<1>7. Laid(C, o, s, off)
    BY <1>4, <1>5, <1>6 DEF Laid, t
<1> QED
    BY <1>1, <1>7 DEF off, t

-----------------------------------------------------------------------------
\* The calls.
NamespaceCall == [op : {"namespace"}, ns : Namespace]
FlagCall == [op : {"flag"}, ns : Namespace, flag : FlagKey, enabled : BOOLEAN]
VariantCall == [op : {"variant"}, ns : Namespace, flag : FlagKey, key : VariantKey]
SegmentCall == [op : {"segment"}, ns : Namespace, key : SegmentKey, match : {"all", "any"}]
ConstraintCall == [op : {"constraint"}, ns : Namespace, key : SegmentKey, value : Comparison]
RuleCall == [op : {"rule"}, ns : Namespace, flag : FlagKey, rank : Nat, rule : AnyRule]
DistributionCall == [op : {"distribution"}, ns : Namespace, flag : FlagKey,
                     keys : {S \in SUBSET VariantKey : \A x, y \in S : x = y}]
RolloutCall == [op : {"rollout"}, ns : Namespace, flag : FlagKey, rollout : AnyRollout]

AnyCall == NamespaceCall \cup FlagCall \cup VariantCall \cup SegmentCall \cup ConstraintCall
             \cup RuleCall \cup DistributionCall \cup RolloutCall

LEMMA ListLike ==
    ASSUME NEW s, NEW A, s \in Seq(A), NEW T, NEW e, \A k \in DOMAIN s : e[k] \in T,
           e = [k \in DOMAIN s |-> e[k]]
    PROVE  e \in Seq(T) /\ Len(e) = Len(s)
OBVIOUS

\* A call, and those for its parts after it.
Headed(s, head, n, part) ==
    /\ Len(s) = n + 1 /\ n \in Nat /\ s[1] = head
    /\ \A m \in 1..n : s[m + 1] = part[m]

LEMMA HeadedCalls ==
    ASSUME NEW T, NEW head \in T, NEW part \in Seq(T)
    PROVE  Headed(<<head>> \o part, head, Len(part), part) /\ <<head>> \o part \in Seq(T)
BY DEF Headed

VariantCalls(n, f) ==
    [k \in DOMAIN f.variants |-> [op |-> "variant", ns |-> n, flag |-> f.key, key |-> f.variants[k]]]
ConstraintCalls(n, s) ==
    [k \in DOMAIN s.constraints |->
        [op |-> "constraint", ns |-> n, key |-> s.key, value |-> s.constraints[k]]]
DistributionCalls(n, f, r) ==
    [k \in DOMAIN r.distributions |->
        [op |-> "distribution", ns |-> n, flag |-> f.key, keys |-> r.distributions[k]]]
RolloutCalls(n, f) ==
    [k \in DOMAIN f.rollouts |->
        [op |-> "rollout", ns |-> n, flag |-> f.key, rollout |-> f.rollouts[k]]]

LEMMA FlagCallsAre ==
    ASSUME NEW n \in Namespace, NEW f \in AnyFlag
    PROVE  /\ Headed(FlagCalls(n, f),
                     [op |-> "flag", ns |-> n, flag |-> f.key, enabled |-> f.enabled],
                     Len(f.variants), VariantCalls(n, f))
           /\ FlagCalls(n, f) \in Seq(FlagCall \cup VariantCall)
<1> DEFINE h == [op |-> "flag", ns |-> n, flag |-> f.key, enabled |-> f.enabled]
           T == FlagCall \cup VariantCall
           v == VariantCalls(n, f)
<1>1. f.key \in FlagKey /\ f.enabled \in BOOLEAN /\ f.variants \in Seq(VariantKey)
    BY DEF AnyFlag
<1>2. h \in T
    BY <1>1 DEF FlagCall
<1>3. \A k \in DOMAIN f.variants :
        [op |-> "variant", ns |-> n, flag |-> f.key, key |-> f.variants[k]] \in T
    BY <1>1 DEF VariantCall
<1>4. v \in Seq(T) /\ Len(v) = Len(f.variants)
  <2>1. v = [k \in DOMAIN f.variants |-> v[k]] /\ \A k \in DOMAIN f.variants : v[k] \in T
      BY <1>3 DEF VariantCalls
  <2> HIDE DEF v, T, h
  <2> QED
      BY <1>1, <2>1, ListLike
<1>5. FlagCalls(n, f) = <<h>> \o v
    BY DEF FlagCalls, VariantCalls
<1> HIDE DEF h, v, T
<1>6. Headed(<<h>> \o v, h, Len(v), v) /\ <<h>> \o v \in Seq(T)
    BY <1>2, <1>4, HeadedCalls
<1> QED
    BY <1>4, <1>5, <1>6 DEF h, v, T

LEMMA SegmentCallsAre ==
    ASSUME NEW n \in Namespace, NEW s \in AnySegment
    PROVE  /\ Headed(SegmentCalls(n, s),
                     [op |-> "segment", ns |-> n, key |-> s.key, match |-> s.match],
                     Len(s.constraints), ConstraintCalls(n, s))
           /\ SegmentCalls(n, s) \in Seq(SegmentCall \cup ConstraintCall)
<1> DEFINE h == [op |-> "segment", ns |-> n, key |-> s.key, match |-> s.match]
           T == SegmentCall \cup ConstraintCall
           v == ConstraintCalls(n, s)
<1>1. s.key \in SegmentKey /\ s.match \in {"all", "any"} /\ s.constraints \in Seq(Comparison)
    BY DEF AnySegment
<1>2. h \in T
    BY <1>1 DEF SegmentCall
<1>3. \A k \in DOMAIN s.constraints :
        [op |-> "constraint", ns |-> n, key |-> s.key, value |-> s.constraints[k]] \in T
    BY <1>1 DEF ConstraintCall
<1>4. v \in Seq(T) /\ Len(v) = Len(s.constraints)
  <2>1. v = [k \in DOMAIN s.constraints |-> v[k]] /\ \A k \in DOMAIN s.constraints : v[k] \in T
      BY <1>3 DEF ConstraintCalls
  <2> DEFINE e == s.constraints
  <2>2. e \in Seq(Comparison)
      BY <1>1
  <2>3. v = [k \in DOMAIN e |-> v[k]] /\ \A k \in DOMAIN e : v[k] \in T
      BY <2>1
  <2> HIDE DEF v, T, h, e
  <2>4. v \in Seq(T) /\ Len(v) = Len(e)
      BY <2>2, <2>3, ListLike
  <2> QED
      BY <2>4 DEF e
<1>5. SegmentCalls(n, s) = <<h>> \o v
    BY DEF SegmentCalls, ConstraintCalls
<1> HIDE DEF h, v, T
<1>6. Headed(<<h>> \o v, h, Len(v), v) /\ <<h>> \o v \in Seq(T)
    BY <1>2, <1>4, HeadedCalls
<1> QED
    BY <1>4, <1>5, <1>6 DEF h, v, T

LEMMA RuleCallsAre ==
    ASSUME NEW n \in Namespace, NEW f \in AnyFlag, NEW i \in Nat, NEW r \in AnyRule, f.rules[i] = r
    PROVE  /\ Headed(RuleCalls(n, f, i),
                     [op |-> "rule", ns |-> n, flag |-> f.key, rank |-> i, rule |-> r],
                     Len(r.distributions), DistributionCalls(n, f, r))
           /\ RuleCalls(n, f, i) \in Seq(RuleCall \cup DistributionCall)
<1> DEFINE h == [op |-> "rule", ns |-> n, flag |-> f.key, rank |-> i, rule |-> r]
           T == RuleCall \cup DistributionCall
           v == DistributionCalls(n, f, r)
<1>1. f.key \in FlagKey /\ r.distributions \in Seq(SUBSET VariantKey)
    BY DEF AnyFlag, AnyRule
<1>2. h \in T
    BY <1>1 DEF RuleCall
<1>3. \A k \in DOMAIN r.distributions :
        r.distributions[k] \in {S \in SUBSET VariantKey : \A x, y \in S : x = y}
    BY <1>1 DEF AnyRule
<1>a. \A k \in DOMAIN r.distributions :
        [op |-> "distribution", ns |-> n, flag |-> f.key, keys |-> r.distributions[k]] \in T
    BY <1>1, <1>3 DEF DistributionCall
<1>4. v \in Seq(T) /\ Len(v) = Len(r.distributions)
  <2>1. v = [k \in DOMAIN r.distributions |-> v[k]] /\ \A k \in DOMAIN r.distributions : v[k] \in T
      BY <1>a DEF DistributionCalls
  <2> HIDE DEF v, T, h
  <2> QED
      BY <1>1, <2>1, ListLike
<1>5. RuleCalls(n, f, i) = <<h>> \o v
    BY DEF RuleCalls, DistributionCalls
<1> HIDE DEF h, v, T
<1>6. Headed(<<h>> \o v, h, Len(v), v) /\ <<h>> \o v \in Seq(T)
    BY <1>2, <1>4, HeadedCalls
<1> QED
    BY <1>4, <1>5, <1>6 DEF h, v, T

-----------------------------------------------------------------------------
(* A document's calls, and where they are.                                 *)

NamespaceCalls(d) ==
    IF d.ns = Protected THEN <<>> ELSE <<[op |-> "namespace", ns |-> d.ns]>>
FlagLists(d) == [i \in DOMAIN d.flags |-> FlagCalls(d.ns, d.flags[i])]
SegmentLists(d) == [i \in DOMAIN d.segments |-> SegmentCalls(d.ns, d.segments[i])]
RuleLists(n, f) == [r \in DOMAIN f.rules |-> RuleCalls(n, f, r)]
StrategyLists(d) == [i \in DOMAIN d.flags |-> StrategyCalls(d.ns, d.flags[i])]
DocumentLists(ds) == [k \in DOMAIN ds |-> DocumentCalls(ds[k])]

LEMMA Concatenated ==
    /\ \A n, f : StrategyCalls(n, f) = FlattenSeq(RuleLists(n, f)) \o RolloutCalls(n, f)
    /\ \A d : DocumentCalls(d) =
         ((NamespaceCalls(d) \o FlattenSeq(FlagLists(d))) \o FlattenSeq(SegmentLists(d)))
           \o FlattenSeq(StrategyLists(d))
    /\ \A ds : ConcatMap(ds, DocumentCalls) = FlattenSeq(DocumentLists(ds))
<1>1. \A n, f : StrategyCalls(n, f) = FlattenSeq(RuleLists(n, f)) \o RolloutCalls(n, f)
    BY DEF StrategyCalls, ConcatMap, RuleLists, RolloutCalls
<1>2. \A d : DocumentCalls(d) =
        ((NamespaceCalls(d) \o FlattenSeq(FlagLists(d))) \o FlattenSeq(SegmentLists(d)))
          \o FlattenSeq(StrategyLists(d))
    BY DEF DocumentCalls, ConcatMap, NamespaceCalls, FlagLists, SegmentLists, StrategyLists
<1>3. \A ds : ConcatMap(ds, DocumentCalls) = FlattenSeq(DocumentLists(ds))
    BY DEF ConcatMap, DocumentLists
<1> QED
    BY <1>1, <1>2, <1>3

LEMMA WiderSeq ==
    ASSUME NEW S, NEW T, S \subseteq T, NEW s \in Seq(S)
    PROVE  s \in Seq(T)
OBVIOUS

LEMMA ListsLike ==
    ASSUME NEW s, NEW A, s \in Seq(A), NEW T, NEW e, \A k \in DOMAIN s : e[k] \in Seq(T),
           e = [k \in DOMAIN s |-> e[k]]
    PROVE  e \in Seq(Seq(T)) /\ Len(e) = Len(s)
<1> DEFINE U == Seq(T)
<1>1. \A k \in DOMAIN s : e[k] \in U
    OBVIOUS
<1> HIDE DEF U
<1>2. e \in Seq(U) /\ Len(e) = Len(s)
    BY <1>1, ListLike
<1> QED
    BY <1>2 DEF U

LEMMA Elements ==
    ASSUME NEW A, NEW s \in Seq(A)
    PROVE  \A k \in DOMAIN s : s[k] \in A
OBVIOUS

LEMMA StrategyCallsType ==
    ASSUME NEW n \in Namespace, NEW f \in AnyFlag
    PROVE  /\ RuleLists(n, f) \in Seq(Seq(AnyCall)) /\ Len(RuleLists(n, f)) = Len(f.rules)
           /\ RolloutCalls(n, f) \in Seq(AnyCall) /\ Len(RolloutCalls(n, f)) = Len(f.rollouts)
           /\ StrategyCalls(n, f) \in Seq(AnyCall)
<1>1. f.rules \in Seq(AnyRule) /\ f.rollouts \in Seq(AnyRollout) /\ f.key \in FlagKey
    BY DEF AnyFlag
<1>2. \A r \in DOMAIN f.rules : RuleCalls(n, f, r) \in Seq(AnyCall)
  <2>1. RuleCall \cup DistributionCall \subseteq AnyCall
      BY DEF AnyCall
  <2>a. \A r \in DOMAIN f.rules : r \in Nat /\ f.rules[r] \in AnyRule
      BY <1>1
  <2>2. ASSUME NEW r \in DOMAIN f.rules
        PROVE  RuleCalls(n, f, r) \in Seq(RuleCall \cup DistributionCall)
      BY <1>1, <2>a, RuleCallsAre
  <2> QED
      BY <2>1, <2>2, WiderSeq
<1>3. \A k \in DOMAIN f.rollouts :
        [op |-> "rollout", ns |-> n, flag |-> f.key, rollout |-> f.rollouts[k]] \in RolloutCall
    BY <1>1 DEF RolloutCall
<1>4. RolloutCalls(n, f) \in Seq(AnyCall) /\ Len(RolloutCalls(n, f)) = Len(f.rollouts)
  <2> DEFINE e == RolloutCalls(n, f)
  <2>1. e = [k \in DOMAIN f.rollouts |-> e[k]] /\ \A k \in DOMAIN f.rollouts : e[k] \in AnyCall
      BY <1>3 DEF RolloutCalls, AnyCall
  <2> HIDE DEF e
  <2>2. e \in Seq(AnyCall) /\ Len(e) = Len(f.rollouts)
      BY <1>1, <2>1, ListLike
  <2> QED
      BY <2>2 DEF e
<1>5. RuleLists(n, f) \in Seq(Seq(AnyCall)) /\ Len(RuleLists(n, f)) = Len(f.rules)
  <2> DEFINE e == RuleLists(n, f)
  <2>1. e = [k \in DOMAIN f.rules |-> e[k]] /\ \A k \in DOMAIN f.rules : e[k] \in Seq(AnyCall)
      BY <1>2 DEF RuleLists
  <2> HIDE DEF e
  <2>2. e \in Seq(Seq(AnyCall)) /\ Len(e) = Len(f.rules)
      BY <1>1, <2>1, ListsLike
  <2> QED
      BY <2>2 DEF e
<1>6. FlattenSeq(RuleLists(n, f)) \in Seq(AnyCall)
    BY <1>5, FlattenLaid
<1>7. StrategyCalls(n, f) = FlattenSeq(RuleLists(n, f)) \o RolloutCalls(n, f)
    BY Concatenated
<1>8. FlattenSeq(RuleLists(n, f)) \o RolloutCalls(n, f) \in Seq(AnyCall)
    BY <1>4, <1>6, ConcatFollows
<1> QED
    BY <1>4, <1>5, <1>7, <1>8

LEMMA DocumentListsType ==
    ASSUME NEW d \in AnyDocument
    PROVE  /\ NamespaceCalls(d) \in Seq(AnyCall)
           /\ FlagLists(d) \in Seq(Seq(AnyCall)) /\ Len(FlagLists(d)) = Len(d.flags)
           /\ SegmentLists(d) \in Seq(Seq(AnyCall)) /\ Len(SegmentLists(d)) = Len(d.segments)
           /\ StrategyLists(d) \in Seq(Seq(AnyCall)) /\ Len(StrategyLists(d)) = Len(d.flags)
           /\ DocumentCalls(d) \in Seq(AnyCall)
<1>1. d.ns \in Namespace /\ d.flags \in Seq(AnyFlag) /\ d.segments \in Seq(AnySegment)
    BY DEF AnyDocument
<1>2. NamespaceCalls(d) \in Seq(AnyCall)
  <2>1. [op |-> "namespace", ns |-> d.ns] \in AnyCall
      BY <1>1 DEF AnyCall, NamespaceCall
  <2> HIDE DEF AnyCall
  <2> QED
      BY <2>1 DEF NamespaceCalls
<1>3. FlagLists(d) \in Seq(Seq(AnyCall)) /\ Len(FlagLists(d)) = Len(d.flags)
  <2> DEFINE e == FlagLists(d)
  <2>1. FlagCall \cup VariantCall \subseteq AnyCall
      BY DEF AnyCall
  <2>a. \A k \in DOMAIN d.flags : d.flags[k] \in AnyFlag
      BY <1>1, Elements
  <2>2. ASSUME NEW k \in DOMAIN d.flags
        PROVE  FlagCalls(d.ns, d.flags[k]) \in Seq(FlagCall \cup VariantCall)
      BY <1>1, <2>a, FlagCallsAre
  <2>3. \A k \in DOMAIN d.flags : FlagCalls(d.ns, d.flags[k]) \in Seq(AnyCall)
      BY <2>1, <2>2, WiderSeq
  <2>4. e = [k \in DOMAIN d.flags |-> e[k]] /\ \A k \in DOMAIN d.flags : e[k] \in Seq(AnyCall)
      BY <2>3 DEF FlagLists
  <2> HIDE DEF e
  <2>5. e \in Seq(Seq(AnyCall)) /\ Len(e) = Len(d.flags)
      BY <1>1, <2>4, ListsLike
  <2> QED
      BY <2>5 DEF e
<1>4. SegmentLists(d) \in Seq(Seq(AnyCall)) /\ Len(SegmentLists(d)) = Len(d.segments)
  <2> DEFINE e == SegmentLists(d)
  <2>1. SegmentCall \cup ConstraintCall \subseteq AnyCall
      BY DEF AnyCall
  <2>a. \A k \in DOMAIN d.segments : d.segments[k] \in AnySegment
      BY <1>1, Elements
  <2>2. ASSUME NEW k \in DOMAIN d.segments
        PROVE  SegmentCalls(d.ns, d.segments[k]) \in Seq(SegmentCall \cup ConstraintCall)
      BY <1>1, <2>a, SegmentCallsAre
  <2>3. \A k \in DOMAIN d.segments : SegmentCalls(d.ns, d.segments[k]) \in Seq(AnyCall)
      BY <2>1, <2>2, WiderSeq
  <2>4. e = [k \in DOMAIN d.segments |-> e[k]] /\ \A k \in DOMAIN d.segments : e[k] \in Seq(AnyCall)
      BY <2>3 DEF SegmentLists
  <2> HIDE DEF e
  <2>5. e \in Seq(Seq(AnyCall)) /\ Len(e) = Len(d.segments)
      BY <1>1, <2>4, ListsLike
  <2> QED
      BY <2>5 DEF e
<1>5. StrategyLists(d) \in Seq(Seq(AnyCall)) /\ Len(StrategyLists(d)) = Len(d.flags)
  <2> DEFINE e == StrategyLists(d)
  <2>3. \A k \in DOMAIN d.flags : StrategyCalls(d.ns, d.flags[k]) \in Seq(AnyCall)
      BY <1>1, StrategyCallsType
  <2>4. e = [k \in DOMAIN d.flags |-> e[k]] /\ \A k \in DOMAIN d.flags : e[k] \in Seq(AnyCall)
      BY <2>3 DEF StrategyLists
  <2> HIDE DEF e
  <2>5. e \in Seq(Seq(AnyCall)) /\ Len(e) = Len(d.flags)
      BY <1>1, <2>4, ListsLike
  <2> QED
      BY <2>5 DEF e
<1> DEFINE a == NamespaceCalls(d)
           b == FlattenSeq(FlagLists(d))
           c == FlattenSeq(SegmentLists(d))
           e == FlattenSeq(StrategyLists(d))
<1>6. a \in Seq(AnyCall) /\ b \in Seq(AnyCall) /\ c \in Seq(AnyCall) /\ e \in Seq(AnyCall)
    BY <1>2, <1>3, <1>4, <1>5, FlattenLaid
<1>7. DocumentCalls(d) = ((a \o b) \o c) \o e
    BY Concatenated
<1> HIDE DEF a, b, c, e
<1>8. a \o b \in Seq(AnyCall)
    BY <1>6, ConcatFollows
<1>9. (a \o b) \o c \in Seq(AnyCall)
    BY <1>6, <1>8, ConcatFollows
<1>10. ((a \o b) \o c) \o e \in Seq(AnyCall)
    BY <1>6, <1>9, ConcatFollows
<1> QED
    BY <1>2, <1>3, <1>4, <1>5, <1>7, <1>10

\* The sequences of s in C, at the places given by at from o on, one after the other
\* and not beyond place n.
Spread(C, o, n, s, at) ==
    /\ at \in [1..Len(s) -> Nat]
    /\ \A i \in 1..Len(s) : Block(C, o + at[i], s[i]) /\ at[i] + Len(s[i]) <= n
    /\ \A i, j \in 1..Len(s) : i < j => at[i] + Len(s[i]) <= at[j]
Covers(p, o, s, at) == \E i \in 1..Len(s) : In(p, o + at[i], s[i])

Shifted(a, s) == [i \in 1..Len(s) |-> a + PlacesIn(s)[i]]

LEMMA BlockSpread ==
    ASSUME NEW T, NEW s \in Seq(Seq(T)), NEW C, Len(C) \in Nat, NEW o \in Nat, NEW a \in Nat,
           NEW n \in Nat, Block(C, o + a, FlattenSeq(s)), a + Len(FlattenSeq(s)) <= n
    PROVE  /\ Spread(C, o, n, s, Shifted(a, s))
           /\ \A i \in 1..Len(s) : a <= Shifted(a, s)[i]
           /\ \A i \in 1..Len(s) : Shifted(a, s)[i] + Len(s[i]) <= a + Len(FlattenSeq(s))
           /\ \A p \in Int : In(p, o + a, FlattenSeq(s)) => Covers(p, o, s, Shifted(a, s))
<1> DEFINE t == FlattenSeq(s)
           off == PlacesIn(s)
           at == Shifted(a, s)
<1>1. Laid(C, o + a, s, off) /\ t \in Seq(T)
    BY BlockFlatten
<1>2. Len(t) \in Nat /\ a + Len(t) <= n /\ Len(s) \in Nat
      /\ \A i \in 1..Len(s) : Len(s[i]) \in Nat
    BY <1>1
<1>3. \A i \in 1..Len(s) : at[i] = a + off[i]
    BY DEF Shifted
<1>4. at = [i \in 1..Len(s) |-> at[i]]
    BY DEF Shifted
<1> HIDE DEF t, off, at
<1>5. ASSUME NEW i \in 1..Len(s)
      PROVE  /\ off[i] \in Nat /\ at[i] \in Nat /\ (o + a) + off[i] = o + at[i] /\ at[i] = a + off[i]
             /\ off[i] + Len(s[i]) <= Len(t) /\ at[i] + Len(s[i]) <= a + Len(t) /\ a <= at[i]
             /\ Block(C, o + at[i], s[i])
  <2> DEFINE x == off[i]
             y == at[i]
             l == Len(s[i])
  <2>1. x \in Nat /\ y = a + x /\ x + l <= Len(t) /\ Block(C, (o + a) + x, s[i]) /\ l \in Nat
      BY <1>1, <1>2, <1>3 DEF Laid, t
  <2> HIDE DEF x, y, l
  <2>2. y \in Nat /\ (o + a) + x = o + y /\ y + l <= a + Len(t) /\ a <= y
      BY <1>2, <2>1
  <2> QED
      BY <2>1, <2>2 DEF x, y, l
<1>6. ASSUME NEW i \in 1..Len(s), NEW j \in 1..Len(s), i < j PROVE at[i] + Len(s[i]) <= at[j]
  <2> DEFINE x == off[i]
             y == off[j]
             l == Len(s[i])
  <2>1. x + l <= y /\ x \in Nat /\ y \in Nat /\ l \in Nat
      BY <1>1, <1>2, <1>5, <1>6 DEF Laid
  <2> HIDE DEF x, y, l
  <2>2. (a + x) + l <= a + y
      BY <2>1
  <2> QED
      BY <1>3, <2>2 DEF x, y, l
<1>7. ASSUME NEW i \in 1..Len(s) PROVE at[i] + Len(s[i]) <= n
  <2> DEFINE z == at[i] + Len(s[i])
  <2>1. z \in Nat /\ z <= a + Len(t)
      BY <1>2, <1>5
  <2> HIDE DEF z
  <2>2. z <= n
      BY <1>2, <2>1
  <2> QED
      BY <2>2 DEF z
<1>8. Spread(C, o, n, s, at)
    BY <1>4, <1>5, <1>6, <1>7 DEF Spread
<1>9. ASSUME NEW p \in Int, In(p, o + a, t) PROVE Covers(p, o, s, at)
  <2>1. PICK i \in 1..Len(s) : In(p, (o + a) + off[i], s[i])
      BY <1>1, <1>9 DEF Laid, t
  <2>2. In(p, o + at[i], s[i])
      BY <1>5, <2>1
  <2> QED
      BY <2>2 DEF Covers
<1> QED
    BY <1>5, <1>8, <1>9 DEF t, at

\* Where the calls of a document are, from its first one on.
FlagOffs(d) == Shifted(Len(NamespaceCalls(d)), FlagLists(d))
SegmentOffs(d) ==
    Shifted(Len(NamespaceCalls(d)) + Len(FlattenSeq(FlagLists(d))), SegmentLists(d))
StrategyOffs(d) ==
    Shifted(Len(NamespaceCalls(d)) + Len(FlattenSeq(FlagLists(d)))
              + Len(FlattenSeq(SegmentLists(d))), StrategyLists(d))
RuleOffs(d, i) == Shifted(StrategyOffs(d)[i], RuleLists(d.ns, d.flags[i]))
RolloutOff(d, i) == StrategyOffs(d)[i] + Len(FlattenSeq(RuleLists(d.ns, d.flags[i])))

StrategyLaid(C, o, n, d, i) ==
    /\ Spread(C, o, n, RuleLists(d.ns, d.flags[i]), RuleOffs(d, i))
    /\ RolloutOff(d, i) \in Nat /\ RolloutOff(d, i) + Len(d.flags[i].rollouts) <= n
    /\ Block(C, o + RolloutOff(d, i), RolloutCalls(d.ns, d.flags[i]))
    /\ FlagOffs(d)[i] < RolloutOff(d, i)
    /\ \A r \in 1..Len(d.flags[i].rules) : FlagOffs(d)[i] < RuleOffs(d, i)[r]

CallOf(p, o, d) ==
    \/ In(p, o, NamespaceCalls(d))
    \/ Covers(p, o, FlagLists(d), FlagOffs(d))
    \/ Covers(p, o, SegmentLists(d), SegmentOffs(d))
    \/ \E i \in 1..Len(d.flags) :
         \/ Covers(p, o, RuleLists(d.ns, d.flags[i]), RuleOffs(d, i))
         \/ In(p, o + RolloutOff(d, i), RolloutCalls(d.ns, d.flags[i]))

DocLaid(C, o, d, n) ==
    /\ Block(C, o, NamespaceCalls(d)) /\ n \in Nat /\ o + n <= Len(C)
    /\ Spread(C, o, n, FlagLists(d), FlagOffs(d))
    /\ Spread(C, o, n, SegmentLists(d), SegmentOffs(d))
    /\ \A i \in 1..Len(d.flags) : StrategyLaid(C, o, n, d, i)
    /\ \A p \in Int : In(p, o, DocumentCalls(d)) => CallOf(p, o, d)

\* Within the calls for the rules and rollouts of a flag.
LEMMA StrategySplit ==
    ASSUME NEW m \in Namespace, NEW f \in AnyFlag, NEW C, Len(C) \in Nat, NEW o \in Nat,
           NEW x \in Nat, NEW n \in Nat, Block(C, o + x, StrategyCalls(m, f)),
           x + Len(StrategyCalls(m, f)) <= n
    PROVE  LET s == RuleLists(m, f)
               at == Shifted(x, s)
               y == x + Len(FlattenSeq(s))
           IN  /\ Spread(C, o, n, s, at) /\ y \in Nat /\ y + Len(f.rollouts) <= n
               /\ Block(C, o + y, RolloutCalls(m, f)) /\ x <= y
               /\ \A r \in 1..Len(f.rules) : x <= at[r]
               /\ \A p \in Int : In(p, o + x, StrategyCalls(m, f)) =>
                    Covers(p, o, s, at) \/ In(p, o + y, RolloutCalls(m, f))
<1> DEFINE s == RuleLists(m, f)
           t == FlattenSeq(s)
           e == RolloutCalls(m, f)
           y == x + Len(t)
<1>1. /\ s \in Seq(Seq(AnyCall)) /\ Len(s) = Len(f.rules) /\ e \in Seq(AnyCall)
      /\ Len(e) = Len(f.rollouts)
    BY StrategyCallsType
<1>2. t \in Seq(AnyCall) /\ Len(t) \in Nat
    BY <1>1, FlattenLaid
<1>3. StrategyCalls(m, f) = t \o e
    BY Concatenated
<1>4. Follows(t \o e, t, e)
    BY <1>1, <1>2, ConcatFollows
<1> HIDE DEF s, t, e
<1>5. Len(t \o e) = Len(t) + Len(e) /\ Len(e) \in Nat
    BY <1>4 DEF Follows
<1>6. /\ Block(C, o + x, t) /\ Block(C, (o + x) + Len(t), e)
      /\ \A p \in Int : In(p, o + x, t \o e) => In(p, o + x, t) \/ In(p, (o + x) + Len(t), e)
    BY <1>1, <1>2, <1>3, BlockConcat
<1>7. /\ (o + x) + Len(t) = o + y /\ y \in Nat /\ y + Len(e) <= n /\ x + Len(t) <= n /\ x <= y
    BY <1>2, <1>3, <1>5
<1>8. /\ Spread(C, o, n, s, Shifted(x, s)) /\ \A i \in 1..Len(s) : x <= Shifted(x, s)[i]
      /\ \A p \in Int : In(p, o + x, t) => Covers(p, o, s, Shifted(x, s))
    BY <1>1, <1>2, <1>6, <1>7, BlockSpread DEF t
<1> QED
    BY <1>1, <1>3, <1>6, <1>7, <1>8 DEF s, t, e

LEMMA DocumentLaid ==
    ASSUME NEW d \in AnyDocument, NEW C, Len(C) \in Nat, NEW o, Block(C, o, DocumentCalls(d))
    PROVE  DocLaid(C, o, d, Len(DocumentCalls(d)))
<1> DEFINE a == NamespaceCalls(d)
           b == FlattenSeq(FlagLists(d))
           c == FlattenSeq(SegmentLists(d))
           e == FlattenSeq(StrategyLists(d))
           n == Len(DocumentCalls(d))
<1>1. /\ FlagLists(d) \in Seq(Seq(AnyCall)) /\ Len(FlagLists(d)) = Len(d.flags)
      /\ SegmentLists(d) \in Seq(Seq(AnyCall)) /\ Len(SegmentLists(d)) = Len(d.segments)
      /\ StrategyLists(d) \in Seq(Seq(AnyCall)) /\ Len(StrategyLists(d)) = Len(d.flags)
      /\ d.ns \in Namespace /\ d.flags \in Seq(AnyFlag)
    BY DocumentListsType DEF AnyDocument
<1>2. /\ a \in Seq(AnyCall) /\ b \in Seq(AnyCall) /\ c \in Seq(AnyCall) /\ e \in Seq(AnyCall)
    BY <1>1, FlattenLaid, DocumentListsType
<1>3. DocumentCalls(d) = ((a \o b) \o c) \o e
    BY Concatenated
<1> HIDE DEF a, b, c, e, n
<1>4. /\ Follows(a \o b, a, b) /\ Follows((a \o b) \o c, a \o b, c)
      /\ Follows(((a \o b) \o c) \o e, (a \o b) \o c, e)
      /\ a \o b \in Seq(AnyCall) /\ (a \o b) \o c \in Seq(AnyCall)
  <2>1. Follows(a \o b, a, b) /\ a \o b \in Seq(AnyCall)
      BY <1>2, ConcatFollows
  <2>2. Follows((a \o b) \o c, a \o b, c) /\ (a \o b) \o c \in Seq(AnyCall)
      BY <1>2, <2>1, ConcatFollows
  <2>3. Follows(((a \o b) \o c) \o e, (a \o b) \o c, e)
      BY <1>2, <2>2, ConcatFollows
  <2> QED
      BY <2>1, <2>2, <2>3
<1> DEFINE A == Len(a)
           B == Len(a) + Len(b)
           E == Len(a) + Len(b) + Len(c)
<1>5. /\ A \in Nat /\ Len(b) \in Nat /\ Len(c) \in Nat /\ Len(e) \in Nat /\ B \in Nat /\ E \in Nat
      /\ Len(a \o b) = B /\ Len((a \o b) \o c) = E /\ n = E + Len(e)
      /\ n \in Nat /\ A + Len(b) <= n /\ B + Len(c) <= n /\ E + Len(e) <= n
      /\ A + Len(b) <= E
    BY <1>3, <1>4 DEF Follows, n
<1>6. o \in Nat /\ o + n <= Len(C)
    BY DEF Block, n
<1>7. /\ Block(C, o, a) /\ Block(C, o + A, b) /\ Block(C, o + B, c) /\ Block(C, o + E, e)
      /\ \A p \in Int : In(p, o, DocumentCalls(d)) =>
           In(p, o, a) \/ In(p, o + A, b) \/ In(p, o + B, c) \/ In(p, o + E, e)
  <2>1. /\ Block(C, o, (a \o b) \o c) /\ Block(C, o + Len((a \o b) \o c), e)
        /\ \A p \in Int : In(p, o, ((a \o b) \o c) \o e) =>
             In(p, o, (a \o b) \o c) \/ In(p, o + Len((a \o b) \o c), e)
      BY <1>2, <1>3, <1>4, BlockConcat
  <2>2. /\ Block(C, o, a \o b) /\ Block(C, o + Len(a \o b), c)
        /\ \A p \in Int : In(p, o, (a \o b) \o c) => In(p, o, a \o b) \/ In(p, o + Len(a \o b), c)
      BY <1>2, <1>4, <2>1, BlockConcat
  <2>3. /\ Block(C, o, a) /\ Block(C, o + Len(a), b)
        /\ \A p \in Int : In(p, o, a \o b) => In(p, o, a) \/ In(p, o + Len(a), b)
      BY <1>2, <2>2, BlockConcat
  <2> HIDE DEF B, E
  <2> QED
      BY <1>3, <1>5, <2>1, <2>2, <2>3
<1> HIDE DEF A, B, E
<1>8. /\ Spread(C, o, n, FlagLists(d), FlagOffs(d))
      /\ \A i \in 1..Len(FlagLists(d)) : FlagOffs(d)[i] + Len(FlagLists(d)[i]) <= A + Len(b)
      /\ \A p \in Int : In(p, o + A, b) => Covers(p, o, FlagLists(d), FlagOffs(d))
    BY <1>1, <1>5, <1>6, <1>7, BlockSpread DEF FlagOffs, A, a, b
<1>9. /\ Spread(C, o, n, SegmentLists(d), SegmentOffs(d))
      /\ \A p \in Int : In(p, o + B, c) => Covers(p, o, SegmentLists(d), SegmentOffs(d))
    BY <1>1, <1>5, <1>6, <1>7, BlockSpread DEF SegmentOffs, B, a, b, c
<1>10. /\ Spread(C, o, n, StrategyLists(d), StrategyOffs(d))
       /\ \A i \in 1..Len(StrategyLists(d)) : E <= StrategyOffs(d)[i]
       /\ \A p \in Int : In(p, o + E, e) => Covers(p, o, StrategyLists(d), StrategyOffs(d))
    BY <1>1, <1>5, <1>6, <1>7, BlockSpread DEF StrategyOffs, E, a, b, c, e
<1>11. ASSUME NEW i \in 1..Len(d.flags)
       PROVE  /\ StrategyLaid(C, o, n, d, i)
              /\ \A p \in Int : In(p, o + StrategyOffs(d)[i], StrategyLists(d)[i]) =>
                   \/ Covers(p, o, RuleLists(d.ns, d.flags[i]), RuleOffs(d, i))
                   \/ In(p, o + RolloutOff(d, i), RolloutCalls(d.ns, d.flags[i]))
  <2> DEFINE x == StrategyOffs(d)[i]
             f == d.flags[i]
  <2>1. f \in AnyFlag /\ StrategyLists(d)[i] = StrategyCalls(d.ns, f)
      BY <1>1 DEF StrategyLists
  <2>2. /\ x \in Nat /\ Block(C, o + x, StrategyCalls(d.ns, f))
        /\ x + Len(StrategyCalls(d.ns, f)) <= n /\ E <= x
      BY <1>1, <1>10, <2>1 DEF Spread
  <2> DEFINE y == FlagOffs(d)[i]
             l == Len(FlagLists(d)[i])
  <2>3. y \in Nat /\ y + l <= A + Len(b) /\ l \in Nat /\ 1 <= l
    <3>1. FlagLists(d)[i] = FlagCalls(d.ns, f)
        BY <1>1 DEF FlagLists
    <3>2. Headed(FlagCalls(d.ns, f),
                 [op |-> "flag", ns |-> d.ns, flag |-> f.key, enabled |-> f.enabled],
                 Len(f.variants), VariantCalls(d.ns, f))
        BY <1>1, <2>1, FlagCallsAre
    <3> HIDE DEF f
    <3>3. l \in Nat /\ 1 <= l
        BY <3>1, <3>2 DEF Headed
    <3> QED
        BY <1>1, <1>8, <3>3 DEF Spread
  <2> HIDE DEF x, f, y, l
  <2>4. y < x
      BY <1>5, <2>2, <2>3
  <2>5. /\ Spread(C, o, n, RuleLists(d.ns, f), Shifted(x, RuleLists(d.ns, f)))
        /\ x + Len(FlattenSeq(RuleLists(d.ns, f))) \in Nat
        /\ (x + Len(FlattenSeq(RuleLists(d.ns, f)))) + Len(f.rollouts) <= n
        /\ Block(C, o + (x + Len(FlattenSeq(RuleLists(d.ns, f)))), RolloutCalls(d.ns, f))
        /\ x <= x + Len(FlattenSeq(RuleLists(d.ns, f)))
        /\ \A r \in 1..Len(f.rules) : x <= Shifted(x, RuleLists(d.ns, f))[r]
        /\ \A p \in Int : In(p, o + x, StrategyCalls(d.ns, f)) =>
             \/ Covers(p, o, RuleLists(d.ns, f), Shifted(x, RuleLists(d.ns, f)))
             \/ In(p, o + (x + Len(FlattenSeq(RuleLists(d.ns, f)))), RolloutCalls(d.ns, f))
      BY <1>1, <1>5, <1>6, <2>1, <2>2, StrategySplit
  <2>6. /\ RuleOffs(d, i) = Shifted(x, RuleLists(d.ns, f))
        /\ RolloutOff(d, i) = x + Len(FlattenSeq(RuleLists(d.ns, f)))
      BY DEF RuleOffs, RolloutOff, x, f
  <2>7. /\ Spread(C, o, n, RuleLists(d.ns, f), RuleOffs(d, i))
        /\ RolloutOff(d, i) \in Nat /\ RolloutOff(d, i) + Len(f.rollouts) <= n
        /\ Block(C, o + RolloutOff(d, i), RolloutCalls(d.ns, f))
        /\ x <= RolloutOff(d, i) /\ \A r \in 1..Len(f.rules) : x <= RuleOffs(d, i)[r]
        /\ \A p \in Int : In(p, o + x, StrategyCalls(d.ns, f)) =>
             \/ Covers(p, o, RuleLists(d.ns, f), RuleOffs(d, i))
             \/ In(p, o + RolloutOff(d, i), RolloutCalls(d.ns, f))
      BY <2>5, <2>6
  <2>8. Len(RuleLists(d.ns, f)) = Len(f.rules)
      BY <1>1, <2>1, StrategyCallsType
  <2>9. ASSUME NEW r \in 1..Len(f.rules) PROVE y < RuleOffs(d, i)[r]
    <3> DEFINE z == RuleOffs(d, i)[r]
    <3>1. x <= z /\ z \in Nat
        BY <2>7, <2>8 DEF Spread
    <3> HIDE DEF z
    <3>2. y < z
        BY <2>2, <2>3, <2>4, <3>1
    <3> QED
        BY <3>2 DEF z
  <2>10. y < RolloutOff(d, i)
      BY <2>2, <2>3, <2>4, <2>7
  <2>11. StrategyLaid(C, o, n, d, i)
      BY <2>7, <2>9, <2>10 DEF StrategyLaid, f, y
  <2> QED
      BY <2>1, <2>7, <2>11 DEF x, f
<1>12. ASSUME NEW p \in Int, In(p, o, DocumentCalls(d)) PROVE CallOf(p, o, d)
  <2>1. CASE In(p, o + E, e)
    <3>1. PICK i \in 1..Len(d.flags) : In(p, o + StrategyOffs(d)[i], StrategyLists(d)[i])
        BY <1>1, <1>10, <2>1 DEF Covers
    <3> QED
        BY <1>11, <3>1 DEF CallOf
  <2>2. CASE In(p, o, a) \/ In(p, o + A, b) \/ In(p, o + B, c)
      BY <1>8, <1>9, <2>2 DEF CallOf, a
  <2> QED
      BY <1>7, <1>12, <2>1, <2>2
<1> QED
    BY <1>5, <1>6, <1>7, <1>8, <1>9, <1>11, <1>12 DEF DocLaid, a, n

\* A call at place p, and those for its parts after it.
PartsAt(C, p, parts, l) == \A m \in 1..l : p + m \in 1..Len(C) /\ C[p + m] = parts[m]
HeadAt(C, p, head, parts, l) == p \in 1..Len(C) /\ C[p] = head /\ PartsAt(C, p, parts, l)

LEMMA HeadBlock ==
    ASSUME NEW C, Len(C) \in Nat, NEW x, NEW s, NEW head, NEW l, NEW parts, Block(C, x, s),
           Headed(s, head, l, parts)
    PROVE  /\ HeadAt(C, x + 1, head, parts, l) /\ Len(s) = l + 1 /\ l \in Nat
           /\ \A p \in Int : In(p, x, s) => p - (x + 1) \in 0..l
<1>1. x \in Nat /\ x + Len(s) <= Len(C) /\ Len(s) = l + 1 /\ l \in Nat
    BY DEF Block, Headed
<1>2. 1 \in 1..Len(s) /\ C[x + 1] = s[1]
    BY <1>1 DEF Block
<1>3. ASSUME NEW m \in 1..l PROVE (x + 1) + m \in 1..Len(C) /\ C[(x + 1) + m] = parts[m]
  <2>1. m + 1 \in 1..Len(s) /\ (x + 1) + m = x + (m + 1) /\ (x + 1) + m \in 1..Len(C)
      BY <1>1
  <2>2. C[x + (m + 1)] = s[m + 1] /\ s[m + 1] = parts[m]
      BY <2>1 DEF Block, Headed
  <2> QED
      BY <2>1, <2>2
<1>4. x + 1 \in 1..Len(C) /\ C[x + 1] = head
    BY <1>1, <1>2 DEF Headed
<1>5. \A p \in Int : In(p, x, s) => p - (x + 1) \in 0..l
    BY <1>1 DEF In
<1> QED
    BY <1>1, <1>3, <1>4, <1>5 DEF HeadAt, PartsAt

\* Sequences that begin with a call of their own, one after the other.
HeadsAt(C, o, n, s, at, head, len, parts) ==
    /\ \A i \in 1..Len(s) :
         /\ HeadAt(C, (o + at[i]) + 1, head[i], parts[i], len[i])
         /\ len[i] \in Nat /\ at[i] \in Nat /\ at[i] + 1 <= n
    /\ \A i, j \in 1..Len(s) : i < j => at[i] < at[j]
    /\ \A p \in Int : Covers(p, o, s, at) =>
         \E i \in 1..Len(s) : p - ((o + at[i]) + 1) \in 0..len[i]

LEMMA HeadsSpread ==
    ASSUME NEW C, Len(C) \in Nat, NEW o \in Nat, NEW n \in Nat, NEW s, NEW at, NEW head, NEW len,
           NEW parts, Spread(C, o, n, s, at),
           \A i \in 1..Len(s) : Headed(s[i], head[i], len[i], parts[i])
    PROVE  HeadsAt(C, o, n, s, at, head, len, parts)
<1>1. ASSUME NEW i \in 1..Len(s)
      PROVE  /\ HeadAt(C, (o + at[i]) + 1, head[i], parts[i], len[i]) /\ len[i] \in Nat
             /\ Len(s[i]) = len[i] + 1 /\ at[i] \in Nat /\ at[i] + 1 <= n
             /\ \A p \in Int : In(p, o + at[i], s[i]) => p - ((o + at[i]) + 1) \in 0..len[i]
  <2> DEFINE x == o + at[i]
             h == head[i]
             l == len[i]
             e == parts[i]
             a == at[i]
  <2>1. Block(C, x, s[i]) /\ Headed(s[i], h, l, e) /\ a + Len(s[i]) <= n /\ a \in Nat
      BY DEF Spread
  <2> HIDE DEF x, h, l, e, a
  <2>2. /\ HeadAt(C, x + 1, h, e, l) /\ Len(s[i]) = l + 1 /\ l \in Nat
        /\ \A p \in Int : In(p, x, s[i]) => p - (x + 1) \in 0..l
      BY <2>1, HeadBlock
  <2>3. a + 1 <= n
      BY <2>1, <2>2
  <2> QED
      BY <2>1, <2>2, <2>3 DEF x, h, l, e, a
<1>2. ASSUME NEW i \in 1..Len(s), NEW j \in 1..Len(s), i < j PROVE at[i] < at[j]
  <2> DEFINE a == at[i]
             b == at[j]
             l == len[i]
  <2>1. a \in Nat /\ b \in Nat /\ l \in Nat /\ a + (l + 1) <= b
      BY <1>1, <1>2 DEF Spread
  <2> HIDE DEF a, b, l
  <2>2. a < b
      BY <2>1
  <2> QED
      BY <2>2 DEF a, b
<1>3. \A p \in Int : Covers(p, o, s, at) =>
        \E i \in 1..Len(s) : p - ((o + at[i]) + 1) \in 0..len[i]
    BY <1>1 DEF Covers
<1> QED
    BY <1>1, <1>2, <1>3 DEF HeadsAt

-----------------------------------------------------------------------------
\* The first calls for a flag, a segment and a rule.
FlagHead(n, f) == [op |-> "flag", ns |-> n, flag |-> f.key, enabled |-> f.enabled]
SegmentHead(n, s) == [op |-> "segment", ns |-> n, key |-> s.key, match |-> s.match]
RuleHead(n, f, r) ==
    [op |-> "rule", ns |-> n, flag |-> f.key, rank |-> r, rule |-> f.rules[r]]

FlagPos(o, d, i) == (o + FlagOffs(d)[i]) + 1
SegmentPos(o, d, i) == (o + SegmentOffs(d)[i]) + 1
RulePos(o, d, i, r) == (o + RuleOffs(d, i)[r]) + 1
RolloutPos(o, d, i) == o + RolloutOff(d, i)

FlagThere(C, o, n, d, i) ==
    LET f == d.flags[i] p == FlagPos(o, d, i) q == RolloutPos(o, d, i) IN
    /\ HeadAt(C, p, FlagHead(d.ns, f), VariantCalls(d.ns, f), Len(f.variants))
    /\ p \in Nat /\ o < p /\ p <= o + n
    /\ PartsAt(C, q, RolloutCalls(d.ns, f), Len(f.rollouts))
    /\ q \in Nat /\ p <= q /\ q + Len(f.rollouts) <= o + n
    /\ \A r \in 1..Len(f.rules) :
         /\ HeadAt(C, RulePos(o, d, i, r), RuleHead(d.ns, f, r),
                   DistributionCalls(d.ns, f, f.rules[r]), Len(f.rules[r].distributions))
         /\ RulePos(o, d, i, r) \in Nat /\ p < RulePos(o, d, i, r) /\ RulePos(o, d, i, r) <= o + n
    /\ \A r, t \in 1..Len(f.rules) : r < t => RulePos(o, d, i, r) < RulePos(o, d, i, t)

SegmentThere(C, o, n, d, i) ==
    LET s == d.segments[i] p == SegmentPos(o, d, i) IN
    /\ HeadAt(C, p, SegmentHead(d.ns, s), ConstraintCalls(d.ns, s), Len(s.constraints))
    /\ p \in Nat /\ o < p /\ p <= o + n

PlaceOf(C, o, d, p) ==
    \/ C[p].op = "namespace"
    \/ \E i \in 1..Len(d.flags) : p - FlagPos(o, d, i) \in 0..Len(d.flags[i].variants)
    \/ \E i \in 1..Len(d.segments) : p - SegmentPos(o, d, i) \in 0..Len(d.segments[i].constraints)
    \/ \E i \in 1..Len(d.flags) : \E r \in 1..Len(d.flags[i].rules) :
         p - RulePos(o, d, i, r) \in 0..Len(d.flags[i].rules[r].distributions)
    \/ \E i \in 1..Len(d.flags) : p - RolloutPos(o, d, i) \in 1..Len(d.flags[i].rollouts)

DocPlaces(C, o, n, d) ==
    /\ \A i \in 1..Len(d.flags) : FlagThere(C, o, n, d, i)
    /\ \A i \in 1..Len(d.segments) : SegmentThere(C, o, n, d, i)
    /\ \A i, j \in 1..Len(d.flags) : i < j => FlagPos(o, d, i) < FlagPos(o, d, j)
    /\ \A i, j \in 1..Len(d.segments) : i < j => SegmentPos(o, d, i) < SegmentPos(o, d, j)
    /\ \A p \in Int : In(p, o, DocumentCalls(d)) => PlaceOf(C, o, d, p)

LEMMA RulesThere ==
    ASSUME NEW C, Len(C) \in Nat, NEW o \in Nat, NEW n \in Nat, NEW d \in AnyDocument,
           NEW i \in 1..Len(d.flags), StrategyLaid(C, o, n, d, i),
           NEW f, f = d.flags[i], f \in AnyFlag
    PROVE  /\ \A r \in 1..Len(f.rules) :
                /\ HeadAt(C, RulePos(o, d, i, r), RuleHead(d.ns, f, r),
                          DistributionCalls(d.ns, f, f.rules[r]), Len(f.rules[r].distributions))
                /\ RulePos(o, d, i, r) \in Nat /\ RulePos(o, d, i, r) <= o + n
                /\ RuleOffs(d, i)[r] \in Nat
           /\ \A r, t \in 1..Len(f.rules) : r < t => RulePos(o, d, i, r) < RulePos(o, d, i, t)
           /\ \A p \in Int : Covers(p, o, RuleLists(d.ns, f), RuleOffs(d, i)) =>
                \E r \in 1..Len(f.rules) :
                  p - RulePos(o, d, i, r) \in 0..Len(f.rules[r].distributions)
<1> DEFINE s == RuleLists(d.ns, f)
           at == RuleOffs(d, i)
           l == Len(f.rules)
           head == [r \in 1..l |-> RuleHead(d.ns, f, r)]
           len == [r \in 1..l |-> Len(f.rules[r].distributions)]
           parts == [r \in 1..l |-> DistributionCalls(d.ns, f, f.rules[r])]
<1>1. d.ns \in Namespace /\ f.rules \in Seq(AnyRule)
    BY DEF AnyDocument, AnyFlag
<1>2. Len(s) = l
    BY <1>1, StrategyCallsType
<1>3. Spread(C, o, n, s, at)
    BY DEF StrategyLaid
<1>4. ASSUME NEW r \in 1..l PROVE Headed(s[r], head[r], len[r], parts[r])
  <2>1. s[r] = RuleCalls(d.ns, f, r) /\ r \in Nat /\ f.rules[r] \in AnyRule
      BY <1>1 DEF RuleLists
  <2>2. Headed(RuleCalls(d.ns, f, r),
               [op |-> "rule", ns |-> d.ns, flag |-> f.key, rank |-> r, rule |-> f.rules[r]],
               Len(f.rules[r].distributions), DistributionCalls(d.ns, f, f.rules[r]))
      BY <1>1, <2>1, RuleCallsAre
  <2> HIDE DEF s
  <2> QED
      BY <2>1, <2>2 DEF RuleHead
<1>5. /\ \A r \in 1..l : /\ head[r] = RuleHead(d.ns, f, r)
                         /\ len[r] = Len(f.rules[r].distributions)
                         /\ parts[r] = DistributionCalls(d.ns, f, f.rules[r])
      /\ \A r : RulePos(o, d, i, r) = (o + at[r]) + 1
    BY DEF RulePos
<1> HIDE DEF s, at, l, head, len, parts
<1>6. HeadsAt(C, o, n, s, at, head, len, parts)
    BY <1>2, <1>3, <1>4, HeadsSpread
<1>7. ASSUME NEW r \in 1..l
      PROVE  /\ RulePos(o, d, i, r) \in Nat /\ RulePos(o, d, i, r) <= o + n /\ at[r] \in Nat
             /\ HeadAt(C, RulePos(o, d, i, r), head[r], parts[r], len[r])
  <2> DEFINE x == at[r]
  <2>1. x \in Nat /\ x + 1 <= n /\ HeadAt(C, (o + x) + 1, head[r], parts[r], len[r])
        /\ RulePos(o, d, i, r) = (o + x) + 1
      BY <1>2, <1>5, <1>6 DEF HeadsAt
  <2> HIDE DEF x
  <2>2. (o + x) + 1 \in Nat /\ (o + x) + 1 <= o + n
      BY <2>1
  <2> QED
      BY <2>1, <2>2 DEF x
<1>8. ASSUME NEW r \in 1..l, NEW t \in 1..l, r < t PROVE RulePos(o, d, i, r) < RulePos(o, d, i, t)
  <2> DEFINE x == at[r]
             y == at[t]
  <2>1. x \in Nat /\ y \in Nat /\ x < y
      BY <1>2, <1>6, <1>8 DEF HeadsAt
  <2> HIDE DEF x, y
  <2>2. (o + x) + 1 < (o + y) + 1
      BY <2>1
  <2> QED
      BY <1>5, <2>2 DEF x, y
<1>9. \A p \in Int : Covers(p, o, s, at) => \E r \in 1..l : p - RulePos(o, d, i, r) \in 0..len[r]
    BY <1>2, <1>5, <1>6 DEF HeadsAt
<1> QED
    BY <1>5, <1>7, <1>8, <1>9 DEF s, at, l

LEMMA FlagsThere ==
    ASSUME NEW C, Len(C) \in Nat, NEW o \in Nat, NEW n \in Nat, NEW d \in AnyDocument,
           Spread(C, o, n, FlagLists(d), FlagOffs(d))
    PROVE  /\ \A i \in 1..Len(d.flags) :
                /\ HeadAt(C, FlagPos(o, d, i), FlagHead(d.ns, d.flags[i]),
                          VariantCalls(d.ns, d.flags[i]), Len(d.flags[i].variants))
                /\ FlagPos(o, d, i) \in Nat /\ o < FlagPos(o, d, i) /\ FlagPos(o, d, i) <= o + n
                /\ FlagOffs(d)[i] \in Nat
           /\ \A i, j \in 1..Len(d.flags) : i < j => FlagPos(o, d, i) < FlagPos(o, d, j)
           /\ \A p \in Int : Covers(p, o, FlagLists(d), FlagOffs(d)) =>
                \E i \in 1..Len(d.flags) : p - FlagPos(o, d, i) \in 0..Len(d.flags[i].variants)
<1> DEFINE s == FlagLists(d)
           at == FlagOffs(d)
           l == Len(d.flags)
           head == [i \in 1..l |-> FlagHead(d.ns, d.flags[i])]
           len == [i \in 1..l |-> Len(d.flags[i].variants)]
           parts == [i \in 1..l |-> VariantCalls(d.ns, d.flags[i])]
<1>1. d.ns \in Namespace /\ d.flags \in Seq(AnyFlag)
    BY DEF AnyDocument
<1>2. Len(s) = l
    BY DocumentListsType
<1>4. ASSUME NEW i \in 1..l PROVE Headed(s[i], head[i], len[i], parts[i])
  <2>1. s[i] = FlagCalls(d.ns, d.flags[i]) /\ d.flags[i] \in AnyFlag
      BY <1>1 DEF FlagLists
  <2> DEFINE f == d.flags[i]
  <2> HIDE DEF f
  <2>2. Headed(FlagCalls(d.ns, f), [op |-> "flag", ns |-> d.ns, flag |-> f.key, enabled |-> f.enabled],
               Len(f.variants), VariantCalls(d.ns, f))
      BY <1>1, <2>1, FlagCallsAre DEF f
  <2> HIDE DEF s
  <2> QED
      BY <2>1, <2>2 DEF FlagHead, f
<1>5. /\ \A i \in 1..l : /\ head[i] = FlagHead(d.ns, d.flags[i])
                         /\ len[i] = Len(d.flags[i].variants)
                         /\ parts[i] = VariantCalls(d.ns, d.flags[i])
      /\ \A i : FlagPos(o, d, i) = (o + at[i]) + 1
    BY DEF FlagPos
<1> HIDE DEF s, at, l, head, len, parts
<1>6. HeadsAt(C, o, n, s, at, head, len, parts)
    BY <1>2, <1>4, HeadsSpread DEF s, at
<1>7. ASSUME NEW i \in 1..l
      PROVE  /\ FlagPos(o, d, i) \in Nat /\ o < FlagPos(o, d, i) /\ FlagPos(o, d, i) <= o + n
             /\ at[i] \in Nat /\ HeadAt(C, FlagPos(o, d, i), head[i], parts[i], len[i])
  <2> DEFINE x == at[i]
  <2>1. x \in Nat /\ x + 1 <= n /\ HeadAt(C, (o + x) + 1, head[i], parts[i], len[i])
        /\ FlagPos(o, d, i) = (o + x) + 1
      BY <1>2, <1>5, <1>6 DEF HeadsAt
  <2> HIDE DEF x
  <2>2. (o + x) + 1 \in Nat /\ (o + x) + 1 <= o + n /\ o < (o + x) + 1
      BY <2>1
  <2> QED
      BY <2>1, <2>2 DEF x
<1>8. ASSUME NEW i \in 1..l, NEW j \in 1..l, i < j PROVE FlagPos(o, d, i) < FlagPos(o, d, j)
  <2> DEFINE x == at[i]
             y == at[j]
  <2>1. x \in Nat /\ y \in Nat /\ x < y
      BY <1>2, <1>6, <1>8 DEF HeadsAt
  <2> HIDE DEF x, y
  <2>2. (o + x) + 1 < (o + y) + 1
      BY <2>1
  <2> QED
      BY <1>5, <2>2 DEF x, y
<1>9. \A p \in Int : Covers(p, o, s, at) => \E i \in 1..l : p - FlagPos(o, d, i) \in 0..len[i]
    BY <1>2, <1>5, <1>6 DEF HeadsAt
<1> QED
    BY <1>5, <1>7, <1>8, <1>9 DEF s, at, l

LEMMA SegmentsThere ==
    ASSUME NEW C, Len(C) \in Nat, NEW o \in Nat, NEW n \in Nat, NEW d \in AnyDocument,
           Spread(C, o, n, SegmentLists(d), SegmentOffs(d))
    PROVE  /\ \A i \in 1..Len(d.segments) : SegmentThere(C, o, n, d, i)
           /\ \A i, j \in 1..Len(d.segments) : i < j => SegmentPos(o, d, i) < SegmentPos(o, d, j)
           /\ \A p \in Int : Covers(p, o, SegmentLists(d), SegmentOffs(d)) =>
                \E i \in 1..Len(d.segments) :
                  p - SegmentPos(o, d, i) \in 0..Len(d.segments[i].constraints)
<1> DEFINE s == SegmentLists(d)
           at == SegmentOffs(d)
           l == Len(d.segments)
           head == [i \in 1..l |-> SegmentHead(d.ns, d.segments[i])]
           len == [i \in 1..l |-> Len(d.segments[i].constraints)]
           parts == [i \in 1..l |-> ConstraintCalls(d.ns, d.segments[i])]
<1>1. d.ns \in Namespace /\ d.segments \in Seq(AnySegment)
    BY DEF AnyDocument
<1>2. Len(s) = l
    BY DocumentListsType
<1>4. ASSUME NEW i \in 1..l PROVE Headed(s[i], head[i], len[i], parts[i])
  <2>1. s[i] = SegmentCalls(d.ns, d.segments[i]) /\ d.segments[i] \in AnySegment
      BY <1>1 DEF SegmentLists
  <2> DEFINE f == d.segments[i]
  <2> HIDE DEF f
  <2>2. Headed(SegmentCalls(d.ns, f), [op |-> "segment", ns |-> d.ns, key |-> f.key, match |-> f.match],
               Len(f.constraints), ConstraintCalls(d.ns, f))
      BY <1>1, <2>1, SegmentCallsAre DEF f
  <2> HIDE DEF s
  <2> QED
      BY <2>1, <2>2 DEF SegmentHead, f
<1>5. /\ \A i \in 1..l : /\ head[i] = SegmentHead(d.ns, d.segments[i])
                         /\ len[i] = Len(d.segments[i].constraints)
                         /\ parts[i] = ConstraintCalls(d.ns, d.segments[i])
      /\ \A i : SegmentPos(o, d, i) = (o + at[i]) + 1
    BY DEF SegmentPos
<1> HIDE DEF s, at, l, head, len, parts
<1>6. HeadsAt(C, o, n, s, at, head, len, parts)
    BY <1>2, <1>4, HeadsSpread DEF s, at
<1>7. ASSUME NEW i \in 1..l
      PROVE  /\ SegmentPos(o, d, i) \in Nat /\ o < SegmentPos(o, d, i) /\ SegmentPos(o, d, i) <= o + n
             /\ HeadAt(C, SegmentPos(o, d, i), head[i], parts[i], len[i])
  <2> DEFINE x == at[i]
  <2>1. x \in Nat /\ x + 1 <= n /\ HeadAt(C, (o + x) + 1, head[i], parts[i], len[i])
        /\ SegmentPos(o, d, i) = (o + x) + 1
      BY <1>2, <1>5, <1>6 DEF HeadsAt
  <2> HIDE DEF x
  <2>2. (o + x) + 1 \in Nat /\ (o + x) + 1 <= o + n /\ o < (o + x) + 1
      BY <2>1
  <2> QED
      BY <2>1, <2>2 DEF x
<1>8. ASSUME NEW i \in 1..l, NEW j \in 1..l, i < j PROVE SegmentPos(o, d, i) < SegmentPos(o, d, j)
  <2> DEFINE x == at[i]
             y == at[j]
  <2>1. x \in Nat /\ y \in Nat /\ x < y
      BY <1>2, <1>6, <1>8 DEF HeadsAt
  <2> HIDE DEF x, y
  <2>2. (o + x) + 1 < (o + y) + 1
      BY <2>1
  <2> QED
      BY <1>5, <2>2 DEF x, y
<1>9. \A p \in Int : Covers(p, o, s, at) => \E i \in 1..l : p - SegmentPos(o, d, i) \in 0..len[i]
    BY <1>2, <1>5, <1>6 DEF HeadsAt
<1>10. \A i \in 1..l : SegmentThere(C, o, n, d, i)
    BY <1>5, <1>7 DEF SegmentThere
<1> QED
    BY <1>5, <1>8, <1>9, <1>10 DEF s, at, l

LEMMA DocumentPlaces ==
    ASSUME NEW C, Len(C) \in Nat, NEW o \in Nat, NEW d \in AnyDocument, NEW n, DocLaid(C, o, d, n)
    PROVE  DocPlaces(C, o, n, d)
<1>1. /\ Block(C, o, NamespaceCalls(d)) /\ n \in Nat /\ o + n <= Len(C)
      /\ Spread(C, o, n, FlagLists(d), FlagOffs(d))
      /\ Spread(C, o, n, SegmentLists(d), SegmentOffs(d))
      /\ \A i \in 1..Len(d.flags) : StrategyLaid(C, o, n, d, i)
      /\ \A p \in Int : In(p, o, DocumentCalls(d)) => CallOf(p, o, d)
    BY DEF DocLaid
<1>0. d.ns \in Namespace /\ \A i \in 1..Len(d.flags) : d.flags[i] \in AnyFlag
    BY DEF AnyDocument
<1>2. ASSUME NEW i \in 1..Len(d.flags) PROVE FlagThere(C, o, n, d, i)
  <2> DEFINE f == d.flags[i]
             p == FlagPos(o, d, i)
             q == RolloutPos(o, d, i)
             x == FlagOffs(d)[i]
             y == RolloutOff(d, i)
             l == Len(f.rollouts)
  <2>1. /\ HeadAt(C, p, FlagHead(d.ns, f), VariantCalls(d.ns, f), Len(f.variants))
        /\ p \in Nat /\ o < p /\ p <= o + n /\ x \in Nat
      BY <1>1, FlagsThere
  <2>2. StrategyLaid(C, o, n, d, i)
      BY <1>1
  <2>3. /\ y \in Nat /\ y + l <= n /\ x < y /\ Block(C, o + y, RolloutCalls(d.ns, f))
        /\ \A r \in 1..Len(f.rules) : x < RuleOffs(d, i)[r]
      BY <2>2 DEF StrategyLaid
  <2>4. Len(RolloutCalls(d.ns, f)) = l /\ l \in Nat
    <3>1. RolloutCalls(d.ns, f) \in Seq(AnyCall) /\ Len(RolloutCalls(d.ns, f)) = l
        BY <1>0, StrategyCallsType
    <3> QED
        BY <3>1
  <2>5. p = (o + x) + 1 /\ q = o + y
      BY DEF FlagPos, RolloutPos
  <2>6. /\ \A r \in 1..Len(f.rules) :
             /\ HeadAt(C, RulePos(o, d, i, r), RuleHead(d.ns, f, r),
                       DistributionCalls(d.ns, f, f.rules[r]), Len(f.rules[r].distributions))
             /\ RulePos(o, d, i, r) \in Nat /\ RulePos(o, d, i, r) <= o + n
             /\ RuleOffs(d, i)[r] \in Nat
        /\ \A r, t \in 1..Len(f.rules) : r < t => RulePos(o, d, i, r) < RulePos(o, d, i, t)
      BY <1>0, <1>1, <2>2, RulesThere
  <2> HIDE DEF p, q, x, y, l, f
  <2>7. q \in Nat /\ p <= q /\ q + l <= o + n
      BY <1>1, <2>1, <2>3, <2>4, <2>5
  <2>8. PartsAt(C, q, RolloutCalls(d.ns, f), l)
      BY <1>1, <2>3, <2>4, <2>5 DEF PartsAt, Block
  <2>9. ASSUME NEW r \in 1..Len(f.rules) PROVE p < RulePos(o, d, i, r)
    <3> DEFINE z == RuleOffs(d, i)[r]
    <3>1. z \in Nat /\ x < z /\ RulePos(o, d, i, r) = (o + z) + 1
        BY <2>3, <2>6 DEF RulePos
    <3> HIDE DEF z
    <3> QED
        BY <2>1, <2>5, <3>1
  <2> QED
      BY <2>1, <2>6, <2>7, <2>8, <2>9 DEF FlagThere, f, p, q, l
<1>3. ASSUME NEW p \in Int, In(p, o, DocumentCalls(d)) PROVE PlaceOf(C, o, d, p)
  <2>1. CallOf(p, o, d)
      BY <1>1, <1>3
  <2>2. CASE In(p, o, NamespaceCalls(d))
    <3>1. /\ p - o \in 1..Len(NamespaceCalls(d))
          /\ C[o + (p - o)] = NamespaceCalls(d)[p - o]
        BY <1>1, <2>2 DEF In, Block
    <3>2. o + (p - o) = p
        OBVIOUS
    <3>3. d.ns # Protected /\ p - o = 1
        BY <3>1 DEF NamespaceCalls
    <3>4. NamespaceCalls(d)[p - o] = [op |-> "namespace", ns |-> d.ns]
        BY <3>3 DEF NamespaceCalls
    <3> QED
        BY <3>1, <3>2, <3>4 DEF PlaceOf
  <2>3. CASE Covers(p, o, FlagLists(d), FlagOffs(d))
    <3>1. \E i \in 1..Len(d.flags) : p - FlagPos(o, d, i) \in 0..Len(d.flags[i].variants)
        BY <1>1, <2>3, FlagsThere
    <3> QED
        BY <3>1 DEF PlaceOf
  <2>4. CASE Covers(p, o, SegmentLists(d), SegmentOffs(d))
    <3>1. \E i \in 1..Len(d.segments) :
            p - SegmentPos(o, d, i) \in 0..Len(d.segments[i].constraints)
        BY <1>1, <2>4, SegmentsThere
    <3> QED
        BY <3>1 DEF PlaceOf
  <2>5. ASSUME NEW i \in 1..Len(d.flags), Covers(p, o, RuleLists(d.ns, d.flags[i]), RuleOffs(d, i))
        PROVE  PlaceOf(C, o, d, p)
    <3> DEFINE f == d.flags[i]
    <3>1. f \in AnyFlag /\ StrategyLaid(C, o, n, d, i) /\ Covers(p, o, RuleLists(d.ns, f), RuleOffs(d, i))
        BY <1>0, <1>1, <2>5
    <3>2. f = d.flags[i]
        OBVIOUS
    <3> HIDE DEF f
    <3>3. \E r \in 1..Len(f.rules) : p - RulePos(o, d, i, r) \in 0..Len(f.rules[r].distributions)
        BY <1>1, <3>1, <3>2, RulesThere
    <3> QED
        BY <3>2, <3>3 DEF PlaceOf
  <2>6. ASSUME NEW i \in 1..Len(d.flags),
               In(p, o + RolloutOff(d, i), RolloutCalls(d.ns, d.flags[i]))
        PROVE  PlaceOf(C, o, d, p)
    <3>1. Len(RolloutCalls(d.ns, d.flags[i])) = Len(d.flags[i].rollouts)
        BY <1>0, StrategyCallsType
    <3>2. p - RolloutPos(o, d, i) \in 1..Len(d.flags[i].rollouts)
        BY <2>6, <3>1 DEF In, RolloutPos
    <3> QED
        BY <3>2 DEF PlaceOf
  <2> QED
      BY <2>1, <2>2, <2>3, <2>4, <2>5, <2>6 DEF CallOf
<1>4. /\ \A i, j \in 1..Len(d.flags) : i < j => FlagPos(o, d, i) < FlagPos(o, d, j)
      /\ \A i, j \in 1..Len(d.segments) : i < j => SegmentPos(o, d, i) < SegmentPos(o, d, j)
      /\ \A i \in 1..Len(d.segments) : SegmentThere(C, o, n, d, i)
    BY <1>1, FlagsThere, SegmentsThere
<1> QED
    BY <1>2, <1>3, <1>4 DEF DocPlaces

\* What the call at a place says of the place.
OpPlace(C, o, d, p) ==
    /\ C[p].op = "flag" => \E i \in 1..Len(d.flags) : p = FlagPos(o, d, i)
    /\ C[p].op = "variant" =>
         \E i \in 1..Len(d.flags) : p - FlagPos(o, d, i) \in 1..Len(d.flags[i].variants)
    /\ C[p].op = "segment" => \E i \in 1..Len(d.segments) : p = SegmentPos(o, d, i)
    /\ C[p].op = "constraint" =>
         \E i \in 1..Len(d.segments) : p - SegmentPos(o, d, i) \in 1..Len(d.segments[i].constraints)
    /\ C[p].op = "rule" =>
         \E i \in 1..Len(d.flags) : \E r \in 1..Len(d.flags[i].rules) : p = RulePos(o, d, i, r)
    /\ C[p].op = "distribution" =>
         \E i \in 1..Len(d.flags) : \E r \in 1..Len(d.flags[i].rules) :
           p - RulePos(o, d, i, r) \in 1..Len(d.flags[i].rules[r].distributions)
    /\ C[p].op = "rollout" =>
         \E i \in 1..Len(d.flags) : p - RolloutPos(o, d, i) \in 1..Len(d.flags[i].rollouts)

IsOp(head, a) == head.op = a
AreOps(parts, l, b) == \A m \in 1..l : parts[m].op = b

\* A place among a call and its parts, whose operations are a and b.
LEMMA HeadOrPart ==
    ASSUME NEW C, NEW h \in Nat, NEW p \in Int, NEW head, NEW parts, NEW l \in Nat, NEW a, NEW b,
           HeadAt(C, h, head, parts, l), p - h \in 0..l, IsOp(head, a),
           AreOps(parts, l, b)
    PROVE  (p = h /\ C[p].op = a) \/ (p - h \in 1..l /\ C[p].op = b)
<1>1. CASE p = h
    BY <1>1 DEF HeadAt, IsOp
<1>2. CASE p # h
  <2>1. p - h \in 1..l /\ h + (p - h) = p
      BY <1>2
  <2>2. C[h + (p - h)] = parts[p - h]
      BY <2>1 DEF HeadAt, PartsAt
  <2> QED
      BY <2>1, <2>2 DEF AreOps
<1> QED
    BY <1>1, <1>2

LEMMA PartsOps ==
    ASSUME NEW n
    PROVE  /\ \A f \in AnyFlag : /\ \A m \in 1..Len(f.variants) : VariantCalls(n, f)[m].op = "variant"
                                 /\ \A m \in 1..Len(f.rollouts) : RolloutCalls(n, f)[m].op = "rollout"
                                 /\ Len(f.variants) \in Nat /\ Len(f.rollouts) \in Nat
           /\ \A s \in AnySegment :
                /\ \A m \in 1..Len(s.constraints) : ConstraintCalls(n, s)[m].op = "constraint"
                /\ Len(s.constraints) \in Nat
<1>1. ASSUME NEW f \in AnyFlag
      PROVE  /\ \A m \in 1..Len(f.variants) : VariantCalls(n, f)[m].op = "variant"
             /\ \A m \in 1..Len(f.rollouts) : RolloutCalls(n, f)[m].op = "rollout"
             /\ Len(f.variants) \in Nat /\ Len(f.rollouts) \in Nat
  <2>1. f.variants \in Seq(VariantKey) /\ f.rollouts \in Seq(AnyRollout)
      BY DEF AnyFlag
  <2> QED
      BY <2>1 DEF VariantCalls, RolloutCalls
<1>2. ASSUME NEW s \in AnySegment
      PROVE  /\ \A m \in 1..Len(s.constraints) : ConstraintCalls(n, s)[m].op = "constraint"
             /\ Len(s.constraints) \in Nat
  <2>1. s.constraints \in Seq(Comparison)
      BY DEF AnySegment
  <2> QED
      BY <2>1 DEF ConstraintCalls
<1> QED
    BY <1>1, <1>2

LEMMA DistributionOps ==
    ASSUME NEW n, NEW f, NEW r \in AnyRule
    PROVE  /\ \A m \in 1..Len(r.distributions) : DistributionCalls(n, f, r)[m].op = "distribution"
           /\ Len(r.distributions) \in Nat
<1>1. r.distributions \in Seq(SUBSET VariantKey)
    BY DEF AnyRule
<1> QED
    BY <1>1 DEF DistributionCalls

LEMMA OpOfPlace ==
    ASSUME NEW C, NEW o \in Nat, NEW n \in Nat, NEW d \in AnyDocument, DocPlaces(C, o, n, d),
           NEW p \in Int, PlaceOf(C, o, d, p)
    PROVE  OpPlace(C, o, d, p)
<1>0. /\ d.ns \in Namespace /\ \A i \in 1..Len(d.flags) : d.flags[i] \in AnyFlag
      /\ \A i \in 1..Len(d.segments) : d.segments[i] \in AnySegment
    BY DEF AnyDocument
<1>1. CASE C[p].op = "namespace"
    BY <1>1 DEF OpPlace
<1>2. ASSUME NEW i \in 1..Len(d.flags), p - FlagPos(o, d, i) \in 0..Len(d.flags[i].variants)
      PROVE  OpPlace(C, o, d, p)
  <2> DEFINE f == d.flags[i]
             h == FlagPos(o, d, i)
             l == Len(f.variants)
  <2>1. HeadAt(C, h, FlagHead(d.ns, f), VariantCalls(d.ns, f), l) /\ h \in Nat /\ f \in AnyFlag
      BY <1>0 DEF DocPlaces, FlagThere
  <2>2. FlagHead(d.ns, f).op = "flag" /\ p - h \in 0..l
      BY <1>2 DEF FlagHead
  <2> HIDE DEF f, h, l
  <2>3. l \in Nat /\ \A m \in 1..l : VariantCalls(d.ns, f)[m].op = "variant"
      BY <2>1, PartsOps DEF l
  <2> DEFINE head == FlagHead(d.ns, f)
             parts == VariantCalls(d.ns, f)
  <2>a. /\ HeadAt(C, h, head, parts, l) /\ IsOp(head, "flag")
        /\ AreOps(parts, l, "variant")
      BY <2>1, <2>2, <2>3 DEF IsOp, AreOps
  <2> HIDE DEF head, parts
  <2>4. (p = h /\ C[p].op = "flag") \/ (p - h \in 1..l /\ C[p].op = "variant")
      BY <2>1, <2>2, <2>3, <2>a, HeadOrPart
  <2> QED
      BY <2>4 DEF OpPlace, h, l, f
<1>3. ASSUME NEW i \in 1..Len(d.segments),
             p - SegmentPos(o, d, i) \in 0..Len(d.segments[i].constraints)
      PROVE  OpPlace(C, o, d, p)
  <2> DEFINE f == d.segments[i]
             h == SegmentPos(o, d, i)
             l == Len(f.constraints)
  <2>1. HeadAt(C, h, SegmentHead(d.ns, f), ConstraintCalls(d.ns, f), l) /\ h \in Nat /\ f \in AnySegment
      BY <1>0 DEF DocPlaces, SegmentThere
  <2>2. SegmentHead(d.ns, f).op = "segment" /\ p - h \in 0..l
      BY <1>3 DEF SegmentHead
  <2> HIDE DEF f, h, l
  <2>3. l \in Nat /\ \A m \in 1..l : ConstraintCalls(d.ns, f)[m].op = "constraint"
      BY <2>1, PartsOps DEF l
  <2> DEFINE head == SegmentHead(d.ns, f)
             parts == ConstraintCalls(d.ns, f)
  <2>a. /\ HeadAt(C, h, head, parts, l) /\ IsOp(head, "segment")
        /\ AreOps(parts, l, "constraint")
      BY <2>1, <2>2, <2>3 DEF IsOp, AreOps
  <2> HIDE DEF head, parts
  <2>4. (p = h /\ C[p].op = "segment") \/ (p - h \in 1..l /\ C[p].op = "constraint")
      BY <2>1, <2>2, <2>3, <2>a, HeadOrPart
  <2> QED
      BY <2>4 DEF OpPlace, h, l, f
<1>4. ASSUME NEW i \in 1..Len(d.flags), NEW r \in 1..Len(d.flags[i].rules),
             p - RulePos(o, d, i, r) \in 0..Len(d.flags[i].rules[r].distributions)
      PROVE  OpPlace(C, o, d, p)
  <2> DEFINE f == d.flags[i]
             g == f.rules[r]
             h == RulePos(o, d, i, r)
             l == Len(g.distributions)
  <2>1. HeadAt(C, h, RuleHead(d.ns, f, r), DistributionCalls(d.ns, f, g), l) /\ h \in Nat
      BY <1>0 DEF DocPlaces, FlagThere
  <2>2. RuleHead(d.ns, f, r).op = "rule" /\ p - h \in 0..l
      BY <1>4 DEF RuleHead
  <2>5. g \in AnyRule
    <3>1. f.rules \in Seq(AnyRule)
        BY <1>0 DEF AnyFlag
    <3> QED
        BY <3>1
  <2> HIDE DEF f, g, h, l
  <2>3. l \in Nat /\ \A m \in 1..l : DistributionCalls(d.ns, f, g)[m].op = "distribution"
      BY <2>5, DistributionOps DEF l
  <2> DEFINE head == RuleHead(d.ns, f, r)
             parts == DistributionCalls(d.ns, f, g)
  <2>a. /\ HeadAt(C, h, head, parts, l) /\ IsOp(head, "rule")
        /\ AreOps(parts, l, "distribution")
      BY <2>1, <2>2, <2>3 DEF IsOp, AreOps
  <2> HIDE DEF head, parts
  <2>4. (p = h /\ C[p].op = "rule") \/ (p - h \in 1..l /\ C[p].op = "distribution")
      BY <2>1, <2>2, <2>3, <2>a, HeadOrPart
  <2> QED
      BY <2>4 DEF OpPlace, h, l, f, g
<1>5. ASSUME NEW i \in 1..Len(d.flags), p - RolloutPos(o, d, i) \in 1..Len(d.flags[i].rollouts)
      PROVE  OpPlace(C, o, d, p)
  <2> DEFINE f == d.flags[i]
             h == RolloutPos(o, d, i)
             l == Len(f.rollouts)
  <2>1. PartsAt(C, h, RolloutCalls(d.ns, f), l) /\ h \in Nat /\ f \in AnyFlag /\ p - h \in 1..l
      BY <1>0, <1>5 DEF DocPlaces, FlagThere
  <2> HIDE DEF f, h, l
  <2>2. l \in Nat /\ \A m \in 1..l : RolloutCalls(d.ns, f)[m].op = "rollout"
      BY <2>1, PartsOps DEF l
  <2>3. h + (p - h) = p /\ C[h + (p - h)] = RolloutCalls(d.ns, f)[p - h]
      BY <2>1 DEF PartsAt
  <2>4. p - h \in 1..l /\ C[p].op = "rollout"
      BY <2>1, <2>2, <2>3
  <2> QED
      BY <2>4 DEF OpPlace, h, l, f
<1> QED
    BY <1>1, <1>2, <1>3, <1>4, <1>5 DEF PlaceOf

-----------------------------------------------------------------------------
(* The calls of all documents.                                             *)

AllCalls(ds) == ConcatMap(ds, DocumentCalls)
DocStart(ds, k) == Shifted(0, DocumentLists(ds))[k]
DocLen(ds, k) == Len(DocumentCalls(ds[k]))

Layout(C, ds) ==
    /\ C \in Seq(AnyCall)
    /\ \A k \in 1..Len(ds) : /\ DocStart(ds, k) \in Nat /\ DocLen(ds, k) \in Nat
                             /\ DocPlaces(C, DocStart(ds, k), DocLen(ds, k), ds[k])
                             /\ DocStart(ds, k) + DocLen(ds, k) <= Len(C)
    /\ \A k, l \in 1..Len(ds) : k < l => DocStart(ds, k) + DocLen(ds, k) <= DocStart(ds, l)
    /\ \A p \in 1..Len(C) : \E k \in 1..Len(ds) : OpPlace(C, DocStart(ds, k), ds[k], p)

LEMMA LayoutHolds ==
    ASSUME NEW ds \in Seq(AnyDocument)
    PROVE  Layout(AllCalls(ds), ds)
<1> DEFINE C == AllCalls(ds)
           s == DocumentLists(ds)
           at == Shifted(0, s)
           n == Len(ds)
<1>1. \A k \in 1..n : ds[k] \in AnyDocument
    OBVIOUS
<1>2. \A k \in DOMAIN ds : DocumentCalls(ds[k]) \in Seq(AnyCall)
    BY <1>1, DocumentListsType
<1>3. s \in Seq(Seq(AnyCall)) /\ Len(s) = n /\ \A k \in 1..n : s[k] = DocumentCalls(ds[k])
  <2>1. s = [k \in DOMAIN ds |-> s[k]] /\ \A k \in DOMAIN ds : s[k] = DocumentCalls(ds[k])
      BY DEF DocumentLists
  <2> HIDE DEF s
  <2>2. \A k \in DOMAIN ds : s[k] \in Seq(AnyCall)
      BY <1>2, <2>1
  <2>3. s \in Seq(Seq(AnyCall)) /\ Len(s) = Len(ds)
      BY <2>1, <2>2, ListsLike
  <2> QED
      BY <2>1, <2>3
<1>4. C = FlattenSeq(s) /\ C \in Seq(AnyCall)
    BY <1>3, Concatenated, FlattenLaid DEF AllCalls
<1>5. Len(C) \in Nat /\ 0 + Len(C) <= Len(C) /\ 0 + 0 = 0
    BY <1>4
<1> HIDE DEF C, s, at, n
<1>6. Block(C, 0 + 0, FlattenSeq(s))
    BY <1>4, <1>5 DEF Block
<1>7. /\ Spread(C, 0, Len(C), s, at)
      /\ \A p \in Int : In(p, 0 + 0, FlattenSeq(s)) => Covers(p, 0, s, at)
    BY <1>3, <1>4, <1>5, <1>6, BlockSpread DEF at
<1>8. ASSUME NEW k \in 1..n
      PROVE  /\ at[k] \in Nat /\ DocLen(ds, k) \in Nat /\ at[k] + DocLen(ds, k) <= Len(C)
             /\ DocPlaces(C, at[k], DocLen(ds, k), ds[k])
  <2> DEFINE x == at[k]
             d == ds[k]
  <2>1. x \in Nat /\ Block(C, 0 + x, DocumentCalls(d)) /\ x + Len(DocumentCalls(d)) <= Len(C)
      BY <1>3, <1>7 DEF Spread
  <2>2. d \in AnyDocument
      BY <1>1
  <2> HIDE DEF x, d
  <2>3. 0 + x = x
      BY <2>1
  <2>4. DocLaid(C, x, d, Len(DocumentCalls(d)))
      BY <1>5, <2>1, <2>2, <2>3, DocumentLaid
  <2>5. DocPlaces(C, x, Len(DocumentCalls(d)), d) /\ Len(DocumentCalls(d)) \in Nat
      BY <1>5, <2>1, <2>2, <2>4, DocumentPlaces DEF DocLaid
  <2> QED
      BY <2>1, <2>5 DEF x, d, DocLen
<1>9. ASSUME NEW k \in 1..n, NEW l \in 1..n, k < l PROVE at[k] + DocLen(ds, k) <= at[l]
    BY <1>3, <1>7, <1>9 DEF Spread, DocLen
<1>10. ASSUME NEW p \in 1..Len(C) PROVE \E k \in 1..n : OpPlace(C, at[k], ds[k], p)
  <2>1. In(p, 0 + 0, FlattenSeq(s)) /\ p \in Int
      BY <1>4, <1>5 DEF In
  <2>2. PICK k \in 1..n : In(p, 0 + at[k], DocumentCalls(ds[k]))
      BY <1>3, <1>7, <2>1 DEF Covers
  <2> DEFINE x == at[k]
             d == ds[k]
  <2>3. /\ x \in Nat /\ DocPlaces(C, x, DocLen(ds, k), d) /\ d \in AnyDocument
        /\ DocLen(ds, k) \in Nat /\ In(p, 0 + x, DocumentCalls(d))
      BY <1>1, <1>8, <2>2
  <2> HIDE DEF x, d
  <2>4. 0 + x = x
      BY <2>3
  <2>5. PlaceOf(C, x, d, p)
      BY <2>1, <2>3, <2>4 DEF DocPlaces
  <2>6. OpPlace(C, x, d, p)
      BY <2>1, <2>3, <2>5, OpOfPlace
  <2> QED
      BY <2>6 DEF x, d
<1>11. \A k : DocStart(ds, k) = at[k]
    BY DEF DocStart, at, s
<1> QED
    BY <1>4, <1>8, <1>9, <1>10, <1>11 DEF Layout, C, n

\* A part comes after the flag or the segment it is of, a distribution after its rule.
Rooted(C) ==
    \A p \in 1..Len(C) :
      /\ C[p].op \in {"variant", "constraint", "rule", "distribution", "rollout"} =>
           \E q \in 1..(p - 1) : C[q].op \in {"flag", "segment"}
      /\ C[p].op = "distribution" => \E q \in 1..(p - 1) : C[q].op = "rule"

LEMMA RootedOp ==
    ASSUME NEW C, Len(C) \in Nat, NEW o \in Nat, NEW n \in Nat, NEW d \in AnyDocument,
           DocPlaces(C, o, n, d), NEW p \in 1..Len(C), OpPlace(C, o, d, p)
    PROVE  /\ C[p].op \in {"variant", "constraint", "rule", "distribution", "rollout"} =>
                \E q \in 1..(p - 1) : C[q].op \in {"flag", "segment"}
           /\ C[p].op = "distribution" => \E q \in 1..(p - 1) : C[q].op = "rule"
<1> DEFINE Flagged == \E q \in 1..(p - 1) : C[q].op \in {"flag", "segment"}
<1>1. ASSUME NEW i \in 1..Len(d.flags), NEW m \in Nat, FlagPos(o, d, i) <= m, m < p PROVE Flagged
  <2> DEFINE h == FlagPos(o, d, i)
  <2>1. h \in Nat /\ o < h /\ C[h] = FlagHead(d.ns, d.flags[i])
      BY DEF DocPlaces, FlagThere, HeadAt
  <2>2. C[h].op = "flag" /\ h <= m
      BY <1>1, <2>1 DEF FlagHead
  <2> HIDE DEF h
  <2>3. h \in 1..(p - 1)
      BY <1>1, <2>1, <2>2
  <2> QED
      BY <2>2, <2>3
<1>2. CASE C[p].op = "variant"
  <2>1. PICK i \in 1..Len(d.flags) : p - FlagPos(o, d, i) \in 1..Len(d.flags[i].variants)
      BY <1>2 DEF OpPlace
  <2>2. FlagPos(o, d, i) \in Nat
      BY DEF DocPlaces, FlagThere
  <2>3. FlagPos(o, d, i) < p
      BY <2>1, <2>2
  <2>4. Flagged
      BY <1>1, <2>2, <2>3
  <2> QED
      BY <1>2, <2>4
<1>3. CASE C[p].op = "constraint"
  <2>1. PICK i \in 1..Len(d.segments) : p - SegmentPos(o, d, i) \in 1..Len(d.segments[i].constraints)
      BY <1>3 DEF OpPlace
  <2> DEFINE h == SegmentPos(o, d, i)
  <2>2. h \in Nat /\ o < h /\ C[h] = SegmentHead(d.ns, d.segments[i])
      BY DEF DocPlaces, SegmentThere, HeadAt
  <2>3. C[h].op = "segment"
      BY <2>2 DEF SegmentHead
  <2> HIDE DEF h
  <2>4. h \in 1..(p - 1)
      BY <2>1, <2>2 DEF h
  <2> QED
      BY <1>3, <2>3, <2>4
<1>4. CASE C[p].op = "rule"
  <2>0. PICK i \in 1..Len(d.flags) :
          \E r \in 1..Len(d.flags[i].rules) : p = RulePos(o, d, i, r)
      BY <1>4 DEF OpPlace
  <2>1. PICK r \in 1..Len(d.flags[i].rules) : p = RulePos(o, d, i, r)
      BY <2>0
  <2>2. FlagPos(o, d, i) \in Nat /\ FlagPos(o, d, i) < p
      BY <2>1 DEF DocPlaces, FlagThere
  <2>3. Flagged
      BY <1>1, <2>2
  <2> QED
      BY <1>4, <2>3
<1>5. CASE C[p].op = "distribution"
  <2>0. PICK i \in 1..Len(d.flags) : \E r \in 1..Len(d.flags[i].rules) :
          p - RulePos(o, d, i, r) \in 1..Len(d.flags[i].rules[r].distributions)
      BY <1>5 DEF OpPlace
  <2>1. PICK r \in 1..Len(d.flags[i].rules) :
          p - RulePos(o, d, i, r) \in 1..Len(d.flags[i].rules[r].distributions)
      BY <2>0
  <2> DEFINE h == RulePos(o, d, i, r)
             x == FlagPos(o, d, i)
  <2>2. /\ h \in Nat /\ x \in Nat /\ o < x /\ x < h
        /\ C[h] = RuleHead(d.ns, d.flags[i], r)
      BY DEF DocPlaces, FlagThere, HeadAt
  <2>3. C[h].op = "rule"
      BY <2>2 DEF RuleHead
  <2>4. p - h \in 1..Len(d.flags[i].rules[r].distributions)
      BY <2>1
  <2> HIDE DEF h
  <2>5. h \in 1..(p - 1)
      BY <2>2, <2>4
  <2>6. Flagged
    <3> HIDE DEF x
    <3>1. x <= h /\ h < p
        BY <2>2, <2>5
    <3> QED
        BY <1>1, <2>2, <3>1 DEF x
  <2> QED
      BY <1>5, <2>3, <2>5, <2>6
<1>6. CASE C[p].op = "rollout"
  <2>1. PICK i \in 1..Len(d.flags) : p - RolloutPos(o, d, i) \in 1..Len(d.flags[i].rollouts)
      BY <1>6 DEF OpPlace
  <2> DEFINE h == RolloutPos(o, d, i)
  <2>2. h \in Nat /\ FlagPos(o, d, i) <= h /\ p - h \in 1..Len(d.flags[i].rollouts)
      BY <2>1 DEF DocPlaces, FlagThere
  <2> HIDE DEF h
  <2>3. h < p
      BY <2>2
  <2>4. Flagged
      BY <1>1, <2>2, <2>3
  <2> QED
      BY <1>6, <2>4
<1> QED
    BY <1>2, <1>3, <1>4, <1>5, <1>6

LEMMA LayoutRooted ==
    ASSUME NEW C, NEW ds \in Seq(AnyDocument), Layout(C, ds)
    PROVE  Rooted(C)
<1>1. Len(C) \in Nat
    BY DEF Layout
<1> SUFFICES ASSUME NEW p \in 1..Len(C)
             PROVE  /\ C[p].op \in {"variant", "constraint", "rule", "distribution", "rollout"} =>
                         \E q \in 1..(p - 1) : C[q].op \in {"flag", "segment"}
                    /\ C[p].op = "distribution" => \E q \in 1..(p - 1) : C[q].op = "rule"
    BY DEF Rooted
<1>2. PICK k \in 1..Len(ds) : OpPlace(C, DocStart(ds, k), ds[k], p)
    BY DEF Layout
<1>3. /\ DocStart(ds, k) \in Nat /\ DocLen(ds, k) \in Nat /\ ds[k] \in AnyDocument
      /\ DocPlaces(C, DocStart(ds, k), DocLen(ds, k), ds[k])
    BY DEF Layout
<1> QED
    BY <1>1, <1>2, <1>3, RootedOp

-----------------------------------------------------------------------------
(* What an import has made after so many of its calls.                     *)

PlacesOf(C, j, o) == {p \in 1..j : C[p].op = o}
RowsOf(C, j, o, row) == {row[p] : p \in PlacesOf(C, j, o)}

FlagRows(C) ==
    [p \in 1..Len(C) |-> [ns |-> C[p].ns, key |-> C[p].flag, enabled |-> C[p].enabled]]
VariantRows(C, b) ==
    [p \in 1..Len(C) |-> [id |-> b + p, ns |-> C[p].ns, flag |-> C[p].flag, key |-> C[p].key]]
SegmentRows(C) ==
    [p \in 1..Len(C) |-> [ns |-> C[p].ns, key |-> C[p].key, match |-> C[p].match]]
ConstraintRows(C, b) ==
    [p \in 1..Len(C) |-> ConstraintRow(b + p, C[p].ns, C[p].key, C[p].value)]
RuleRows(C, b) ==
    [p \in 1..Len(C) |-> [id |-> b + p, ns |-> C[p].ns, flag |-> C[p].flag, rank |-> C[p].rank,
                          operator |-> SegmentOperator(C[p].rule.segments, C[p].rule.operator)]]
RuleSegmentRows(C, b) ==
    [p \in 1..Len(C) |-> RuleSegments(b + p, C[p].ns, C[p].rule.segments)]
RolloutRows(C, b) ==
    [p \in 1..Len(C) |-> [id |-> b + p, ns |-> C[p].ns, flag |-> C[p].flag,
                          operator |-> RolloutOperator(C[p].rollout.segments,
                                                       C[p].rollout.operator)]]
RolloutSegmentRows(C, b) ==
    [p \in 1..Len(C) |-> RolloutSegments(b + p, C[p].ns, C[p].rollout.segments)]

\* The rule of a distribution, and its variant.
RuleBefore(C, p) ==
    CHOOSE q \in PlacesOf(C, p, "rule") : \A r \in PlacesOf(C, p, "rule") : r <= q
VariantsFor(C, p) ==
    {q \in PlacesOf(C, p, "variant") :
       C[q].ns = C[p].ns /\ C[q].flag = C[p].flag /\ C[q].key \in C[p].keys}
DistributionRows(C, b) ==
    [p \in 1..Len(C) |-> [id |-> b + p, rule |-> b + RuleBefore(C, p),
                          variant |-> b + (CHOOSE q \in VariantsFor(C, p) : TRUE)]]

TablesAfter(N, C, b, j) ==
    [namespaces |-> N,
     flags |-> RowsOf(C, j, "flag", FlagRows(C)),
     variants |-> RowsOf(C, j, "variant", VariantRows(C, b)),
     segments |-> RowsOf(C, j, "segment", SegmentRows(C)),
     constraints |-> RowsOf(C, j, "constraint", ConstraintRows(C, b)),
     rules |-> RowsOf(C, j, "rule", RuleRows(C, b)),
     ruleSegments |-> UNION RowsOf(C, j, "rule", RuleSegmentRows(C, b)),
     distributions |-> RowsOf(C, j, "distribution", DistributionRows(C, b)),
     rollouts |-> RowsOf(C, j, "rollout", RolloutRows(C, b)),
     rolloutSegments |-> UNION RowsOf(C, j, "rollout", RolloutSegmentRows(C, b))]

\* What made the first j calls acceptable.
SegmentBefore(C, p, s) == \E q \in PlacesOf(C, p, "segment") : C[q].ns = C[p].ns /\ C[q].key = s
Accepted(C, j) ==
    /\ \A p, q \in PlacesOf(C, j, "flag") : C[p].ns = C[q].ns /\ C[p].flag = C[q].flag => p = q
    /\ \A p, q \in PlacesOf(C, j, "segment") : C[p].ns = C[q].ns /\ C[p].key = C[q].key => p = q
    /\ \A p, q \in PlacesOf(C, j, "variant") :
         C[p].ns = C[q].ns /\ C[p].flag = C[q].flag /\ C[p].key = C[q].key => p = q
    /\ \A p \in PlacesOf(C, j, "rule") : \A s \in C[p].rule.segments : SegmentBefore(C, p, s)
    /\ \A p \in PlacesOf(C, j, "rollout") :
         /\ C[p].rollout.operator # "none"
         /\ \A s \in C[p].rollout.segments : SegmentBefore(C, p, s)
    /\ \A p \in PlacesOf(C, j, "distribution") : VariantsFor(C, p) # {}

\* The tables t, after n successful calls and with the variants m created by this
\* attempt, hold what its first j calls say, with identifiers from b on.
HasMade(t, n, m, C, b, j) ==
    n = b + j /\ m = t.variants /\ t = TablesAfter(t.namespaces, C, b, j) /\ Accepted(C, j)
Clean(C, b, j) == HasMade(target, created, made, C, b, j)

\* The key of a call still to make is taken.
Taken(t, c) ==
    \/ c.op = "flag" /\ HasFlag(t, c.ns, c.flag)
    \/ c.op = "segment" /\ HasSegment(t, c.ns, c.key)
Doomed(t, C, j) == \E p \in (j + 1)..Len(C) : Taken(t, C[p])

IsTables(d) ==
    d = [namespaces |-> d.namespaces, flags |-> d.flags, variants |-> d.variants,
         segments |-> d.segments, constraints |-> d.constraints, rules |-> d.rules,
         ruleSegments |-> d.ruleSegments, distributions |-> d.distributions,
         rollouts |-> d.rollouts, rolloutSegments |-> d.rolloutSegments]

\* The calls l are those of C after the first j.
Remaining(l, C, j) ==
    l \in Seq(AnyCall) /\ Len(l) = Len(C) - j /\ \A m \in 1..Len(l) : l[m] = C[j + m]

Progress(t, n, m, l, C) ==
    \E j \in 0..Len(C) :
      Remaining(l, C, j) /\ (Doomed(t, C, j) \/ \E b \in Nat : HasMade(t, n, m, C, b, j))

ImportInv ==
    /\ IsTables(target) /\ created \in Nat
    /\ phase \in {"idle", "exported"} \/ Exporting => target = Empty
    /\ phase \in {"importing", "interrupted", "imported"} =>
         Progress(target, created, made, calls, AllCalls(docs))
    /\ phase = "imported" => calls = <<>>

-----------------------------------------------------------------------------
LEMMA PlacesGrow ==
    ASSUME NEW C, NEW j \in Nat, NEW o
    PROVE  PlacesOf(C, j + 1, o) = IF C[j + 1].op = o THEN PlacesOf(C, j, o) \cup {j + 1}
                                   ELSE PlacesOf(C, j, o)
<1>1. 1..(j + 1) = (1..j) \cup {j + 1}
    OBVIOUS
<1> QED
    BY <1>1 DEF PlacesOf

LEMMA RowsGrow ==
    ASSUME NEW C, NEW j \in Nat, NEW o, NEW row
    PROVE  RowsOf(C, j + 1, o, row) = IF C[j + 1].op = o THEN RowsOf(C, j, o, row) \cup {row[j + 1]}
                                      ELSE RowsOf(C, j, o, row)
BY PlacesGrow DEF RowsOf

LEMMA NoRows ==
    ASSUME NEW C, NEW o, NEW row
    PROVE  PlacesOf(C, 0, o) = {} /\ RowsOf(C, 0, o, row) = {} /\ UNION RowsOf(C, 0, o, row) = {}
BY DEF PlacesOf, RowsOf

\* The database accepts only rules and rollouts whose segments it has.
LEMMA SegmentsNeeded ==
    ASSUME NEW d, IsTables(d), Cascade(d) = d
    PROVE  /\ \A x \in d.ruleSegments : HasSegment(d, x.ns, x.segment)
           /\ \A x \in d.rolloutSegments : HasSegment(d, x.ns, x.segment)
<1> DEFINE ns == [d EXCEPT !.flags = {x \in @ : x.ns \in d.namespaces},
                           !.segments = {x \in @ : x.ns \in d.namespaces}]
           fs == [ns EXCEPT !.variants = {x \in @ : HasFlag(ns, x.ns, x.flag)},
                            !.rules = {x \in @ : HasFlag(ns, x.ns, x.flag)},
                            !.rollouts = {x \in @ : HasFlag(ns, x.ns, x.flag)},
                            !.constraints = {x \in @ : HasSegment(ns, x.ns, x.segment)}]
<1>1. /\ DOMAIN d = {"namespaces", "flags", "variants", "segments", "constraints", "rules",
                     "ruleSegments", "distributions", "rollouts", "rolloutSegments"}
    BY DEF IsTables
<1>2. /\ ns.segments = {x \in d.segments : x.ns \in d.namespaces}
      /\ ns.ruleSegments = d.ruleSegments /\ ns.rolloutSegments = d.rolloutSegments
      /\ DOMAIN ns = DOMAIN d
    BY <1>1
<1> HIDE DEF ns
<1>3. /\ fs.segments = ns.segments /\ fs.ruleSegments = d.ruleSegments
      /\ fs.rolloutSegments = d.rolloutSegments /\ DOMAIN fs = DOMAIN d
    BY <1>1, <1>2
<1> HIDE DEF fs
<1>4. Cascade(d) =
        [fs EXCEPT !.ruleSegments = {x \in @ : /\ HasId(fs.rules, x.rule)
                                               /\ HasSegment(fs, x.ns, x.segment)},
                   !.distributions = {x \in @ : /\ HasId(fs.rules, x.rule)
                                                /\ HasId(fs.variants, x.variant)},
                   !.rolloutSegments = {x \in @ : /\ HasId(fs.rollouts, x.rollout)
                                                  /\ HasSegment(fs, x.ns, x.segment)}]
    BY Zenon DEF Cascade, fs, ns
<1>5. /\ \A x \in Cascade(d).ruleSegments : HasSegment(fs, x.ns, x.segment)
      /\ \A x \in Cascade(d).rolloutSegments : HasSegment(fs, x.ns, x.segment)
    BY <1>1, <1>3, <1>4
<1>6. fs.segments \subseteq d.segments
    BY <1>2, <1>3
<1> QED
    BY <1>5, <1>6 DEF HasSegment

LEMMA CallTypes ==
    ASSUME NEW c \in AnyCall
    PROVE  /\ c.op \in {"namespace", "flag", "variant", "segment", "constraint", "rule",
                        "distribution", "rollout"}
           /\ c.op = "rule" => c.rule \in AnyRule
           /\ c.op = "rollout" => c.rollout \in AnyRollout
           /\ c.op = "distribution" => c.keys \in SUBSET VariantKey /\ \A x, y \in c.keys : x = y
BY DEF AnyCall, NamespaceCall, FlagCall, VariantCall, SegmentCall, ConstraintCall, RuleCall,
       DistributionCall, RolloutCall

\* What a distribution's call refers to.
LEMMA RuleBeforeIs ==
    ASSUME NEW C, NEW p \in Nat, NEW q \in PlacesOf(C, p, "rule"),
           \A r \in PlacesOf(C, p, "rule") : r <= q
    PROVE  RuleBefore(C, p) = q
<1>1. \A r \in PlacesOf(C, p, "rule") : r \in Nat
    BY DEF PlacesOf
<1>2. \A r \in PlacesOf(C, p, "rule") :
        (\A t \in PlacesOf(C, p, "rule") : t <= r) => r = q
    BY <1>1
<1> QED
    BY <1>2 DEF RuleBefore

LEMMA LastRuleIs ==
    ASSUME NEW C, NEW b \in Nat, NEW j \in Nat, j <= Len(C), Len(C) \in Nat,
           target.rules = RowsOf(C, j, "rule", RuleRows(C, b)), PlacesOf(C, j, "rule") # {}
    PROVE  \E q \in PlacesOf(C, j, "rule") :
             LastRule.id = b + q /\ \A r \in PlacesOf(C, j, "rule") : r <= q
<1> DEFINE S == PlacesOf(C, j, "rule")
           row == RuleRows(C, b)
<1>1. S \subseteq 1..j /\ \A p \in S : row[p].id = b + p /\ p \in Nat
  <2>1. S \subseteq 1..j /\ \A p \in S : p \in 1..Len(C)
      BY DEF PlacesOf
  <2> HIDE DEF S
  <2> QED
      BY <2>1 DEF RuleRows
<1>2. target.rules = {row[p] : p \in S}
    BY DEF RowsOf
<1> HIDE DEF S, row
<1> DEFINE D == {m \in 0..j : \E p \in S : m = j - p}
<1>3. D \subseteq Nat /\ D # {}
  <2>1. PICK p \in S : TRUE
      BY DEF S
  <2>2. p \in 1..j
      BY <1>1
  <2>3. j - p \in 0..j
      BY <2>2
  <2>4. j - p \in D
      BY <2>3
  <2> QED
      BY <2>4
<1> HIDE DEF D
<1>4. PICK m \in D : \A n \in D : m <= n
    BY <1>3, LeastExists
<1>5. PICK q \in S : m = j - q
    BY <1>4 DEF D
<1>6. \A r \in S : r <= q
  <2> SUFFICES ASSUME NEW r \in S PROVE r <= q
      OBVIOUS
  <2>1. j - r \in D
      BY <1>1 DEF D
  <2>2. j - q <= j - r
      BY <1>4, <1>5, <2>1
  <2> QED
      BY <1>1, <2>2
<1>7. \A y \in target.rules : y.id <= row[q].id
    BY <1>1, <1>2, <1>6
<1>8. row[q] \in target.rules
    BY <1>2
<1>9. LastRule \in target.rules /\ \A y \in target.rules : y.id <= LastRule.id
    BY <1>7, <1>8 DEF LastRule
<1>10. PICK r \in S : LastRule = row[r]
    BY <1>2, <1>9
<1>11. row[q].id <= LastRule.id /\ LastRule.id <= row[q].id
    BY <1>7, <1>8, <1>9
<1>12. LastRule.id = b + q
    BY <1>1, <1>10, <1>11
<1> QED
    BY <1>6, <1>12 DEF S

TableNames ==
    {"namespaces", "flags", "variants", "segments", "constraints", "rules", "ruleSegments",
     "distributions", "rollouts", "rolloutSegments"}

LEMMA TablesAre ==
    ASSUME NEW d
    PROVE  IsTables(d) <=> DOMAIN d = TableNames /\ d = [q \in TableNames |-> d[q]]
<1>1. IsTables(d) => DOMAIN d = TableNames /\ d = [q \in TableNames |-> d[q]]
    BY DEF IsTables, TableNames
<1>2. DOMAIN d = TableNames /\ d = [q \in TableNames |-> d[q]] => IsTables(d)
    BY DEF IsTables, TableNames
<1> QED
    BY <1>1, <1>2

\* d and e are the same but for their tables a and b.
SameBut(e, d, a, b) ==
    IsTables(e) /\ \A q \in TableNames \ {a, b} : e[q] = d[q]

LEMMA ExceptOne ==
    ASSUME NEW d, IsTables(d), NEW a \in TableNames, NEW A
    PROVE  SameBut([d EXCEPT ![a] = A], d, a, a) /\ [d EXCEPT ![a] = A][a] = A
<1> DEFINE e == [d EXCEPT ![a] = A]
<1>1. DOMAIN d = TableNames
    BY TablesAre
<1>2. DOMAIN e = TableNames /\ e = [q \in TableNames |-> e[q]]
    BY <1>1
<1>3. e[a] = A /\ \A q \in TableNames \ {a, a} : e[q] = d[q]
    BY <1>1
<1> HIDE DEF e
<1>4. SameBut(e, d, a, a) /\ e[a] = A
    BY <1>2, <1>3, TablesAre DEF SameBut
<1> QED
    BY <1>4 DEF e

\* The variant of a distribution is the one of that key among those created.
LEMMA DistributionMade ==
    ASSUME NEW C \in Seq(AnyCall), Rooted(C), NEW b \in Nat, NEW j \in Nat, j + 1 \in 1..Len(C),
           Clean(C, b, j), NEW c, c = C[j + 1], c.op = "distribution", MadeVariants(c) # {}
    PROVE  /\ {[id |-> b + (j + 1), rule |-> LastRule.id, variant |-> v.id] : v \in MadeVariants(c)}
                = {DistributionRows(C, b)[j + 1]}
           /\ VariantsFor(C, j + 1) # {}
<1> DEFINE V == PlacesOf(C, j, "variant")
           row == VariantRows(C, b)
           W == VariantsFor(C, j + 1)
           M == MadeVariants(c)
<1>1. c \in AnyCall /\ Len(C) \in Nat
    OBVIOUS
<1>2. \A x, y \in c.keys : x = y
    BY <1>1, CallTypes
<1>3. /\ PlacesOf(C, j + 1, "variant") = V
      /\ PlacesOf(C, j + 1, "rule") = PlacesOf(C, j, "rule")
    BY PlacesGrow
<1>4. W = {q \in V : C[q].ns = c.ns /\ C[q].flag = c.flag /\ C[q].key \in c.keys}
    BY <1>3 DEF VariantsFor
<1>5. \A q \in V : /\ q \in Nat /\ row[q].id = b + q /\ row[q].ns = C[q].ns
                   /\ row[q].flag = C[q].flag /\ row[q].key = C[q].key
  <2>1. \A q \in V : q \in 1..Len(C) /\ q \in Nat
      BY <1>1 DEF PlacesOf
  <2> HIDE DEF V
  <2> QED
      BY <2>1 DEF VariantRows
<1>6. made = {row[q] : q \in V}
  <2>1. made = target.variants /\ target = TablesAfter(target.namespaces, C, b, j)
      BY DEF Clean, HasMade
  <2>2. TablesAfter(target.namespaces, C, b, j).variants = {row[q] : q \in V}
      BY DEF TablesAfter, RowsOf
  <2> QED
      BY <2>1, <2>2
<1>7. \A p, q \in V : C[p].ns = C[q].ns /\ C[p].flag = C[q].flag /\ C[p].key = C[q].key => p = q
    BY DEF Clean, HasMade, Accepted
<1> HIDE DEF V, row, W
<1>8. M = {row[q] : q \in W}
    BY <1>4, <1>5, <1>6 DEF MadeVariants
<1>9. W # {} /\ \A p, q \in W : p = q
    BY <1>2, <1>4, <1>7, <1>8
<1> DEFINE w == CHOOSE q \in W : TRUE
<1>10. w \in W /\ W = {w}
    BY <1>9
<1> HIDE DEF w
<1>11. M = {row[w]} /\ row[w].id = b + w
    BY <1>4, <1>5, <1>8, <1>10
<1>12. PlacesOf(C, j, "rule") # {}
  <2>1. \E q \in 1..((j + 1) - 1) : C[q].op = "rule"
      BY DEF Rooted
  <2> QED
      BY <2>1 DEF PlacesOf
<1>13. target.rules = RowsOf(C, j, "rule", RuleRows(C, b))
  <2>1. target = TablesAfter(target.namespaces, C, b, j)
      BY DEF Clean, HasMade
  <2>2. TablesAfter(target.namespaces, C, b, j).rules = RowsOf(C, j, "rule", RuleRows(C, b))
      BY DEF TablesAfter
  <2> QED
      BY <2>1, <2>2
<1>14. j <= Len(C)
    BY <1>1
<1>15. PICK q \in PlacesOf(C, j, "rule") :
         LastRule.id = b + q /\ \A r \in PlacesOf(C, j, "rule") : r <= q
    BY <1>1, <1>12, <1>13, <1>14, LastRuleIs
<1>16. RuleBefore(C, j + 1) = q
  <2>1. j + 1 \in Nat
      OBVIOUS
  <2> QED
      BY <1>3, <1>15, <2>1, RuleBeforeIs
<1>17. DistributionRows(C, b)[j + 1] = [id |-> b + (j + 1), rule |-> LastRule.id, variant |-> b + w]
    BY <1>15, <1>16 DEF DistributionRows, w, W
<1>18. {[id |-> b + (j + 1), rule |-> LastRule.id, variant |-> v.id] : v \in M}
         = {[id |-> b + (j + 1), rule |-> LastRule.id, variant |-> b + w]}
    BY <1>11
<1> QED
    BY <1>9, <1>17, <1>18 DEF W

\* What a call adds to the tables.
Adds(e, c) ==
    /\ c.op = "namespace" =>
         /\ SameBut(e, target, "namespaces", "namespaces")
         /\ e.namespaces = target.namespaces \cup
              {c.ns}
    /\ c.op = "flag" =>
         /\ SameBut(e, target, "flags", "flags")
         /\ e.flags = target.flags \cup
              {[ns |-> c.ns, key |-> c.flag, enabled |-> c.enabled]}
    /\ c.op = "variant" =>
         /\ SameBut(e, target, "variants", "variants")
         /\ e.variants = target.variants \cup
              {[id |-> NextId, ns |-> c.ns, flag |-> c.flag, key |-> c.key]}
    /\ c.op = "segment" =>
         /\ SameBut(e, target, "segments", "segments")
         /\ e.segments = target.segments \cup
              {[ns |-> c.ns, key |-> c.key, match |-> c.match]}
    /\ c.op = "constraint" =>
         /\ SameBut(e, target, "constraints", "constraints")
         /\ e.constraints = target.constraints \cup
              {ConstraintRow(NextId, c.ns, c.key, c.value)}
    /\ c.op = "rule" =>
         /\ SameBut(e, target, "rules", "ruleSegments")
         /\ e.rules = target.rules \cup
              {[id |-> NextId, ns |-> c.ns, flag |-> c.flag, rank |-> c.rank,
                operator |-> SegmentOperator(c.rule.segments, c.rule.operator)]}
         /\ e.ruleSegments = target.ruleSegments \cup RuleSegments(NextId, c.ns, c.rule.segments)
    /\ c.op = "distribution" =>
         /\ SameBut(e, target, "distributions", "distributions")
         /\ e.distributions = target.distributions \cup
              {[id |-> NextId, rule |-> LastRule.id, variant |-> v.id] : v \in MadeVariants(c)}
    /\ c.op = "rollout" =>
         /\ SameBut(e, target, "rollouts", "rolloutSegments")
         /\ e.rollouts = target.rollouts \cup
              {[id |-> NextId, ns |-> c.ns, flag |-> c.flag,
                operator |-> RolloutOperator(c.rollout.segments, c.rollout.operator)]}
         /\ e.rolloutSegments = target.rolloutSegments \cup RolloutSegments(NextId, c.ns, c.rollout.segments)

LEMMA CalledAdds ==
    ASSUME IsTables(target), NEW c \in AnyCall
    PROVE  Adds(Called(c), c) /\ IsTables(Called(c))
<1>0. c.op \in {"namespace", "flag", "variant", "segment", "constraint", "rule", "distribution",
                "rollout"}
    BY CallTypes
<1>1. CASE c.op = "namespace"
  <2> DEFINE A == target.namespaces \cup
               {c.ns}
  <2>1. Called(c) = [target EXCEPT !.namespaces = A]
      BY <1>1 DEF Called
  <2> HIDE DEF A
  <2>2. "namespaces" \in TableNames
      BY DEF TableNames
  <2> DEFINE e == [target EXCEPT !["namespaces"] = A]
  <2>3. SameBut(e, target, "namespaces", "namespaces") /\ e["namespaces"] = A
      BY <2>2, ExceptOne
  <2>4. Called(c) = e
      BY <2>1
  <2> HIDE DEF e
  <2>5. SameBut(Called(c), target, "namespaces", "namespaces") /\ Called(c).namespaces = A
      BY <2>3, <2>4
  <2> QED
      BY <1>1, <2>5 DEF Adds, A, SameBut
<1>2. CASE c.op = "flag"
  <2> DEFINE A == target.flags \cup
               {[ns |-> c.ns, key |-> c.flag, enabled |-> c.enabled]}
  <2>1. Called(c) = [target EXCEPT !.flags = A]
      BY <1>2 DEF Called
  <2> HIDE DEF A
  <2>2. "flags" \in TableNames
      BY DEF TableNames
  <2> DEFINE e == [target EXCEPT !["flags"] = A]
  <2>3. SameBut(e, target, "flags", "flags") /\ e["flags"] = A
      BY <2>2, ExceptOne
  <2>4. Called(c) = e
      BY <2>1
  <2> HIDE DEF e
  <2>5. SameBut(Called(c), target, "flags", "flags") /\ Called(c).flags = A
      BY <2>3, <2>4
  <2> QED
      BY <1>2, <2>5 DEF Adds, A, SameBut
<1>3. CASE c.op = "variant"
  <2> DEFINE A == target.variants \cup
               {[id |-> NextId, ns |-> c.ns, flag |-> c.flag, key |-> c.key]}
  <2>1. Called(c) = [target EXCEPT !.variants = A]
      BY <1>3 DEF Called
  <2> HIDE DEF A
  <2>2. "variants" \in TableNames
      BY DEF TableNames
  <2> DEFINE e == [target EXCEPT !["variants"] = A]
  <2>3. SameBut(e, target, "variants", "variants") /\ e["variants"] = A
      BY <2>2, ExceptOne
  <2>4. Called(c) = e
      BY <2>1
  <2> HIDE DEF e
  <2>5. SameBut(Called(c), target, "variants", "variants") /\ Called(c).variants = A
      BY <2>3, <2>4
  <2> QED
      BY <1>3, <2>5 DEF Adds, A, SameBut
<1>4. CASE c.op = "segment"
  <2> DEFINE A == target.segments \cup
               {[ns |-> c.ns, key |-> c.key, match |-> c.match]}
  <2>1. Called(c) = [target EXCEPT !.segments = A]
      BY <1>4 DEF Called
  <2> HIDE DEF A
  <2>2. "segments" \in TableNames
      BY DEF TableNames
  <2> DEFINE e == [target EXCEPT !["segments"] = A]
  <2>3. SameBut(e, target, "segments", "segments") /\ e["segments"] = A
      BY <2>2, ExceptOne
  <2>4. Called(c) = e
      BY <2>1
  <2> HIDE DEF e
  <2>5. SameBut(Called(c), target, "segments", "segments") /\ Called(c).segments = A
      BY <2>3, <2>4
  <2> QED
      BY <1>4, <2>5 DEF Adds, A, SameBut
<1>5. CASE c.op = "constraint"
  <2> DEFINE A == target.constraints \cup
               {ConstraintRow(NextId, c.ns, c.key, c.value)}
  <2>1. Called(c) = [target EXCEPT !.constraints = A]
      BY <1>5 DEF Called
  <2> HIDE DEF A
  <2>2. "constraints" \in TableNames
      BY DEF TableNames
  <2> DEFINE e == [target EXCEPT !["constraints"] = A]
  <2>3. SameBut(e, target, "constraints", "constraints") /\ e["constraints"] = A
      BY <2>2, ExceptOne
  <2>4. Called(c) = e
      BY <2>1
  <2> HIDE DEF e
  <2>5. SameBut(Called(c), target, "constraints", "constraints") /\ Called(c).constraints = A
      BY <2>3, <2>4
  <2> QED
      BY <1>5, <2>5 DEF Adds, A, SameBut
<1>6. CASE c.op = "rule"
  <2> DEFINE A == target.rules \cup
               {[id |-> NextId, ns |-> c.ns, flag |-> c.flag, rank |-> c.rank,
                 operator |-> SegmentOperator(c.rule.segments, c.rule.operator)]}
             B == target.ruleSegments \cup RuleSegments(NextId, c.ns, c.rule.segments)
  <2>1. Called(c) = [target EXCEPT !.rules = A, !.ruleSegments = B]
      BY <1>6 DEF Called
  <2> HIDE DEF A, B
  <2>2. "rules" \in TableNames /\ "ruleSegments" \in TableNames /\ "rules" # "ruleSegments"
      BY DEF TableNames
  <2>3. DOMAIN target = TableNames
      BY TablesAre
  <2> DEFINE e == Called(c)
  <2>4. DOMAIN e = TableNames /\ e = [q \in TableNames |-> e[q]]
      BY <2>1, <2>3
  <2>5. e.rules = A /\ e.ruleSegments = B /\ \A q \in TableNames \ {"rules", "ruleSegments"} : e[q] = target[q]
      BY <2>1, <2>2, <2>3
  <2> HIDE DEF e
  <2>6. SameBut(e, target, "rules", "ruleSegments") /\ e.rules = A /\ e.ruleSegments = B
      BY <2>4, <2>5, TablesAre DEF SameBut
  <2> QED
      BY <1>6, <2>6 DEF Adds, A, B, SameBut, e
<1>7. CASE c.op = "distribution"
  <2> DEFINE A == target.distributions \cup
               {[id |-> NextId, rule |-> LastRule.id, variant |-> v.id] : v \in MadeVariants(c)}
  <2>1. Called(c) = [target EXCEPT !.distributions = A]
      BY <1>7 DEF Called
  <2> HIDE DEF A
  <2>2. "distributions" \in TableNames
      BY DEF TableNames
  <2> DEFINE e == [target EXCEPT !["distributions"] = A]
  <2>3. SameBut(e, target, "distributions", "distributions") /\ e["distributions"] = A
      BY <2>2, ExceptOne
  <2>4. Called(c) = e
      BY <2>1
  <2> HIDE DEF e
  <2>5. SameBut(Called(c), target, "distributions", "distributions") /\ Called(c).distributions = A
      BY <2>3, <2>4
  <2> QED
      BY <1>7, <2>5 DEF Adds, A, SameBut
<1>8. CASE c.op = "rollout"
  <2> DEFINE A == target.rollouts \cup
               {[id |-> NextId, ns |-> c.ns, flag |-> c.flag,
                 operator |-> RolloutOperator(c.rollout.segments, c.rollout.operator)]}
             B == target.rolloutSegments \cup RolloutSegments(NextId, c.ns, c.rollout.segments)
  <2>1. Called(c) = [target EXCEPT !.rollouts = A, !.rolloutSegments = B]
      BY <1>8 DEF Called
  <2> HIDE DEF A, B
  <2>2. "rollouts" \in TableNames /\ "rolloutSegments" \in TableNames /\ "rollouts" # "rolloutSegments"
      BY DEF TableNames
  <2>3. DOMAIN target = TableNames
      BY TablesAre
  <2> DEFINE e == Called(c)
  <2>4. DOMAIN e = TableNames /\ e = [q \in TableNames |-> e[q]]
      BY <2>1, <2>3
  <2>5. e.rollouts = A /\ e.rolloutSegments = B /\ \A q \in TableNames \ {"rollouts", "rolloutSegments"} : e[q] = target[q]
      BY <2>1, <2>2, <2>3
  <2> HIDE DEF e
  <2>6. SameBut(e, target, "rollouts", "rolloutSegments") /\ e.rollouts = A /\ e.rolloutSegments = B
      BY <2>4, <2>5, TablesAre DEF SameBut
  <2> QED
      BY <1>8, <2>6 DEF Adds, A, B, SameBut, e
<1> QED
    BY <1>0, <1>1, <1>2, <1>3, <1>4, <1>5, <1>6, <1>7, <1>8

\* The other tables stay as they are.
LEMMA AddsOnly ==
    ASSUME NEW e, NEW c \in AnyCall, Adds(e, c)
    PROVE  /\ IsTables(e)
           /\ c.op # "flag" => e.flags = target.flags
           /\ c.op # "variant" => e.variants = target.variants
           /\ c.op # "segment" => e.segments = target.segments
           /\ c.op # "constraint" => e.constraints = target.constraints
           /\ c.op # "rule" => e.rules = target.rules
           /\ c.op # "rule" => e.ruleSegments = target.ruleSegments
           /\ c.op # "distribution" => e.distributions = target.distributions
           /\ c.op # "rollout" => e.rollouts = target.rollouts
           /\ c.op # "rollout" => e.rolloutSegments = target.rolloutSegments
<1>0. c.op \in {"namespace", "flag", "variant", "segment", "constraint", "rule", "distribution",
                "rollout"}
    BY CallTypes
<1>1. CASE c.op = "namespace"
  <2>1. SameBut(e, target, "namespaces", "namespaces")
      BY <1>1 DEF Adds
  <2> QED
      BY <1>1, <2>1 DEF SameBut, TableNames
<1>2. CASE c.op = "flag"
  <2>1. SameBut(e, target, "flags", "flags")
      BY <1>2 DEF Adds
  <2> QED
      BY <1>2, <2>1 DEF SameBut, TableNames
<1>3. CASE c.op = "variant"
  <2>1. SameBut(e, target, "variants", "variants")
      BY <1>3 DEF Adds
  <2> QED
      BY <1>3, <2>1 DEF SameBut, TableNames
<1>4. CASE c.op = "segment"
  <2>1. SameBut(e, target, "segments", "segments")
      BY <1>4 DEF Adds
  <2> QED
      BY <1>4, <2>1 DEF SameBut, TableNames
<1>5. CASE c.op = "constraint"
  <2>1. SameBut(e, target, "constraints", "constraints")
      BY <1>5 DEF Adds
  <2> QED
      BY <1>5, <2>1 DEF SameBut, TableNames
<1>6. CASE c.op = "rule"
  <2>1. SameBut(e, target, "rules", "ruleSegments")
      BY <1>6 DEF Adds
  <2> QED
      BY <1>6, <2>1 DEF SameBut, TableNames
<1>7. CASE c.op = "distribution"
  <2>1. SameBut(e, target, "distributions", "distributions")
      BY <1>7 DEF Adds
  <2> QED
      BY <1>7, <2>1 DEF SameBut, TableNames
<1>8. CASE c.op = "rollout"
  <2>1. SameBut(e, target, "rollouts", "rolloutSegments")
      BY <1>8 DEF Adds
  <2> QED
      BY <1>8, <2>1 DEF SameBut, TableNames
<1> QED
    BY <1>0, <1>1, <1>2, <1>3, <1>4, <1>5, <1>6, <1>7, <1>8

LEMMA CallMakes ==
    ASSUME NEW C \in Seq(AnyCall), Rooted(C), NEW b \in Nat, NEW j \in Nat, j + 1 \in 1..Len(C),
           Clean(C, b, j), NEW c, c = C[j + 1], ~Refused(c)
    PROVE  Called(c) = TablesAfter(Called(c).namespaces, C, b, j + 1)
<1> DEFINE k == j + 1
           e == Called(c)
           fl(n) == RowsOf(C, n, "flag", FlagRows(C))
           va(n) == RowsOf(C, n, "variant", VariantRows(C, b))
           se(n) == RowsOf(C, n, "segment", SegmentRows(C))
           co(n) == RowsOf(C, n, "constraint", ConstraintRows(C, b))
           ru(n) == RowsOf(C, n, "rule", RuleRows(C, b))
           rs(n) == UNION RowsOf(C, n, "rule", RuleSegmentRows(C, b))
           di(n) == RowsOf(C, n, "distribution", DistributionRows(C, b))
           ro(n) == RowsOf(C, n, "rollout", RolloutRows(C, b))
           os(n) == UNION RowsOf(C, n, "rollout", RolloutSegmentRows(C, b))
<1>1. c \in AnyCall
    OBVIOUS
<1>2. NextId = b + k
  <2>1. created = b + j
      BY DEF Clean, HasMade
  <2> QED
      BY <2>1 DEF NextId
<1>3. target = TablesAfter(target.namespaces, C, b, j)
    BY DEF Clean, HasMade
<1>4. IsTables(target)
  <2>1. IsTables(TablesAfter(target.namespaces, C, b, j))
      BY DEF IsTables, TablesAfter
  <2> QED
      BY <1>3, <2>1
<1>5. /\ target.flags = fl(j)
      /\ target.variants = va(j)
      /\ target.segments = se(j)
      /\ target.constraints = co(j)
      /\ target.rules = ru(j)
      /\ target.ruleSegments = rs(j)
      /\ target.distributions = di(j)
      /\ target.rollouts = ro(j)
      /\ target.rolloutSegments = os(j)
  <2>1. /\ TablesAfter(target.namespaces, C, b, j).flags = fl(j)
        /\ TablesAfter(target.namespaces, C, b, j).variants = va(j)
        /\ TablesAfter(target.namespaces, C, b, j).segments = se(j)
        /\ TablesAfter(target.namespaces, C, b, j).constraints = co(j)
        /\ TablesAfter(target.namespaces, C, b, j).rules = ru(j)
        /\ TablesAfter(target.namespaces, C, b, j).ruleSegments = rs(j)
        /\ TablesAfter(target.namespaces, C, b, j).distributions = di(j)
        /\ TablesAfter(target.namespaces, C, b, j).rollouts = ro(j)
        /\ TablesAfter(target.namespaces, C, b, j).rolloutSegments = os(j)
      BY DEF TablesAfter
  <2> QED
      BY <1>3, <2>1
<1>a. /\ \A o, row : c.op # o => RowsOf(C, k, o, row) = RowsOf(C, j, o, row)
      /\ \A o, row : c.op = o => RowsOf(C, k, o, row) = RowsOf(C, j, o, row) \cup {row[k]}
  <2>1. \A o, row : RowsOf(C, j + 1, o, row) =
          IF C[j + 1].op = o THEN RowsOf(C, j, o, row) \cup {row[j + 1]} ELSE RowsOf(C, j, o, row)
      BY RowsGrow
  <2> QED
      BY <2>1
<1>b. /\ \A o, row : c.op # o => UNION RowsOf(C, k, o, row) = UNION RowsOf(C, j, o, row)
      /\ \A o, row : c.op = o =>
           UNION RowsOf(C, k, o, row) = (UNION RowsOf(C, j, o, row)) \cup row[k]
    BY <1>a
<1>6. /\ c.op # "flag" => fl(k) = fl(j)
      /\ c.op # "variant" => va(k) = va(j)
      /\ c.op # "segment" => se(k) = se(j)
      /\ c.op # "constraint" => co(k) = co(j)
      /\ c.op # "rule" => ru(k) = ru(j)
      /\ c.op # "rule" => rs(k) = rs(j)
      /\ c.op # "distribution" => di(k) = di(j)
      /\ c.op # "rollout" => ro(k) = ro(j)
      /\ c.op # "rollout" => os(k) = os(j)
    BY <1>a, <1>b
<1>7. /\ c.op = "flag" => fl(k) = fl(j) \cup {FlagRows(C)[k]}
      /\ c.op = "variant" => va(k) = va(j) \cup {VariantRows(C, b)[k]}
      /\ c.op = "segment" => se(k) = se(j) \cup {SegmentRows(C)[k]}
      /\ c.op = "constraint" => co(k) = co(j) \cup {ConstraintRows(C, b)[k]}
      /\ c.op = "rule" => ru(k) = ru(j) \cup {RuleRows(C, b)[k]}
      /\ c.op = "rule" => rs(k) = rs(j) \cup RuleSegmentRows(C, b)[k]
      /\ c.op = "distribution" => di(k) = di(j) \cup {DistributionRows(C, b)[k]}
      /\ c.op = "rollout" => ro(k) = ro(j) \cup {RolloutRows(C, b)[k]}
      /\ c.op = "rollout" => os(k) = os(j) \cup RolloutSegmentRows(C, b)[k]
    BY <1>a, <1>b
<1> HIDE DEF k, e, fl, va, se, co, ru, rs, di, ro, os
<1>8. Adds(e, c) /\ IsTables(e)
    BY <1>1, <1>4, CalledAdds DEF e
<1>9. k \in 1..Len(C) /\ c = C[k]
    BY DEF k
<1>10. /\ c.op = "flag" => e.flags = target.flags \cup {FlagRows(C)[k]}
       /\ c.op = "variant" => e.variants = target.variants \cup {VariantRows(C, b)[k]}
       /\ c.op = "segment" => e.segments = target.segments \cup {SegmentRows(C)[k]}
       /\ c.op = "constraint" => e.constraints = target.constraints \cup {ConstraintRows(C, b)[k]}
    BY <1>2, <1>8, <1>9 DEF Adds, FlagRows, VariantRows, SegmentRows, ConstraintRows
<1>11. c.op = "rule" => /\ e.rules = target.rules \cup {RuleRows(C, b)[k]}
                        /\ e.ruleSegments = target.ruleSegments \cup RuleSegmentRows(C, b)[k]
    BY <1>2, <1>8, <1>9 DEF Adds, RuleRows, RuleSegmentRows
<1>12. c.op = "rollout" => /\ e.rollouts = target.rollouts \cup {RolloutRows(C, b)[k]}
                           /\ e.rolloutSegments = target.rolloutSegments \cup RolloutSegmentRows(C, b)[k]
    BY <1>2, <1>8, <1>9 DEF Adds, RolloutRows, RolloutSegmentRows
<1>13. c.op = "distribution" => e.distributions = target.distributions \cup {DistributionRows(C, b)[k]}
  <2> SUFFICES ASSUME c.op = "distribution"
               PROVE  e.distributions = target.distributions \cup {DistributionRows(C, b)[k]}
      OBVIOUS
  <2>1. MadeVariants(c) # {}
      BY DEF Refused
  <2>2. {[id |-> b + (j + 1), rule |-> LastRule.id, variant |-> v.id] : v \in MadeVariants(c)}
          = {DistributionRows(C, b)[j + 1]}
      BY <2>1, DistributionMade
  <2>3. e.distributions = target.distributions \cup
          {[id |-> NextId, rule |-> LastRule.id, variant |-> v.id] : v \in MadeVariants(c)}
      BY <1>8 DEF Adds
  <2> QED
      BY <1>2, <2>2, <2>3 DEF k
<1>14. /\ c.op # "flag" => e.flags = target.flags
       /\ c.op # "variant" => e.variants = target.variants
       /\ c.op # "segment" => e.segments = target.segments
       /\ c.op # "constraint" => e.constraints = target.constraints
       /\ c.op # "rule" => e.rules = target.rules
       /\ c.op # "rule" => e.ruleSegments = target.ruleSegments
       /\ c.op # "distribution" => e.distributions = target.distributions
       /\ c.op # "rollout" => e.rollouts = target.rollouts
       /\ c.op # "rollout" => e.rolloutSegments = target.rolloutSegments
    BY <1>1, <1>8, AddsOnly
<1>15. /\ e.flags = fl(k)
       /\ e.variants = va(k)
       /\ e.segments = se(k)
       /\ e.constraints = co(k)
       /\ e.rules = ru(k)
       /\ e.ruleSegments = rs(k)
       /\ e.distributions = di(k)
       /\ e.rollouts = ro(k)
       /\ e.rolloutSegments = os(k)
    BY <1>5, <1>6, <1>7, <1>10, <1>11, <1>12, <1>13, <1>14
<1>16. e = [namespaces |-> e.namespaces, flags |-> e.flags, variants |-> e.variants,
            segments |-> e.segments, constraints |-> e.constraints, rules |-> e.rules,
            ruleSegments |-> e.ruleSegments, distributions |-> e.distributions,
            rollouts |-> e.rollouts, rolloutSegments |-> e.rolloutSegments]
    BY <1>8 DEF IsTables
<1>17. TablesAfter(e.namespaces, C, b, k) =
         [namespaces |-> e.namespaces, flags |-> fl(k), variants |-> va(k), segments |-> se(k),
          constraints |-> co(k), rules |-> ru(k), ruleSegments |-> rs(k), distributions |-> di(k),
          rollouts |-> ro(k), rolloutSegments |-> os(k)]
    BY DEF TablesAfter, fl, va, se, co, ru, rs, di, ro, os
<1>18. e = TablesAfter(e.namespaces, C, b, k)
    BY <1>15, <1>16, <1>17
<1> QED
    BY <1>18 DEF e, k

LEMMA CleanTables ==
    ASSUME NEW C, NEW b, NEW j, Clean(C, b, j)
    PROVE  /\ IsTables(target)
           /\ target.flags = RowsOf(C, j, "flag", FlagRows(C))
           /\ target.variants = RowsOf(C, j, "variant", VariantRows(C, b))
           /\ target.segments = RowsOf(C, j, "segment", SegmentRows(C))
<1>1. target = TablesAfter(target.namespaces, C, b, j)
    BY DEF Clean, HasMade
<1> DEFINE d == TablesAfter(target.namespaces, C, b, j)
<1>2. /\ IsTables(d)
      /\ d.flags = RowsOf(C, j, "flag", FlagRows(C))
      /\ d.variants = RowsOf(C, j, "variant", VariantRows(C, b))
      /\ d.segments = RowsOf(C, j, "segment", SegmentRows(C))
    BY DEF TablesAfter, IsTables
<1> HIDE DEF d
<1> QED
    BY <1>1, <1>2 DEF d

\* What a call that was not refused adds is acceptable.
LEMMA CallAccepted ==
    ASSUME NEW C \in Seq(AnyCall), Rooted(C), NEW b \in Nat, NEW j \in Nat, j + 1 \in 1..Len(C),
           Clean(C, b, j), NEW c, c = C[j + 1], ~Refused(c)
    PROVE  Accepted(C, j + 1)
<1> DEFINE k == j + 1
           e == Called(c)
           F == PlacesOf(C, j, "flag")
           S == PlacesOf(C, j, "segment")
           V == PlacesOf(C, j, "variant")
<1>1. c \in AnyCall /\ IsTables(target) /\ Len(C) \in Nat
    BY CleanTables
<1>2. Adds(e, c) /\ IsTables(e)
    BY <1>1, CalledAdds
<1>3. Cascade(e) = e /\ UniqueKeys(e)
    BY DEF Refused, Acceptable
<1>4. \A o : PlacesOf(C, k, o) = IF c.op = o THEN PlacesOf(C, j, o) \cup {k} ELSE PlacesOf(C, j, o)
    BY PlacesGrow
<1>5. \A o : PlacesOf(C, j, o) \subseteq 1..j
    BY DEF PlacesOf
<1>6. Accepted(C, j)
    BY DEF Clean, HasMade
<1>7. \A p \in S : \E x \in target.segments : x.ns = C[p].ns /\ x.key = C[p].key
  <2>1. target.segments = {SegmentRows(C)[p] : p \in S}
      BY CleanTables DEF RowsOf
  <2>2. \A p \in S : SegmentRows(C)[p].ns = C[p].ns /\ SegmentRows(C)[p].key = C[p].key
      BY <1>1, <1>5 DEF SegmentRows
  <2> QED
      BY <2>1, <2>2
<1>8. \A x \in target.segments : \E p \in S : x.ns = C[p].ns /\ x.key = C[p].key
  <2>1. target.segments = {SegmentRows(C)[p] : p \in S}
      BY CleanTables DEF RowsOf
  <2>2. \A p \in S : SegmentRows(C)[p].ns = C[p].ns /\ SegmentRows(C)[p].key = C[p].key
      BY <1>1, <1>5 DEF SegmentRows
  <2> QED
      BY <2>1, <2>2
<1>9. \A p \in F : \E x \in target.flags : x.ns = C[p].ns /\ x.key = C[p].flag
  <2>1. target.flags = {FlagRows(C)[p] : p \in F}
      BY CleanTables DEF RowsOf
  <2>2. \A p \in F : FlagRows(C)[p].ns = C[p].ns /\ FlagRows(C)[p].key = C[p].flag
      BY <1>1, <1>5 DEF FlagRows
  <2> QED
      BY <2>1, <2>2
<1>10. \A p \in V : \E x \in target.variants :
         x.id = b + p /\ x.ns = C[p].ns /\ x.flag = C[p].flag /\ x.key = C[p].key
  <2>1. target.variants = {VariantRows(C, b)[p] : p \in V}
      BY CleanTables DEF RowsOf
  <2>2. \A p \in V : /\ VariantRows(C, b)[p].ns = C[p].ns /\ VariantRows(C, b)[p].flag = C[p].flag
                     /\ VariantRows(C, b)[p].key = C[p].key /\ VariantRows(C, b)[p].id = b + p
      BY <1>1, <1>5 DEF VariantRows
  <2> QED
      BY <2>1, <2>2
<1>11. NextId = b + k
    BY DEF NextId, Clean, HasMade
<1> HIDE DEF k, e, F, S, V
<1>12. c = C[k]
    BY DEF k
<1>a. \A p, q \in PlacesOf(C, k, "flag") : C[p].ns = C[q].ns /\ C[p].flag = C[q].flag => p = q
  <2>1. \A p, q \in F : C[p].ns = C[q].ns /\ C[p].flag = C[q].flag => p = q
      BY <1>6 DEF Accepted, F
  <2>2. CASE c.op = "flag"
    <3>1. PlacesOf(C, k, "flag") = F \cup {k}
        BY <1>4, <2>2 DEF F
    <3>2. ~HasFlag(target, c.ns, c.flag)
        BY <2>2 DEF Refused
    <3>3. \A p \in F : ~(C[p].ns = C[k].ns /\ C[p].flag = C[k].flag)
        BY <1>9, <1>12, <3>2 DEF HasFlag
    <3> QED
        BY <2>1, <3>1, <3>3
  <2>3. CASE c.op # "flag"
      BY <1>4, <2>1, <2>3 DEF F
  <2> QED
      BY <2>2, <2>3
<1>b. \A p, q \in PlacesOf(C, k, "segment") : C[p].ns = C[q].ns /\ C[p].key = C[q].key => p = q
  <2>1. \A p, q \in S : C[p].ns = C[q].ns /\ C[p].key = C[q].key => p = q
      BY <1>6 DEF Accepted, S
  <2>2. CASE c.op = "segment"
    <3>1. PlacesOf(C, k, "segment") = S \cup {k}
        BY <1>4, <2>2 DEF S
    <3>2. ~HasSegment(target, c.ns, c.key)
        BY <2>2 DEF Refused
    <3>3. \A p \in S : ~(C[p].ns = C[k].ns /\ C[p].key = C[k].key)
        BY <1>7, <1>12, <3>2 DEF HasSegment
    <3> QED
        BY <2>1, <3>1, <3>3
  <2>3. CASE c.op # "segment"
      BY <1>4, <2>1, <2>3 DEF S
  <2> QED
      BY <2>2, <2>3
<1>c. \A p, q \in PlacesOf(C, k, "variant") :
        C[p].ns = C[q].ns /\ C[p].flag = C[q].flag /\ C[p].key = C[q].key => p = q
  <2>1. \A p, q \in V : C[p].ns = C[q].ns /\ C[p].flag = C[q].flag /\ C[p].key = C[q].key => p = q
      BY <1>6 DEF Accepted, V
  <2>2. CASE c.op = "variant"
    <3>1. PlacesOf(C, k, "variant") = V \cup {k}
        BY <1>4, <2>2 DEF V
    <3> DEFINE y == [id |-> NextId, ns |-> c.ns, flag |-> c.flag, key |-> c.key]
    <3>2. e.variants = target.variants \cup {y}
        BY <1>2, <2>2 DEF Adds
    <3>3. \A x, z \in e.variants : x.ns = z.ns /\ x.flag = z.flag /\ x.key = z.key => x = z
        BY <1>3 DEF UniqueKeys
    <3>4. y.id = b + k /\ y.ns = c.ns /\ y.flag = c.flag /\ y.key = c.key
        BY <1>11
    <3> HIDE DEF y
    <3>5. ASSUME NEW p \in V, C[p].ns = C[k].ns, C[p].flag = C[k].flag, C[p].key = C[k].key
          PROVE  FALSE
      <4>1. PICK x \in target.variants :
              x.id = b + p /\ x.ns = C[p].ns /\ x.flag = C[p].flag /\ x.key = C[p].key
          BY <1>10
      <4>2. x = y
          BY <1>12, <3>2, <3>3, <3>4, <3>5, <4>1
      <4>3. b + p = b + k
          BY <3>4, <4>1, <4>2
      <4>4. p \in 1..j
          BY <1>5 DEF V
      <4> QED
          BY <4>3, <4>4 DEF k
    <3> QED
        BY <2>1, <3>1, <3>5
  <2>3. CASE c.op # "variant"
      BY <1>4, <2>1, <2>3 DEF V
  <2> QED
      BY <2>2, <2>3
<1>d. \A s : HasSegment(target, c.ns, s) => SegmentBefore(C, k, s)
  <2> SUFFICES ASSUME NEW s, HasSegment(target, c.ns, s) PROVE SegmentBefore(C, k, s)
      OBVIOUS
  <2>1. PICK x \in target.segments : x.ns = c.ns /\ x.key = s
      BY DEF HasSegment
  <2>2. PICK p \in S : x.ns = C[p].ns /\ x.key = C[p].key
      BY <1>8
  <2>3. p \in PlacesOf(C, k, "segment")
      BY <1>4, <2>2 DEF S
  <2> QED
      BY <1>12, <2>1, <2>2, <2>3 DEF SegmentBefore
<1>e. \A p \in PlacesOf(C, k, "rule") : \A s \in C[p].rule.segments : SegmentBefore(C, p, s)
  <2>1. \A p \in PlacesOf(C, j, "rule") : \A s \in C[p].rule.segments : SegmentBefore(C, p, s)
      BY <1>6 DEF Accepted
  <2>2. CASE c.op = "rule"
    <3>1. PlacesOf(C, k, "rule") = PlacesOf(C, j, "rule") \cup {k}
        BY <1>4, <2>2
    <3>2. /\ e.ruleSegments = target.ruleSegments \cup RuleSegments(NextId, c.ns, c.rule.segments)
          /\ e.segments = target.segments
        BY <1>1, <1>2, <2>2, AddsOnly DEF Adds
    <3>3. \A x \in e.ruleSegments : HasSegment(target, x.ns, x.segment)
        BY <1>2, <1>3, <3>2, SegmentsNeeded DEF HasSegment
    <3>4. \A s \in c.rule.segments : [rule |-> NextId, ns |-> c.ns, segment |-> s] \in e.ruleSegments
        BY <3>2 DEF RuleSegments
    <3>5. \A s \in c.rule.segments : HasSegment(target, c.ns, s)
        BY <3>3, <3>4
    <3> QED
        BY <1>d, <1>12, <2>1, <3>1, <3>5
  <2>3. CASE c.op # "rule"
      BY <1>4, <2>1, <2>3
  <2> QED
      BY <2>2, <2>3
<1>f. \A p \in PlacesOf(C, k, "rollout") :
        /\ C[p].rollout.operator # "none"
        /\ \A s \in C[p].rollout.segments : SegmentBefore(C, p, s)
  <2>1. \A p \in PlacesOf(C, j, "rollout") :
          /\ C[p].rollout.operator # "none"
          /\ \A s \in C[p].rollout.segments : SegmentBefore(C, p, s)
      BY <1>6 DEF Accepted
  <2>2. CASE c.op = "rollout"
    <3>1. PlacesOf(C, k, "rollout") = PlacesOf(C, j, "rollout") \cup {k}
        BY <1>4, <2>2
    <3>2. /\ e.rolloutSegments = target.rolloutSegments \cup
               RolloutSegments(NextId, c.ns, c.rollout.segments)
          /\ e.segments = target.segments
        BY <1>1, <1>2, <2>2, AddsOnly DEF Adds
    <3>3. \A x \in e.rolloutSegments : HasSegment(target, x.ns, x.segment)
        BY <1>2, <1>3, <3>2, SegmentsNeeded DEF HasSegment
    <3>4. \A s \in c.rollout.segments :
            [rollout |-> NextId, ns |-> c.ns, segment |-> s] \in e.rolloutSegments
        BY <3>2 DEF RolloutSegments
    <3>5. \A s \in c.rollout.segments : HasSegment(target, c.ns, s)
        BY <3>3, <3>4
    <3>6. c.rollout.operator # "none"
        BY <2>2 DEF Refused
    <3> QED
        BY <1>d, <1>12, <2>1, <3>1, <3>5, <3>6
  <2>3. CASE c.op # "rollout"
      BY <1>4, <2>1, <2>3
  <2> QED
      BY <2>2, <2>3
<1>g. \A p \in PlacesOf(C, k, "distribution") : VariantsFor(C, p) # {}
  <2>1. \A p \in PlacesOf(C, j, "distribution") : VariantsFor(C, p) # {}
      BY <1>6 DEF Accepted
  <2>2. CASE c.op = "distribution"
    <3>1. PlacesOf(C, k, "distribution") = PlacesOf(C, j, "distribution") \cup {k}
        BY <1>4, <2>2
    <3>2. MadeVariants(c) # {}
        BY <2>2 DEF Refused
    <3>3. VariantsFor(C, k) # {}
        BY <2>2, <3>2, DistributionMade DEF k
    <3> QED
        BY <2>1, <3>1, <3>3
  <2>3. CASE c.op # "distribution"
      BY <1>4, <2>1, <2>3
  <2> QED
      BY <2>2, <2>3
<1> QED
    BY <1>a, <1>b, <1>c, <1>e, <1>f, <1>g DEF Accepted, k

\* A call that succeeds.
LEMMA CallProgress ==
    ASSUME NEW C \in Seq(AnyCall), Rooted(C), IsTables(target), created \in Nat,
           Progress(target, created, made, calls, C), calls # <<>>, ~Refused(Head(calls))
    PROVE  LET e == Called(Head(calls))
           IN  IsTables(e) /\ Progress(e, created + 1, made \cup (e.variants \ target.variants),
                                       Tail(calls), C)
<1> DEFINE c == Head(calls)
           e == Called(c)
           l == Tail(calls)
<1>1. PICK j \in 0..Len(C) :
        Remaining(calls, C, j) /\ (Doomed(target, C, j) \/ \E b \in Nat : Clean(C, b, j))
    BY DEF Progress, Clean
<1>2. Len(C) \in Nat /\ j \in Nat
    BY <1>1
<1>3. calls \in Seq(AnyCall) /\ Len(calls) \in Nat /\ Len(calls) # 0
    BY <1>1 DEF Remaining
<1>4. /\ c = calls[1] /\ l \in Seq(AnyCall) /\ Len(l) = Len(calls) - 1
      /\ \A m \in 1..Len(l) : l[m] = calls[m + 1]
    BY <1>3
<1>5. j + 1 \in 0..Len(C) /\ j + 1 \in 1..Len(C) /\ c = C[j + 1] /\ Len(calls) = Len(C) - j
    BY <1>1, <1>2, <1>3, <1>4 DEF Remaining
<1>6. c \in AnyCall
    BY <1>5
<1> HIDE DEF c, l
<1>7. Remaining(l, C, j + 1)
  <2>1. Len(l) = Len(C) - (j + 1)
      BY <1>2, <1>4, <1>5
  <2>2. ASSUME NEW m \in 1..Len(l) PROVE l[m] = C[(j + 1) + m]
    <3>1. m + 1 \in 1..Len(calls) /\ j + (m + 1) = (j + 1) + m
        BY <1>2, <1>3, <1>4
    <3> QED
        BY <1>1, <1>4, <3>1 DEF Remaining
  <2> QED
      BY <1>4, <2>1, <2>2 DEF Remaining
<1>8. Adds(e, c) /\ IsTables(e)
    BY <1>6, CalledAdds
<1> HIDE DEF e
<1>9. /\ target.flags \subseteq e.flags /\ target.segments \subseteq e.segments
      /\ target.variants \subseteq e.variants
  <2>1. /\ c.op # "flag" => e.flags = target.flags
        /\ c.op # "variant" => e.variants = target.variants
        /\ c.op # "segment" => e.segments = target.segments
      BY <1>6, <1>8, AddsOnly
  <2>2. /\ c.op = "flag" => target.flags \subseteq e.flags
        /\ c.op = "variant" => target.variants \subseteq e.variants
        /\ c.op = "segment" => target.segments \subseteq e.segments
      BY <1>8 DEF Adds
  <2> QED
      BY <2>1, <2>2
<1>10. ~Refused(c)
    BY DEF c
<1>11. CASE Doomed(target, C, j)
  <2>1. PICK p \in (j + 1)..Len(C) : Taken(target, C[p])
      BY <1>11 DEF Doomed
  <2>2. p # j + 1
    <3>1. ~Taken(target, c)
        BY <1>10 DEF Refused, Taken
    <3> QED
        BY <1>5, <2>1, <3>1
  <2>3. p \in ((j + 1) + 1)..Len(C)
      BY <1>2, <2>1, <2>2
  <2>4. Taken(e, C[p])
      BY <1>9, <2>1 DEF Taken, HasFlag, HasSegment
  <2>5. Doomed(e, C, j + 1)
      BY <2>3, <2>4 DEF Doomed
  <2>6. Progress(e, created + 1, made \cup (e.variants \ target.variants), l, C)
      BY <1>5, <1>7, <2>5 DEF Progress
  <2> QED
      BY <1>8, <2>6 DEF e, c, l
<1>12. ASSUME NEW b \in Nat, Clean(C, b, j)
       PROVE  Progress(e, created + 1, made \cup (e.variants \ target.variants), l, C)
  <2>1. e = TablesAfter(e.namespaces, C, b, j + 1)
      BY <1>2, <1>5, <1>10, <1>12, CallMakes DEF e
  <2>2. Accepted(C, j + 1)
      BY <1>2, <1>5, <1>10, <1>12, CallAccepted
  <2>3. created + 1 = b + (j + 1) /\ made = target.variants
      BY <1>2, <1>12 DEF Clean, HasMade
  <2>4. made \cup (e.variants \ target.variants) = e.variants
      BY <1>9, <2>3
  <2>5. HasMade(e, created + 1, made \cup (e.variants \ target.variants), C, b, j + 1)
      BY <2>1, <2>2, <2>3, <2>4 DEF HasMade
  <2> QED
      BY <1>5, <1>7, <1>12, <2>5 DEF Progress
<1> QED
    BY <1>1, <1>8, <1>11, <1>12 DEF e, c, l

\* An installation with no rows: the import begins from nothing.
LEMMA FromNothing ==
    ASSUME NEW C \in Seq(AnyCall), NEW t, IsTables(t), NEW n \in Nat,
           t.flags = {}, t.variants = {}, t.segments = {}, t.constraints = {}, t.rules = {},
           t.ruleSegments = {}, t.distributions = {}, t.rollouts = {}, t.rolloutSegments = {}
    PROVE  Progress(t, n, {}, C, C)
<1>1. /\ \A o : PlacesOf(C, 0, o) = {}
      /\ \A o, row : RowsOf(C, 0, o, row) = {} /\ UNION RowsOf(C, 0, o, row) = {}
    BY NoRows
<1>2. TablesAfter(t.namespaces, C, n, 0) =
        [namespaces |-> t.namespaces, flags |-> {}, variants |-> {}, segments |-> {},
         constraints |-> {}, rules |-> {}, ruleSegments |-> {}, distributions |-> {},
         rollouts |-> {}, rolloutSegments |-> {}]
    BY <1>1 DEF TablesAfter
<1>3. t = TablesAfter(t.namespaces, C, n, 0)
    BY <1>2 DEF IsTables
<1>4. Accepted(C, 0)
    BY <1>1 DEF Accepted
<1>5. n = n + 0 /\ {} = t.variants
    OBVIOUS
<1>6. HasMade(t, n, {}, C, n, 0)
    BY <1>3, <1>4, <1>5 DEF HasMade
<1>7. Len(C) \in Nat /\ 0 \in 0..Len(C) /\ Remaining(C, C, 0)
    BY DEF Remaining
<1> QED
    BY <1>6, <1>7 DEF Progress

\* The import begins again: what it left behind is in its way, or it left nothing.
LEMMA BeginAgain ==
    ASSUME NEW C \in Seq(AnyCall), Rooted(C), IsTables(target), created \in Nat,
           Progress(target, created, made, calls, C)
    PROVE  Progress(target, created, {}, C, C)
<1>1. PICK j \in 0..Len(C) : Doomed(target, C, j) \/ \E b \in Nat : Clean(C, b, j)
    BY DEF Progress, Clean
<1>2. Len(C) \in Nat /\ j \in Nat /\ 0 \in 0..Len(C) /\ Remaining(C, C, 0)
    BY DEF Remaining
<1>3. CASE Doomed(target, C, 0)
    BY <1>2, <1>3 DEF Progress
<1>4. Doomed(target, C, j) => Doomed(target, C, 0)
  <2>1. (j + 1)..Len(C) \subseteq (0 + 1)..Len(C)
      BY <1>2
  <2> QED
      BY <2>1 DEF Doomed
<1>5. ASSUME NEW b \in Nat, Clean(C, b, j), ~Doomed(target, C, 0)
      PROVE  Progress(target, created, {}, C, C)
  <2>1. /\ \A o : PlacesOf(C, j, o) \subseteq 1..Len(C)
        /\ \A o : \A p \in PlacesOf(C, j, o) : C[p].op = o
      BY <1>2 DEF PlacesOf
  <2>2. PlacesOf(C, j, "flag") = {}
    <3> SUFFICES ASSUME NEW p \in PlacesOf(C, j, "flag") PROVE FALSE
        OBVIOUS
    <3>1. FlagRows(C)[p] \in target.flags
        BY <1>5, CleanTables DEF RowsOf
    <3>2. FlagRows(C)[p].ns = C[p].ns /\ FlagRows(C)[p].key = C[p].flag
        BY <2>1 DEF FlagRows
    <3>3. Taken(target, C[p])
        BY <2>1, <3>1, <3>2 DEF Taken, HasFlag
    <3>4. p \in (0 + 1)..Len(C)
        BY <2>1
    <3> QED
        BY <1>5, <3>3, <3>4 DEF Doomed
  <2>3. PlacesOf(C, j, "segment") = {}
    <3> SUFFICES ASSUME NEW p \in PlacesOf(C, j, "segment") PROVE FALSE
        OBVIOUS
    <3>1. SegmentRows(C)[p] \in target.segments
        BY <1>5, CleanTables DEF RowsOf
    <3>2. SegmentRows(C)[p].ns = C[p].ns /\ SegmentRows(C)[p].key = C[p].key
        BY <2>1 DEF SegmentRows
    <3>3. Taken(target, C[p])
        BY <2>1, <3>1, <3>2 DEF Taken, HasSegment
    <3>4. p \in (0 + 1)..Len(C)
        BY <2>1
    <3> QED
        BY <1>5, <3>3, <3>4 DEF Doomed
  <2>4. \A o \in {"variant", "constraint", "rule", "distribution", "rollout"} : PlacesOf(C, j, o) = {}
    <3> SUFFICES ASSUME NEW o \in {"variant", "constraint", "rule", "distribution", "rollout"},
                        NEW p \in PlacesOf(C, j, o)
                 PROVE  FALSE
        OBVIOUS
    <3>1. PICK q \in 1..(p - 1) : C[q].op \in {"flag", "segment"}
        BY <2>1 DEF Rooted
    <3>2. p \in 1..j
        BY DEF PlacesOf
    <3>3. q \in 1..j
        BY <1>2, <3>2
    <3> QED
        BY <2>2, <2>3, <3>1, <3>3 DEF PlacesOf
  <2>5. \A o \in {"flag", "segment", "variant", "constraint", "rule", "distribution", "rollout"} :
          \A row : RowsOf(C, j, o, row) = {} /\ UNION RowsOf(C, j, o, row) = {}
      BY <2>2, <2>3, <2>4 DEF RowsOf
  <2>6. target = TablesAfter(target.namespaces, C, b, j)
      BY <1>5 DEF Clean, HasMade
  <2>7. TablesAfter(target.namespaces, C, b, j) =
          [namespaces |-> target.namespaces, flags |-> {}, variants |-> {}, segments |-> {},
           constraints |-> {}, rules |-> {}, ruleSegments |-> {}, distributions |-> {},
           rollouts |-> {}, rolloutSegments |-> {}]
      BY <2>5 DEF TablesAfter
  <2>8. /\ target.flags = {} /\ target.variants = {} /\ target.segments = {}
        /\ target.constraints = {} /\ target.rules = {} /\ target.ruleSegments = {}
        /\ target.distributions = {} /\ target.rollouts = {} /\ target.rolloutSegments = {}
      BY <2>6, <2>7
  <2> QED
      BY <2>8, FromNothing
<1> QED
    BY <1>1, <1>3, <1>4, <1>5

LEMMA ImportInvariance == TransferSpec => []ImportInv
<1>1. TransferInit => ImportInv
    BY DEF TransferInit, ImportInv, IsTables, Empty
<1>2. ASSUME ImportInv, DocInv, [TransferNext]_allVars PROVE ImportInv'
  <2> DEFINE C == AllCalls(docs)
  <2>1. Layout(C, docs)
      BY <1>2, LayoutHolds DEF DocInv
  <2>2. Rooted(C)
      BY <1>2, <2>1, LayoutRooted DEF DocInv
  <2>3. C \in Seq(AnyCall) /\ IsTables(target) /\ created \in Nat
      BY <1>2, <2>1 DEF Layout, ImportInv
  <2> HIDE DEF C
  <2>4. CASE /\ UNCHANGED importVars
             /\ phase' \in {"idle", "exported", "failed"} \/ Exporting'
             /\ phase \in {"idle", "exported"} \/ Exporting
      BY <1>2, <2>4 DEF ImportInv, importVars, Exporting
  <2>5. CASE UNCHANGED <<importVars, docs, phase>>
    <3>1. AllCalls(docs)' = AllCalls(docs)
        BY <2>5
    <3> QED
        BY <1>2, <2>5, <3>1 DEF ImportInv, importVars, Exporting
  <2>6. CASE BeginImport
    <3>1. /\ phase' = "importing" /\ calls' = C /\ made' = {} /\ target' = target
          /\ created' = created /\ docs' = docs
        BY <2>6 DEF BeginImport, exportVars, AllCalls, C
    <3>2. Progress(target, created, {}, C, C)
      <4>1. CASE phase = "exported"
        <5>1. target = Empty
            BY <1>2, <4>1 DEF ImportInv
        <5>2. /\ target.flags = {} /\ target.variants = {} /\ target.segments = {}
              /\ target.constraints = {} /\ target.rules = {} /\ target.ruleSegments = {}
              /\ target.distributions = {} /\ target.rollouts = {} /\ target.rolloutSegments = {}
            BY <5>1 DEF Empty
        <5> QED
            BY <2>3, <5>2, FromNothing
      <4>2. CASE phase = "interrupted"
        <5>1. Progress(target, created, made, calls, C)
            BY <1>2, <4>2 DEF ImportInv, C
        <5> QED
            BY <2>2, <2>3, <5>1, BeginAgain
      <4> QED
          BY <2>6, <4>1, <4>2 DEF BeginImport
    <3>3. AllCalls(docs') = C
        BY <3>1 DEF C
    <3> QED
        BY <2>3, <3>1, <3>2, <3>3 DEF ImportInv, IsTables, Exporting
  <2>7. CASE ImportCall
    <3>1. phase = "importing" /\ calls # <<>> /\ docs' = docs
        BY <2>7 DEF ImportCall, exportVars
    <3>2. AllCalls(docs') = C
        BY <3>1 DEF C
    <3>3. Progress(target, created, made, calls, C)
        BY <1>2, <3>1 DEF ImportInv, C
    <3>4. CASE phase' = "failed" /\ UNCHANGED <<calls, made, target, created>>
        BY <2>3, <3>4 DEF ImportInv, IsTables, Exporting
    <3>5. CASE ~Refused(Head(calls)) /\ ~(phase' = "failed")
      <4> DEFINE e == Called(Head(calls))
      <4>1. /\ target' = e /\ made' = made \cup (target'.variants \ target.variants)
            /\ calls' = Tail(calls) /\ created' = created + 1 /\ phase' = phase
          BY <2>7, <3>5 DEF ImportCall
      <4>2. IsTables(e) /\ Progress(e, created + 1, made \cup (e.variants \ target.variants),
                                    Tail(calls), C)
          BY <2>2, <2>3, <3>1, <3>3, <3>5, CallProgress
      <4> HIDE DEF e
      <4>3. IsTables(target') /\ Progress(target', created', made', calls', C) /\ created' \in Nat
          BY <2>3, <4>1, <4>2
      <4> QED
          BY <3>1, <3>2, <4>1, <4>3 DEF ImportInv, IsTables, Exporting
    <3> QED
        BY <2>7, <3>4, <3>5 DEF ImportCall
  <2>8. CASE Imported \/ Interrupt
    <3>1. /\ phase = "importing" /\ phase' \in {"imported", "interrupted"}
          /\ calls' = calls /\ made' = made /\ target' = target /\ created' = created
          /\ docs' = docs /\ (phase' = "imported" => calls = <<>>)
        BY <2>8 DEF Imported, Interrupt, importVars, exportVars
    <3>2. AllCalls(docs') = C
        BY <3>1 DEF C
    <3>3. Progress(target, created, made, calls, C)
        BY <1>2, <3>1 DEF ImportInv, C
    <3>4. Progress(target', created', made', calls', AllCalls(docs'))
        BY <3>1, <3>2, <3>3
    <3> QED
        BY <2>3, <3>1, <3>4 DEF ImportInv, IsTables, Exporting
  <2>9. ASSUME NEW some, NEW everything, BeginExport(some, everything)
        PROVE  ImportInv'
      BY <2>4, <2>9 DEF BeginExport, Exporting
  <2>10. CASE ListNamespaces
      BY <2>4, <2>10 DEF ListNamespaces, Exporting
  <2>11. CASE ListFlags
      BY <2>4, <2>11 DEF ListFlags, Exporting
  <2>12. CASE ListRules
      BY <2>4, <2>12 DEF ListRules, Exporting
  <2>13. CASE ListRollouts
      BY <2>4, <2>13 DEF ListRollouts, Exporting
  <2>14. CASE PageDone
      BY <2>4, <2>14 DEF PageDone, Exporting
  <2>15. CASE ListSegments
    <3>1. phase = "segments" /\ UNCHANGED importVars /\ phase' \in {"segments", "flags", "exported"}
        BY <2>15 DEF ListSegments
    <3> QED
        BY <2>4, <3>1 DEF Exporting
  <2>16. CASE StoreStep \/ UNCHANGED allVars
      BY <2>5, <2>16 DEF StoreStep, exportVars, allVars, transferVars
  <2> QED
      BY <1>2, <2>6, <2>7, <2>8, <2>9, <2>10, <2>11, <2>12, <2>13, <2>14, <2>15, <2>16
         DEF TransferNext, TransferStep, ExportStep
<1> QED
    BY <1>1, <1>2, DocInvariance, PTL DEF TransferSpec

\* The rows S are e[1] .. e[l], whose identifiers increase.
InOrder(S, e, l) ==
    /\ l \in Nat /\ S = {e[m] : m \in 1..l} /\ \A m \in 1..l : e[m].id \in Nat
    /\ \A m, n \in 1..l : m < n => e[m].id < e[n].id

LEMMA ByIdIs ==
    ASSUME NEW l, NEW e, NEW S, InOrder(S, e, l)
    PROVE  /\ Len(ById(S)) = l /\ DOMAIN ById(S) = 1..l
           /\ \A m \in 1..l : ById(S)[m] = e[m]
<1>0. /\ l \in Nat /\ S = {e[m] : m \in 1..l} /\ \A m \in 1..l : e[m].id \in Nat
      /\ \A m, n \in 1..l : m < n => e[m].id < e[n].id
    BY DEF InOrder
<1> USE <1>0
<1> DEFINE g == [m \in 1..l |-> e[m]]
           s == ById(S)
<1>1. \A m, n \in 1..l : e[m].id = e[n].id => m = n
    OBVIOUS
<1>2. g \in Bijection(1..l, S)
  <2>1. g \in [1..l -> S] /\ \A x \in S : \E m \in 1..l : g[m] = x
      OBVIOUS
  <2>2. \A m, n \in 1..l : g[m] = g[n] => m = n
      BY <1>1
  <2> QED
      BY <2>1, <2>2 DEF Bijection, Injection, Surjection, IsInjective
<1>3. IsFiniteSet(S) /\ Cardinality(S) = l
  <2>1. IsFiniteSet(1..l) /\ Cardinality(1..l) = l
      BY FS_Interval
  <2>2. ExistsBijection(1..l, S)
      BY <1>2 DEF ExistsBijection
  <2> QED
      BY <2>1, <2>2, FS_Bijection
<1>4. Numbered(S)
    BY <1>1, <1>3 DEF Numbered
<1>5. /\ s \in Seq(S) /\ Len(s) = l
      /\ \A k \in 1..l : Cardinality(Earlier(S, s[k])) = k - 1
  <2>1. /\ ById(S) \in Seq(S) /\ Len(ById(S)) = l
        /\ \A k \in 1..Len(ById(S)) : Cardinality(Earlier(S, ById(S)[k])) = k - 1
      BY <1>3, <1>4, ByIdLists
  <2> QED
      BY <2>1
<1> HIDE DEF s, g
<1>6. ASSUME NEW m \in 1..l PROVE Cardinality(Earlier(S, e[m])) = m - 1
  <2> DEFINE T == Earlier(S, e[m])
             h == [n \in 1..(m - 1) |-> e[n]]
  <2>1. T = {e[n] : n \in 1..(m - 1)}
    <3>1. \A n \in 1..l : e[n].id < e[m].id <=> n \in 1..(m - 1)
      <4> SUFFICES ASSUME NEW n \in 1..l PROVE e[n].id < e[m].id <=> n \in 1..(m - 1)
          OBVIOUS
      <4>1. e[n].id \in Nat /\ e[m].id \in Nat /\ (n < m => e[n].id < e[m].id)
            /\ (m < n => e[m].id < e[n].id)
          OBVIOUS
      <4>2. CASE n < m
          BY <4>1, <4>2
      <4>3. CASE n = m
          BY <4>1, <4>3
      <4>4. CASE m < n
          BY <4>1, <4>4
      <4> QED
          BY <4>2, <4>3, <4>4
    <3>2. 1..(m - 1) \subseteq 1..l
        OBVIOUS
    <3> QED
        BY <3>1, <3>2 DEF Earlier
  <2>2. h \in Bijection(1..(m - 1), T)
    <3>1. h \in [1..(m - 1) -> T] /\ \A x \in T : \E n \in 1..(m - 1) : h[n] = x
        BY <2>1
    <3>2. \A n, q \in 1..(m - 1) : h[n] = h[q] => n = q
        BY <1>1
    <3> QED
        BY <3>1, <3>2 DEF Bijection, Injection, Surjection, IsInjective
  <2> HIDE DEF T, h
  <2>3. IsFiniteSet(1..(m - 1)) /\ Cardinality(1..(m - 1)) = m - 1
    <3> DEFINE q == m - 1
    <3>1. q \in Nat
        OBVIOUS
    <3> HIDE DEF q
    <3>2. IsFiniteSet(1..q) /\ Cardinality(1..q) = q
        BY <3>1, FS_Interval
    <3> QED
        BY <3>2 DEF q
  <2>4. ExistsBijection(1..(m - 1), T)
      BY <2>2 DEF ExistsBijection
  <2>5. Cardinality(T) = m - 1
      BY <2>3, <2>4, FS_Bijection
  <2> QED
      BY <2>5 DEF T
<1>7. ASSUME NEW m \in 1..l PROVE s[m] = e[m]
  <2>1. s[m] \in S
      BY <1>5
  <2>2. PICK n \in 1..l : s[m] = e[n]
      BY <2>1
  <2>3. m - 1 = n - 1
      BY <1>5, <1>6, <2>2
  <2> QED
      BY <2>2, <2>3
<1> QED
    BY <1>5, <1>7 DEF s

\* The rules S are e[1] .. e[l], whose identifiers and ranks increase.
InRankOrder(S, e, l) ==
    /\ l \in Nat /\ S = {e[m] : m \in 1..l}
    /\ \A m \in 1..l : e[m].id \in Nat /\ e[m].rank \in Nat
    /\ \A m, n \in 1..l : m < n => e[m].id < e[n].id /\ e[m].rank < e[n].rank

LEMMA ByRankIs ==
    ASSUME NEW l, NEW e, NEW S, InRankOrder(S, e, l)
    PROVE  /\ Len(ByRank(S)) = l /\ DOMAIN ByRank(S) = 1..l
           /\ \A m \in 1..l : ByRank(S)[m] = e[m]
<1>0. /\ l \in Nat /\ S = {e[m] : m \in 1..l}
      /\ \A m \in 1..l : e[m].id \in Nat /\ e[m].rank \in Nat
      /\ \A m, n \in 1..l : m < n => e[m].id < e[n].id /\ e[m].rank < e[n].rank
    BY DEF InRankOrder
<1> USE <1>0
<1> DEFINE g == [m \in 1..l |-> e[m]]
           s == ByRank(S)
<1>1. \A m, n \in 1..l : e[m].id = e[n].id => m = n
    OBVIOUS
<1>2. g \in Bijection(1..l, S)
  <2>1. g \in [1..l -> S] /\ \A x \in S : \E m \in 1..l : g[m] = x
      OBVIOUS
  <2>2. \A m, n \in 1..l : g[m] = g[n] => m = n
      BY <1>1
  <2> QED
      BY <2>1, <2>2 DEF Bijection, Injection, Surjection, IsInjective
<1>3. IsFiniteSet(S) /\ Cardinality(S) = l
  <2>1. IsFiniteSet(1..l) /\ Cardinality(1..l) = l
    <3>1. \A q \in Nat : IsFiniteSet(1..q) /\ Cardinality(1..q) = q
        BY FS_Interval
    <3> QED
        BY <3>1
  <2>2. ExistsBijection(1..l, S)
      BY <1>2 DEF ExistsBijection
  <2> QED
      BY <2>1, <2>2, FS_Bijection
<1>4. RankOrdered(S)
    BY <1>1, <1>3 DEF RankOrdered, Numbered
<1>5. /\ s \in Seq(S) /\ Len(s) = l
      /\ \A k \in 1..l : Cardinality(Ahead(S, s[k])) = k - 1
  <2>1. /\ ByRank(S) \in Seq(S) /\ Len(ByRank(S)) = l
        /\ \A k \in 1..Len(ByRank(S)) : Cardinality(Ahead(S, ByRank(S)[k])) = k - 1
      BY <1>3, <1>4, ByRankLists
  <2> QED
      BY <2>1
<1> HIDE DEF s, g
<1>6. ASSUME NEW m \in 1..l PROVE Cardinality(Ahead(S, e[m])) = m - 1
  <2> DEFINE T == Ahead(S, e[m])
             h == [n \in 1..(m - 1) |-> e[n]]
  <2>1. T = {e[n] : n \in 1..(m - 1)}
    <3>1. \A n \in 1..l : Precedes(e[n], e[m]) <=> n \in 1..(m - 1)
      <4> SUFFICES ASSUME NEW n \in 1..l PROVE Precedes(e[n], e[m]) <=> n \in 1..(m - 1)
          OBVIOUS
      <4>1. /\ e[n].id \in Nat /\ e[m].id \in Nat /\ e[n].rank \in Nat /\ e[m].rank \in Nat
            /\ n < m => e[n].rank < e[m].rank
            /\ m < n => e[m].rank < e[n].rank
          OBVIOUS
      <4>2. CASE n < m
          BY <4>1, <4>2 DEF Precedes
      <4>3. CASE n = m
          BY <4>1, <4>3 DEF Precedes
      <4>4. CASE m < n
          BY <4>1, <4>4 DEF Precedes
      <4> QED
          BY <4>2, <4>3, <4>4
    <3>2. 1..(m - 1) \subseteq 1..l
        OBVIOUS
    <3> QED
        BY <3>1, <3>2 DEF Ahead
  <2>2. h \in Bijection(1..(m - 1), T)
    <3>1. h \in [1..(m - 1) -> T] /\ \A x \in T : \E n \in 1..(m - 1) : h[n] = x
        BY <2>1
    <3>2. \A n, q \in 1..(m - 1) : h[n] = h[q] => n = q
        BY <1>1
    <3> QED
        BY <3>1, <3>2 DEF Bijection, Injection, Surjection, IsInjective
  <2> HIDE DEF T, h
  <2>3. IsFiniteSet(1..(m - 1)) /\ Cardinality(1..(m - 1)) = m - 1
    <3> DEFINE q == m - 1
    <3>1. q \in Nat
        OBVIOUS
    <3> HIDE DEF q
    <3>2. IsFiniteSet(1..q) /\ Cardinality(1..q) = q
        BY <3>1, FS_Interval
    <3> QED
        BY <3>2 DEF q
  <2>4. ExistsBijection(1..(m - 1), T)
      BY <2>2 DEF ExistsBijection
  <2>5. Cardinality(T) = m - 1
      BY <2>3, <2>4, FS_Bijection
  <2> QED
      BY <2>5 DEF T
<1>7. ASSUME NEW m \in 1..l PROVE s[m] = e[m]
  <2>1. s[m] \in S
      BY <1>5
  <2>2. PICK n \in 1..l : s[m] = e[n]
      BY <2>1
  <2>3. m - 1 = n - 1
      BY <1>5, <1>6, <2>2
  <2> QED
      BY <2>2, <2>3
<1> QED
    BY <1>5, <1>7 DEF s

-----------------------------------------------------------------------------
(* Where what the documents say is among the calls.                        *)

SegmentAt(ds, k, i) == SegmentPos(DocStart(ds, k), ds[k], i)
FlagAt(ds, k, i) == FlagPos(DocStart(ds, k), ds[k], i)
RuleAt(ds, k, i, r) == RulePos(DocStart(ds, k), ds[k], i, r)
RolloutsAt(ds, k, i) == RolloutPos(DocStart(ds, k), ds[k], i)

\* Everything was accepted: a key is given once.
SegmentsOnce(C, ds) ==
    \A k, l \in 1..Len(ds) : \A i \in 1..Len(ds[k].segments), j \in 1..Len(ds[l].segments) :
      ds[k].ns = ds[l].ns /\ ds[k].segments[i].key = ds[l].segments[j].key => k = l /\ i = j
FlagsOnce(C, ds) ==
    \A k, l \in 1..Len(ds) : \A i \in 1..Len(ds[k].flags), j \in 1..Len(ds[l].flags) :
      ds[k].ns = ds[l].ns /\ ds[k].flags[i].key = ds[l].flags[j].key => k = l /\ i = j

LEMMA AllSegmentsOnce ==
    ASSUME NEW C, NEW ds \in Seq(AnyDocument), Layout(C, ds), Accepted(C, Len(C))
    PROVE  SegmentsOnce(C, ds)
<1> SUFFICES ASSUME NEW k \in 1..Len(ds), NEW l \in 1..Len(ds), NEW i \in 1..Len(ds[k].segments),
                    NEW j \in 1..Len(ds[l].segments), ds[k].ns = ds[l].ns,
                    ds[k].segments[i].key = ds[l].segments[j].key
             PROVE  k = l /\ i = j
    BY DEF SegmentsOnce
<1> DEFINE p == SegmentAt(ds, k, i)
           q == SegmentAt(ds, l, j)
           a == DocStart(ds, k)
           b == DocStart(ds, l)
           m == DocLen(ds, k)
           n == DocLen(ds, l)
<1>1. SegmentThere(C, a, m, ds[k], i) /\ SegmentThere(C, b, n, ds[l], j)
    BY DEF Layout, DocPlaces
<1>2. /\ a \in Nat /\ b \in Nat /\ m \in Nat /\ n \in Nat
      /\ (k < l => a + m <= b) /\ (l < k => b + n <= a)
    BY DEF Layout
<1>3. /\ p \in 1..Len(C) /\ q \in 1..Len(C) /\ p \in Nat /\ q \in Nat
      /\ C[p] = SegmentHead(ds[k].ns, ds[k].segments[i])
      /\ C[q] = SegmentHead(ds[l].ns, ds[l].segments[j])
      /\ a < p /\ p <= a + m /\ b < q /\ q <= b + n
    BY <1>1 DEF SegmentThere, HeadAt, SegmentAt
<1>4. k = l => (i < j => p < q) /\ (j < i => q < p)
  <2>1. DocPlaces(C, a, m, ds[k])
      BY DEF Layout
  <2> QED
      BY <2>1 DEF DocPlaces, SegmentAt
<1>5. k \in Nat /\ l \in Nat /\ i \in Nat /\ j \in Nat
    OBVIOUS
<1> HIDE DEF p, q, a, b, m, n
<1>6. p = q
  <2>1. p \in PlacesOf(C, Len(C), "segment") /\ q \in PlacesOf(C, Len(C), "segment")
      BY <1>3 DEF PlacesOf, SegmentHead
  <2>2. C[p].ns = C[q].ns /\ C[p].key = C[q].key
      BY <1>3 DEF SegmentHead
  <2> QED
      BY <2>1, <2>2 DEF Accepted
<1>7. k = l
    BY <1>2, <1>3, <1>5, <1>6
<1> QED
    BY <1>3, <1>4, <1>5, <1>6, <1>7

LEMMA AllFlagsOnce ==
    ASSUME NEW C, NEW ds \in Seq(AnyDocument), Layout(C, ds), Accepted(C, Len(C))
    PROVE  FlagsOnce(C, ds)
<1> SUFFICES ASSUME NEW k \in 1..Len(ds), NEW l \in 1..Len(ds), NEW i \in 1..Len(ds[k].flags),
                    NEW j \in 1..Len(ds[l].flags), ds[k].ns = ds[l].ns,
                    ds[k].flags[i].key = ds[l].flags[j].key
             PROVE  k = l /\ i = j
    BY DEF FlagsOnce
<1> DEFINE p == FlagAt(ds, k, i)
           q == FlagAt(ds, l, j)
           a == DocStart(ds, k)
           b == DocStart(ds, l)
           m == DocLen(ds, k)
           n == DocLen(ds, l)
<1>1. FlagThere(C, a, m, ds[k], i) /\ FlagThere(C, b, n, ds[l], j)
    BY DEF Layout, DocPlaces
<1>2. /\ a \in Nat /\ b \in Nat /\ m \in Nat /\ n \in Nat
      /\ (k < l => a + m <= b) /\ (l < k => b + n <= a)
    BY DEF Layout
<1>3. /\ p \in 1..Len(C) /\ q \in 1..Len(C) /\ p \in Nat /\ q \in Nat
      /\ C[p] = FlagHead(ds[k].ns, ds[k].flags[i])
      /\ C[q] = FlagHead(ds[l].ns, ds[l].flags[j])
      /\ a < p /\ p <= a + m /\ b < q /\ q <= b + n
    BY <1>1 DEF FlagThere, HeadAt, FlagAt
<1>4. k = l => (i < j => p < q) /\ (j < i => q < p)
  <2>1. DocPlaces(C, a, m, ds[k])
      BY DEF Layout
  <2> QED
      BY <2>1 DEF DocPlaces, FlagAt
<1>5. k \in Nat /\ l \in Nat /\ i \in Nat /\ j \in Nat
    OBVIOUS
<1> HIDE DEF p, q, a, b, m, n
<1>6. p = q
  <2>1. p \in PlacesOf(C, Len(C), "flag") /\ q \in PlacesOf(C, Len(C), "flag")
      BY <1>3 DEF PlacesOf, FlagHead
  <2>2. C[p].ns = C[q].ns /\ C[p].flag = C[q].flag
      BY <1>3 DEF FlagHead
  <2> QED
      BY <2>1, <2>2 DEF Accepted
<1>7. k = l
    BY <1>2, <1>3, <1>5, <1>6
<1> QED
    BY <1>3, <1>4, <1>5, <1>6, <1>7

\* The calls C for the documents ds have all been made, and made the tables t.
Complete(t, b, C, ds) ==
    /\ ds \in Seq(AnyDocument) /\ C \in Seq(AnyCall) /\ b \in Nat
    /\ Layout(C, ds) /\ Accepted(C, Len(C)) /\ t = TablesAfter(t.namespaces, C, b, Len(C))

LEMMA CompleteTables ==
    ASSUME NEW t, NEW b, NEW C, NEW ds, Complete(t, b, C, ds)
    PROVE  LET L == Len(C) IN
           /\ t.flags = RowsOf(C, L, "flag", FlagRows(C))
           /\ t.variants = RowsOf(C, L, "variant", VariantRows(C, b))
           /\ t.segments = RowsOf(C, L, "segment", SegmentRows(C))
           /\ t.constraints = RowsOf(C, L, "constraint", ConstraintRows(C, b))
           /\ t.rules = RowsOf(C, L, "rule", RuleRows(C, b))
           /\ t.ruleSegments = UNION RowsOf(C, L, "rule", RuleSegmentRows(C, b))
           /\ t.distributions = RowsOf(C, L, "distribution", DistributionRows(C, b))
           /\ t.rollouts = RowsOf(C, L, "rollout", RolloutRows(C, b))
           /\ t.rolloutSegments = UNION RowsOf(C, L, "rollout", RolloutSegmentRows(C, b))
<1> DEFINE d == TablesAfter(t.namespaces, C, b, Len(C))
<1>1. t = d
    BY DEF Complete
<1>2. /\ d.flags = RowsOf(C, Len(C), "flag", FlagRows(C))
      /\ d.variants = RowsOf(C, Len(C), "variant", VariantRows(C, b))
      /\ d.segments = RowsOf(C, Len(C), "segment", SegmentRows(C))
      /\ d.constraints = RowsOf(C, Len(C), "constraint", ConstraintRows(C, b))
      /\ d.rules = RowsOf(C, Len(C), "rule", RuleRows(C, b))
      /\ d.ruleSegments = UNION RowsOf(C, Len(C), "rule", RuleSegmentRows(C, b))
      /\ d.distributions = RowsOf(C, Len(C), "distribution", DistributionRows(C, b))
      /\ d.rollouts = RowsOf(C, Len(C), "rollout", RolloutRows(C, b))
      /\ d.rolloutSegments = UNION RowsOf(C, Len(C), "rollout", RolloutSegmentRows(C, b))
    BY DEF TablesAfter
<1> HIDE DEF d
<1> QED
    BY <1>1, <1>2

\* The documents.
LEMMA DocumentTypes ==
    ASSUME NEW ds \in Seq(AnyDocument), NEW k \in 1..Len(ds)
    PROVE  /\ ds[k] \in AnyDocument /\ ds[k].ns \in Namespace
           /\ ds[k].flags \in Seq(AnyFlag) /\ ds[k].segments \in Seq(AnySegment)
           /\ \A i \in 1..Len(ds[k].flags) : ds[k].flags[i] \in AnyFlag
           /\ \A i \in 1..Len(ds[k].segments) : ds[k].segments[i] \in AnySegment
<1>1. ds[k] \in AnyDocument
    OBVIOUS
<1>2. /\ ds[k].ns \in Namespace /\ ds[k].flags \in Seq(AnyFlag) /\ ds[k].segments \in Seq(AnySegment)
    BY <1>1 DEF AnyDocument
<1> QED
    BY <1>1, <1>2

\* The calls for a segment.
SegmentMade(C, ds, k, i) ==
    LET n == ds[k].ns s == ds[k].segments[i] h == SegmentAt(ds, k, i) l == Len(s.constraints) IN
    /\ h \in 1..Len(C) /\ C[h] = SegmentHead(n, s) /\ l \in Nat
    /\ \A m \in 1..l : /\ h + m \in 1..Len(C)
                       /\ C[h + m] = [op |-> "constraint", ns |-> n, key |-> s.key,
                                      value |-> s.constraints[m]]
    /\ \A p \in 1..Len(C) : C[p].op = "constraint" /\ C[p].ns = n /\ C[p].key = s.key =>
         \E m \in 1..l : p = h + m

LEMMA SegmentsMade ==
    ASSUME NEW t, NEW b, NEW C, NEW ds, Complete(t, b, C, ds),
           NEW k \in 1..Len(ds), NEW i \in 1..Len(ds[k].segments)
    PROVE  SegmentMade(C, ds, k, i)
<1> DEFINE n == ds[k].ns
           s == ds[k].segments[i]
           h == SegmentAt(ds, k, i)
           l == Len(s.constraints)
<1>0. ds \in Seq(AnyDocument) /\ C \in Seq(AnyCall) /\ Layout(C, ds) /\ Accepted(C, Len(C))
    BY DEF Complete
<1>1. SegmentsOnce(C, ds)
    BY <1>0, AllSegmentsOnce
<1>2. \A a \in 1..Len(ds) : \A j \in 1..Len(ds[a].segments) :
        LET q == SegmentAt(ds, a, j) x == ds[a].segments[j] IN
        /\ q \in 1..Len(C) /\ C[q] = SegmentHead(ds[a].ns, x) /\ Len(x.constraints) \in Nat
        /\ \A m \in 1..Len(x.constraints) :
             /\ q + m \in 1..Len(C)
             /\ C[q + m] = [op |-> "constraint", ns |-> ds[a].ns, key |-> x.key,
                            value |-> x.constraints[m]]
  <2> SUFFICES ASSUME NEW a \in 1..Len(ds), NEW j \in 1..Len(ds[a].segments)
               PROVE  LET q == SegmentAt(ds, a, j) x == ds[a].segments[j] IN
                      /\ q \in 1..Len(C) /\ C[q] = SegmentHead(ds[a].ns, x)
                      /\ Len(x.constraints) \in Nat
                      /\ \A m \in 1..Len(x.constraints) :
                           /\ q + m \in 1..Len(C)
                           /\ C[q + m] = [op |-> "constraint", ns |-> ds[a].ns, key |-> x.key,
                                          value |-> x.constraints[m]]
      OBVIOUS
  <2> DEFINE q == SegmentAt(ds, a, j)
             x == ds[a].segments[j]
             v == ds[a].ns
  <2>1. SegmentThere(C, DocStart(ds, a), DocLen(ds, a), ds[a], j)
      BY <1>0 DEF Layout, DocPlaces
  <2>2. HeadAt(C, q, SegmentHead(v, x), ConstraintCalls(v, x), Len(x.constraints))
      BY <2>1 DEF SegmentThere, SegmentAt
  <2>3. x \in AnySegment
      BY <1>0, DocumentTypes
  <2> HIDE DEF q, x, v
  <2>4. x.constraints \in Seq(Comparison)
      BY <2>3 DEF AnySegment
  <2>5. DOMAIN x.constraints = 1..Len(x.constraints) /\ Len(x.constraints) \in Nat
      BY <2>4
  <2>6. \A m \in 1..Len(x.constraints) : ConstraintCalls(v, x)[m] =
          [op |-> "constraint", ns |-> v, key |-> x.key, value |-> x.constraints[m]]
      BY <2>5 DEF ConstraintCalls
  <2>7. /\ q \in 1..Len(C) /\ C[q] = SegmentHead(v, x)
        /\ \A m \in 1..Len(x.constraints) :
             q + m \in 1..Len(C) /\ C[q + m] = ConstraintCalls(v, x)[m]
      BY <2>2 DEF HeadAt, PartsAt
  <2>8. /\ q \in 1..Len(C) /\ C[q] = SegmentHead(v, x) /\ Len(x.constraints) \in Nat
        /\ \A m \in 1..Len(x.constraints) :
             /\ q + m \in 1..Len(C)
             /\ C[q + m] = [op |-> "constraint", ns |-> v, key |-> x.key,
                            value |-> x.constraints[m]]
      BY <2>5, <2>6, <2>7
  <2> QED
      BY <2>8 DEF q, x, v
<1>3. ASSUME NEW p \in 1..Len(C), C[p].op = "constraint", C[p].ns = n, C[p].key = s.key
      PROVE  \E m \in 1..l : p = h + m
  <2>1. PICK a \in 1..Len(ds) : OpPlace(C, DocStart(ds, a), ds[a], p)
      BY <1>0 DEF Layout
  <2>2. PICK j \in 1..Len(ds[a].segments) :
          p - SegmentAt(ds, a, j) \in 1..Len(ds[a].segments[j].constraints)
      BY <1>3, <2>1 DEF OpPlace, SegmentAt
  <2> DEFINE q == SegmentAt(ds, a, j)
             m == p - q
  <2>3. q \in 1..Len(C) /\ m \in 1..Len(ds[a].segments[j].constraints) /\ p = q + m
    <3>1. q \in 1..Len(C)
        BY <1>2
    <3> QED
        BY <1>0, <2>2, <3>1
  <2> HIDE DEF m, q
  <2>4. C[q + m] = [op |-> "constraint", ns |-> ds[a].ns, key |-> ds[a].segments[j].key,
                    value |-> ds[a].segments[j].constraints[m]]
      BY <1>2, <2>3 DEF q
  <2>5. ds[a].ns = ds[k].ns /\ ds[a].segments[j].key = ds[k].segments[i].key
      BY <1>3, <2>3, <2>4
  <2>6. a = k /\ j = i
      BY <1>1, <2>5 DEF SegmentsOnce
  <2> QED
      BY <2>3, <2>6 DEF q
<1>4. /\ h \in 1..Len(C) /\ C[h] = SegmentHead(n, s) /\ l \in Nat
      /\ \A m \in 1..l : /\ h + m \in 1..Len(C)
                         /\ C[h + m] = [op |-> "constraint", ns |-> n, key |-> s.key,
                                        value |-> s.constraints[m]]
    BY <1>2
<1> QED
    BY <1>3, <1>4 DEF SegmentMade

\* The constraints of a segment are listed as its document has them.
LEMMA ConstraintsKept ==
    ASSUME NEW t, NEW b, NEW C, NEW ds, Complete(t, b, C, ds),
           NEW k \in 1..Len(ds), NEW i \in 1..Len(ds[k].segments)
    PROVE  ValuesListed(t, ds[k].ns, ds[k].segments[i].key) = ds[k].segments[i].constraints
<1> DEFINE n == ds[k].ns
           s == ds[k].segments[i]
           h == SegmentAt(ds, k, i)
           l == Len(s.constraints)
           row == ConstraintRows(C, b)
           e == [m \in 1..l |-> row[h + m]]
           S == ConstraintsIn(t, n, s.key)
<1>1. /\ h \in 1..Len(C) /\ l \in Nat
      /\ \A m \in 1..l : /\ h + m \in 1..Len(C)
                         /\ C[h + m] = [op |-> "constraint", ns |-> n, key |-> s.key,
                                        value |-> s.constraints[m]]
      /\ \A p \in 1..Len(C) : C[p].op = "constraint" /\ C[p].ns = n /\ C[p].key = s.key =>
           \E m \in 1..l : p = h + m
  <2>1. SegmentMade(C, ds, k, i)
      BY SegmentsMade
  <2> QED
      BY <2>1 DEF SegmentMade
<1>2. s.constraints \in Seq(Comparison)
  <2>1. s \in AnySegment
      BY DocumentTypes DEF Complete
  <2> HIDE DEF s
  <2> QED
      BY <2>1 DEF AnySegment
<1>3. Len(C) \in Nat /\ b \in Nat
    BY DEF Complete
<1>4. t.constraints = {row[p] : p \in PlacesOf(C, Len(C), "constraint")}
    BY CompleteTables DEF RowsOf
<1> HIDE DEF n, s, h, l
<1>5. \A p \in 1..Len(C) : /\ row[p].id = b + p /\ row[p].ns = C[p].ns
                            /\ row[p].segment = C[p].key /\ row[p].value = C[p].value
    BY DEF ConstraintRows, ConstraintRow
<1> HIDE DEF row
<1>a. ASSUME NEW m \in 1..l
      PROVE  /\ h + m \in PlacesOf(C, Len(C), "constraint") /\ e[m] = row[h + m]
             /\ e[m].id = b + (h + m) /\ e[m].value = s.constraints[m]
             /\ e[m].ns = n /\ e[m].segment = s.key
  <2> DEFINE p == h + m
  <2>1. p \in 1..Len(C) /\ C[p] = [op |-> "constraint", ns |-> n, key |-> s.key,
                                   value |-> s.constraints[m]]
      BY <1>1
  <2>2. e[m] = row[p]
      OBVIOUS
  <2> HIDE DEF p
  <2>3. p \in PlacesOf(C, Len(C), "constraint")
      BY <2>1 DEF PlacesOf
  <2>4. row[p].id = b + p /\ row[p].value = s.constraints[m] /\ row[p].ns = n /\ row[p].segment = s.key
      BY <1>5, <2>1
  <2> QED
      BY <2>2, <2>3, <2>4 DEF p
<1>6. S = {e[m] : m \in 1..l}
  <2>1. \A m \in 1..l : e[m] \in S
      BY <1>4, <1>a DEF ConstraintsIn
  <2>2. ASSUME NEW x \in S PROVE \E m \in 1..l : x = e[m]
    <3>1. PICK p \in PlacesOf(C, Len(C), "constraint") : x = row[p]
        BY <1>4 DEF ConstraintsIn
    <3>2. p \in 1..Len(C) /\ C[p].op = "constraint"
        BY DEF PlacesOf
    <3>3. x.ns = n /\ x.segment = s.key
        BY DEF ConstraintsIn
    <3>4. C[p].ns = n /\ C[p].key = s.key
        BY <1>5, <3>1, <3>2, <3>3
    <3>5. PICK m \in 1..l : p = h + m
        BY <1>1, <3>2, <3>4
    <3> QED
        BY <1>a, <3>1, <3>5
  <2> QED
      BY <2>1, <2>2
<1> HIDE DEF e, S
<1>8. DOMAIN ById(S) = 1..l /\ \A m \in 1..l : ById(S)[m] = e[m]
  <2>1. h \in Nat /\ l \in Nat /\ b \in Nat /\ \A m \in 1..l : e[m].id = b + (h + m)
      BY <1>1, <1>3, <1>a
  <2>2. \A m \in 1..l : e[m].id \in Nat
      BY <2>1
  <2>3. \A m, q \in 1..l : m < q => e[m].id < e[q].id
      BY <2>1
  <2>4. InOrder(S, e, l)
      BY <1>6, <2>1, <2>2, <2>3 DEF InOrder
  <2> QED
      BY <2>4, ByIdIs
<1>9. ValuesListed(t, n, s.key) = [m \in DOMAIN ById(S) |-> ById(S)[m].value]
    BY DEF ValuesListed, Constraints, ConstraintsIn, S
<1>10. ValuesListed(t, n, s.key) = [m \in 1..l |-> s.constraints[m]]
    BY <1>8, <1>9, <1>a
<1>11. s.constraints = [m \in 1..l |-> s.constraints[m]]
    BY <1>2 DEF l
<1> QED
    BY <1>10, <1>11 DEF n, s

\* The calls for a rule, and for a flag.
RuleCallsAt(C, ds, k, i, r) ==
    LET n == ds[k].ns f == ds[k].flags[i] x == f.rules[r] h == RuleAt(ds, k, i, r) IN
    /\ h \in 1..Len(C) /\ h <= DocStart(ds, k) + DocLen(ds, k) /\ C[h] = RuleHead(n, f, r)
    /\ Len(x.distributions) \in Nat
    /\ \A m \in 1..Len(x.distributions) :
         /\ h + m \in 1..Len(C)
         /\ C[h + m] = [op |-> "distribution", ns |-> n, flag |-> f.key, keys |-> x.distributions[m]]

FlagCallsAt(C, ds, k, i) ==
    LET n == ds[k].ns f == ds[k].flags[i] h == FlagAt(ds, k, i) q == RolloutsAt(ds, k, i) IN
    /\ h \in 1..Len(C) /\ C[h] = FlagHead(n, f) /\ Len(f.variants) \in Nat
    /\ \A m \in 1..Len(f.variants) :
         /\ h + m \in 1..Len(C)
         /\ C[h + m] = [op |-> "variant", ns |-> n, flag |-> f.key, key |-> f.variants[m]]
    /\ q \in Nat /\ q + Len(f.rollouts) <= DocStart(ds, k) + DocLen(ds, k) /\ Len(f.rollouts) \in Nat
    /\ \A m \in 1..Len(f.rollouts) :
         /\ q + m \in 1..Len(C)
         /\ C[q + m] = [op |-> "rollout", ns |-> n, flag |-> f.key, rollout |-> f.rollouts[m]]
    /\ \A r \in 1..Len(f.rules) : RuleCallsAt(C, ds, k, i, r)
    /\ \A r, t \in 1..Len(f.rules) : r < t => RuleAt(ds, k, i, r) < RuleAt(ds, k, i, t)

LEMMA FlagCallsThere ==
    ASSUME NEW C, NEW ds \in Seq(AnyDocument), Layout(C, ds),
           NEW k \in 1..Len(ds), NEW i \in 1..Len(ds[k].flags)
    PROVE  FlagCallsAt(C, ds, k, i)
<1> DEFINE n == ds[k].ns
           f == ds[k].flags[i]
           h == FlagAt(ds, k, i)
           q == RolloutsAt(ds, k, i)
           e == DocStart(ds, k) + DocLen(ds, k)
           D(r) == f.rules[r].distributions
<1>1. FlagThere(C, DocStart(ds, k), DocLen(ds, k), ds[k], i)
    BY DEF Layout, DocPlaces
<1>2. /\ HeadAt(C, h, FlagHead(n, f), VariantCalls(n, f), Len(f.variants))
      /\ PartsAt(C, q, RolloutCalls(n, f), Len(f.rollouts))
      /\ q \in Nat /\ q + Len(f.rollouts) <= e
      /\ \A r \in 1..Len(f.rules) :
           /\ HeadAt(C, RuleAt(ds, k, i, r), RuleHead(n, f, r),
                     DistributionCalls(n, f, f.rules[r]), Len(D(r)))
           /\ RuleAt(ds, k, i, r) <= e
      /\ \A r, t \in 1..Len(f.rules) : r < t => RuleAt(ds, k, i, r) < RuleAt(ds, k, i, t)
    BY <1>1 DEF FlagThere, FlagAt, RolloutsAt, RuleAt
<1>3. f \in AnyFlag
    BY DocumentTypes
<1> HIDE DEF n, f, h, q, e
<1>4. /\ f.variants \in Seq(VariantKey) /\ f.rollouts \in Seq(AnyRollout) /\ f.rules \in Seq(AnyRule)
    BY <1>3 DEF AnyFlag
<1>5. /\ Len(f.variants) \in Nat /\ Len(f.rollouts) \in Nat /\ DOMAIN f.variants = 1..Len(f.variants)
      /\ DOMAIN f.rollouts = 1..Len(f.rollouts) /\ \A r \in 1..Len(f.rules) : f.rules[r] \in AnyRule
    BY <1>4
<1>6. /\ \A m \in 1..Len(f.variants) : VariantCalls(n, f)[m] =
           [op |-> "variant", ns |-> n, flag |-> f.key, key |-> f.variants[m]]
      /\ \A m \in 1..Len(f.rollouts) : RolloutCalls(n, f)[m] =
           [op |-> "rollout", ns |-> n, flag |-> f.key, rollout |-> f.rollouts[m]]
    BY <1>5 DEF VariantCalls, RolloutCalls
<1>7. /\ h \in 1..Len(C) /\ C[h] = FlagHead(n, f)
      /\ \A m \in 1..Len(f.variants) : h + m \in 1..Len(C) /\ C[h + m] = VariantCalls(n, f)[m]
    BY <1>2 DEF HeadAt, PartsAt
<1>8. \A m \in 1..Len(f.rollouts) : q + m \in 1..Len(C) /\ C[q + m] = RolloutCalls(n, f)[m]
    BY <1>2 DEF PartsAt
<1>9. ASSUME NEW r \in 1..Len(f.rules) PROVE RuleCallsAt(C, ds, k, i, r)
  <2> DEFINE x == f.rules[r]
             g == RuleAt(ds, k, i, r)
  <2>1. HeadAt(C, g, RuleHead(n, f, r), DistributionCalls(n, f, x), Len(x.distributions)) /\ g <= e
      BY <1>2
  <2>2. x \in AnyRule
      BY <1>5
  <2> HIDE DEF x, g
  <2>3. x.distributions \in Seq(SUBSET VariantKey)
      BY <2>2 DEF AnyRule
  <2>4. Len(x.distributions) \in Nat /\ DOMAIN x.distributions = 1..Len(x.distributions)
      BY <2>3
  <2>5. \A m \in 1..Len(x.distributions) : DistributionCalls(n, f, x)[m] =
          [op |-> "distribution", ns |-> n, flag |-> f.key, keys |-> x.distributions[m]]
      BY <2>4 DEF DistributionCalls
  <2>6. /\ g \in 1..Len(C) /\ C[g] = RuleHead(n, f, r)
        /\ \A m \in 1..Len(x.distributions) :
             g + m \in 1..Len(C) /\ C[g + m] = DistributionCalls(n, f, x)[m]
      BY <2>1 DEF HeadAt, PartsAt
  <2>7. /\ g \in 1..Len(C) /\ g <= e /\ C[g] = RuleHead(n, f, r) /\ Len(x.distributions) \in Nat
        /\ \A m \in 1..Len(x.distributions) :
             /\ g + m \in 1..Len(C)
             /\ C[g + m] = [op |-> "distribution", ns |-> n, flag |-> f.key,
                            keys |-> x.distributions[m]]
      BY <2>1, <2>4, <2>5, <2>6
  <2> QED
      BY <2>7 DEF RuleCallsAt, x, g, e, f, n
<1>10. /\ h \in 1..Len(C) /\ C[h] = FlagHead(n, f) /\ Len(f.variants) \in Nat
       /\ \A m \in 1..Len(f.variants) :
            /\ h + m \in 1..Len(C)
            /\ C[h + m] = [op |-> "variant", ns |-> n, flag |-> f.key, key |-> f.variants[m]]
       /\ q \in Nat /\ q + Len(f.rollouts) <= e /\ Len(f.rollouts) \in Nat
       /\ \A m \in 1..Len(f.rollouts) :
            /\ q + m \in 1..Len(C)
            /\ C[q + m] = [op |-> "rollout", ns |-> n, flag |-> f.key, rollout |-> f.rollouts[m]]
    BY <1>2, <1>5, <1>6, <1>7, <1>8
<1> QED
    BY <1>2, <1>9, <1>10 DEF FlagCallsAt, n, f, h, q, e

\* The calls that name a flag are those of its document.
FlagOwns(C, ds, k, i) ==
    LET n == ds[k].ns f == ds[k].flags[i] IN
    \A p \in 1..Len(C) :
      /\ C[p].op = "variant" /\ C[p].ns = n /\ C[p].flag = f.key =>
           \E m \in 1..Len(f.variants) : p = FlagAt(ds, k, i) + m
      /\ C[p].op = "rule" /\ C[p].ns = n /\ C[p].flag = f.key =>
           \E r \in 1..Len(f.rules) : p = RuleAt(ds, k, i, r)
      /\ C[p].op = "rollout" /\ C[p].ns = n /\ C[p].flag = f.key =>
           \E m \in 1..Len(f.rollouts) : p = RolloutsAt(ds, k, i) + m

LEMMA FlagsOwn ==
    ASSUME NEW t, NEW b, NEW C, NEW ds, Complete(t, b, C, ds),
           NEW k \in 1..Len(ds), NEW i \in 1..Len(ds[k].flags)
    PROVE  FlagOwns(C, ds, k, i)
<1> DEFINE n == ds[k].ns
           f == ds[k].flags[i]
<1>0. /\ ds \in Seq(AnyDocument) /\ C \in Seq(AnyCall) /\ Layout(C, ds) /\ Accepted(C, Len(C))
      /\ Len(C) \in Nat
    BY DEF Complete
<1>1. FlagsOnce(C, ds)
    BY <1>0, AllFlagsOnce
<1>2. \A a \in 1..Len(ds) : \A j \in 1..Len(ds[a].flags) : FlagCallsAt(C, ds, a, j)
    BY <1>0, FlagCallsThere
<1>3. \A a \in 1..Len(ds) : \A j \in 1..Len(ds[a].flags) :
        ds[a].ns = n /\ ds[a].flags[j].key = f.key => a = k /\ j = i
    BY <1>1 DEF FlagsOnce
<1> SUFFICES ASSUME NEW p \in 1..Len(C), C[p].ns = n, C[p].flag = f.key
             PROVE  /\ C[p].op = "variant" => \E m \in 1..Len(f.variants) : p = FlagAt(ds, k, i) + m
                    /\ C[p].op = "rule" => \E r \in 1..Len(f.rules) : p = RuleAt(ds, k, i, r)
                    /\ C[p].op = "rollout" =>
                         \E m \in 1..Len(f.rollouts) : p = RolloutsAt(ds, k, i) + m
    BY DEF FlagOwns
<1>4. PICK a \in 1..Len(ds) : OpPlace(C, DocStart(ds, a), ds[a], p)
    BY <1>0 DEF Layout
<1>5. ASSUME C[p].op = "variant" PROVE \E m \in 1..Len(f.variants) : p = FlagAt(ds, k, i) + m
  <2>1. PICK j \in 1..Len(ds[a].flags) :
          p - FlagAt(ds, a, j) \in 1..Len(ds[a].flags[j].variants)
      BY <1>4, <1>5 DEF OpPlace, FlagAt
  <2> DEFINE q == FlagAt(ds, a, j)
             g == ds[a].flags[j]
             m == p - q
  <2>2. /\ q \in 1..Len(C)
        /\ \A y \in 1..Len(g.variants) :
             C[q + y] = [op |-> "variant", ns |-> ds[a].ns, flag |-> g.key, key |-> g.variants[y]]
      BY <1>2 DEF FlagCallsAt
  <2>3. m \in 1..Len(g.variants) /\ p = q + m
      BY <1>0, <2>1, <2>2
  <2>a. C[q + m] = [op |-> "variant", ns |-> ds[a].ns, flag |-> g.key, key |-> g.variants[m]]
      BY <2>2, <2>3
  <2> HIDE DEF m, q, g
  <2>4. C[p].ns = ds[a].ns /\ C[p].flag = g.key
      BY <2>3, <2>a
  <2>5. a = k /\ j = i
      BY <1>3, <2>4 DEF g
  <2> QED
      BY <2>3, <2>5 DEF q, g
<1>6. ASSUME C[p].op = "rule" PROVE \E r \in 1..Len(f.rules) : p = RuleAt(ds, k, i, r)
  <2>1. PICK j \in 1..Len(ds[a].flags) : \E r \in 1..Len(ds[a].flags[j].rules) : p = RuleAt(ds, a, j, r)
      BY <1>4, <1>6 DEF OpPlace, RuleAt
  <2>2. PICK r \in 1..Len(ds[a].flags[j].rules) : p = RuleAt(ds, a, j, r)
      BY <2>1
  <2>3. RuleCallsAt(C, ds, a, j, r)
      BY <1>2 DEF FlagCallsAt
  <2>4. C[p] = RuleHead(ds[a].ns, ds[a].flags[j], r)
      BY <2>2, <2>3 DEF RuleCallsAt
  <2>5. C[p].ns = ds[a].ns /\ C[p].flag = ds[a].flags[j].key
      BY <2>4 DEF RuleHead
  <2>6. a = k /\ j = i
      BY <1>3, <2>5
  <2> QED
      BY <2>2, <2>6
<1>7. ASSUME C[p].op = "rollout" PROVE \E m \in 1..Len(f.rollouts) : p = RolloutsAt(ds, k, i) + m
  <2>1. PICK j \in 1..Len(ds[a].flags) :
          p - RolloutsAt(ds, a, j) \in 1..Len(ds[a].flags[j].rollouts)
      BY <1>4, <1>7 DEF OpPlace, RolloutsAt
  <2> DEFINE q == RolloutsAt(ds, a, j)
             g == ds[a].flags[j]
             m == p - q
  <2>2. /\ q \in Nat
        /\ \A y \in 1..Len(g.rollouts) :
             C[q + y] = [op |-> "rollout", ns |-> ds[a].ns, flag |-> g.key, rollout |-> g.rollouts[y]]
      BY <1>2 DEF FlagCallsAt
  <2>3. m \in 1..Len(g.rollouts) /\ p = q + m
      BY <1>0, <2>1, <2>2
  <2>a. C[q + m] = [op |-> "rollout", ns |-> ds[a].ns, flag |-> g.key, rollout |-> g.rollouts[m]]
      BY <2>2, <2>3
  <2> HIDE DEF m, q, g
  <2>4. C[p].ns = ds[a].ns /\ C[p].flag = g.key
      BY <2>3, <2>a
  <2>5. a = k /\ j = i
      BY <1>3, <2>4 DEF g
  <2> QED
      BY <2>3, <2>5 DEF q, g
<1> QED
    BY <1>5, <1>6, <1>7

\* The variants of a flag are listed as its document has them.
LEMMA VariantsKept ==
    ASSUME NEW t, NEW b, NEW C, NEW ds, Complete(t, b, C, ds),
           NEW k \in 1..Len(ds), NEW i \in 1..Len(ds[k].flags)
    PROVE  KeysListed(FlagVariants(t, ds[k].ns, ds[k].flags[i].key)) = ds[k].flags[i].variants
<1> DEFINE n == ds[k].ns
           f == ds[k].flags[i]
           h == FlagAt(ds, k, i)
           l == Len(f.variants)
           row == VariantRows(C, b)
           e == [m \in 1..l |-> row[h + m]]
           S == VariantsIn(t, n, f.key)
<1>0. Len(C) \in Nat /\ b \in Nat /\ ds \in Seq(AnyDocument) /\ Layout(C, ds)
    BY DEF Complete
<1>1. /\ h \in 1..Len(C) /\ l \in Nat
      /\ \A m \in 1..l : /\ h + m \in 1..Len(C)
                         /\ C[h + m] = [op |-> "variant", ns |-> n, flag |-> f.key,
                                        key |-> f.variants[m]]
  <2>1. FlagCallsAt(C, ds, k, i)
      BY <1>0, FlagCallsThere
  <2> QED
      BY <2>1 DEF FlagCallsAt
<1>2. \A p \in 1..Len(C) : C[p].op = "variant" /\ C[p].ns = n /\ C[p].flag = f.key =>
           \E m \in 1..l : p = h + m
  <2>1. FlagOwns(C, ds, k, i)
      BY FlagsOwn
  <2> QED
      BY <2>1 DEF FlagOwns
<1>3. f.variants \in Seq(VariantKey)
  <2>1. f \in AnyFlag
      BY <1>0, DocumentTypes
  <2> HIDE DEF f
  <2> QED
      BY <2>1 DEF AnyFlag
<1>4. t.variants = {row[p] : p \in PlacesOf(C, Len(C), "variant")}
    BY CompleteTables DEF RowsOf
<1> HIDE DEF n, f, h, l
<1>5. \A p \in 1..Len(C) : /\ row[p].id = b + p /\ row[p].ns = C[p].ns
                            /\ row[p].flag = C[p].flag /\ row[p].key = C[p].key
    BY DEF VariantRows
<1> HIDE DEF row
<1>a. ASSUME NEW m \in 1..l
      PROVE  /\ h + m \in PlacesOf(C, Len(C), "variant") /\ e[m] = row[h + m]
             /\ e[m].id = b + (h + m) /\ e[m].key = f.variants[m]
             /\ e[m].ns = n /\ e[m].flag = f.key
  <2> DEFINE p == h + m
  <2>1. p \in 1..Len(C) /\ C[p] = [op |-> "variant", ns |-> n, flag |-> f.key,
                                   key |-> f.variants[m]]
      BY <1>1
  <2>2. e[m] = row[p]
      OBVIOUS
  <2> HIDE DEF p
  <2>3. p \in PlacesOf(C, Len(C), "variant")
      BY <2>1 DEF PlacesOf
  <2>4. row[p].id = b + p /\ row[p].key = f.variants[m] /\ row[p].ns = n /\ row[p].flag = f.key
      BY <1>5, <2>1
  <2> QED
      BY <2>2, <2>3, <2>4 DEF p
<1>6. S = {e[m] : m \in 1..l}
  <2>1. \A m \in 1..l : e[m] \in S
      BY <1>4, <1>a DEF VariantsIn
  <2>2. ASSUME NEW x \in S PROVE \E m \in 1..l : x = e[m]
    <3>1. PICK p \in PlacesOf(C, Len(C), "variant") : x = row[p]
        BY <1>4 DEF VariantsIn
    <3>2. p \in 1..Len(C) /\ C[p].op = "variant"
        BY DEF PlacesOf
    <3>3. x.ns = n /\ x.flag = f.key
        BY DEF VariantsIn
    <3>4. C[p].ns = n /\ C[p].flag = f.key
        BY <1>5, <3>1, <3>2, <3>3
    <3>5. PICK m \in 1..l : p = h + m
        BY <1>2, <3>2, <3>4
    <3> QED
        BY <1>a, <3>1, <3>5
  <2> QED
      BY <2>1, <2>2
<1> HIDE DEF e, S
<1>8. DOMAIN ById(S) = 1..l /\ \A m \in 1..l : ById(S)[m] = e[m]
  <2>1. h \in Nat /\ l \in Nat /\ b \in Nat /\ \A m \in 1..l : e[m].id = b + (h + m)
      BY <1>0, <1>1, <1>a
  <2>2. \A m \in 1..l : e[m].id \in Nat
      BY <2>1
  <2>3. \A m, q \in 1..l : m < q => e[m].id < e[q].id
      BY <2>1
  <2>4. InOrder(S, e, l)
      BY <1>6, <2>1, <2>2, <2>3 DEF InOrder
  <2> QED
      BY <2>4, ByIdIs
<1>9. KeysListed(FlagVariants(t, n, f.key)) = [m \in DOMAIN ById(S) |-> ById(S)[m].key]
    BY DEF KeysListed, FlagVariants, VariantsIn, S
<1>10. KeysListed(FlagVariants(t, n, f.key)) = [m \in 1..l |-> f.variants[m]]
    BY <1>8, <1>9, <1>a
<1>11. f.variants = [m \in 1..l |-> f.variants[m]]
    BY <1>3 DEF l
<1> QED
    BY <1>10, <1>11 DEF n, f

\* Its rules.
LEMMA RulesKept ==
    ASSUME NEW t, NEW b, NEW C, NEW ds, Complete(t, b, C, ds),
           NEW k \in 1..Len(ds), NEW i \in 1..Len(ds[k].flags)
    PROVE  LET f == ds[k].flags[i]
               s == ByRank(RulesIn(t, ds[k].ns, f.key))
           IN  /\ DOMAIN s = 1..Len(f.rules)
               /\ \A r \in 1..Len(f.rules) : s[r] = RuleRows(C, b)[RuleAt(ds, k, i, r)]
<1> DEFINE n == ds[k].ns
           f == ds[k].flags[i]
           h == [m \in 1..Len(f.rules) |-> RuleAt(ds, k, i, m)]
           l == Len(f.rules)
           row == RuleRows(C, b)
           e == [m \in 1..l |-> row[h[m]]]
           S == RulesIn(t, n, f.key)
<1>0. Len(C) \in Nat /\ b \in Nat /\ ds \in Seq(AnyDocument) /\ Layout(C, ds)
    BY DEF Complete
<1>1. /\ \A m \in 1..l : h[m] \in 1..Len(C) /\ C[h[m]] = RuleHead(n, f, m)
      /\ \A m, q \in 1..l : m < q => h[m] < h[q]
  <2>1. FlagCallsAt(C, ds, k, i)
      BY <1>0, FlagCallsThere
  <2>2. /\ \A r \in 1..Len(f.rules) : RuleCallsAt(C, ds, k, i, r)
        /\ \A r, y \in 1..Len(f.rules) : r < y => RuleAt(ds, k, i, r) < RuleAt(ds, k, i, y)
      BY <2>1 DEF FlagCallsAt
  <2> QED
      BY <2>2 DEF RuleCallsAt
<1>2. \A p \in 1..Len(C) : C[p].op = "rule" /\ C[p].ns = n /\ C[p].flag = f.key =>
           \E m \in 1..l : p = h[m]
  <2>1. FlagOwns(C, ds, k, i)
      BY FlagsOwn
  <2> QED
      BY <2>1 DEF FlagOwns
<1>3. l \in Nat
  <2>1. f \in AnyFlag
      BY <1>0, DocumentTypes
  <2> HIDE DEF f
  <2>2. f.rules \in Seq(AnyRule)
      BY <2>1 DEF AnyFlag
  <2> QED
      BY <2>2
<1>4. t.rules = {row[p] : p \in PlacesOf(C, Len(C), "rule")}
    BY CompleteTables DEF RowsOf
<1> HIDE DEF n, f, h, l
<1>5. \A p \in 1..Len(C) : /\ row[p].id = b + p /\ row[p].ns = C[p].ns
                           /\ row[p].flag = C[p].flag /\ row[p].rank = C[p].rank
    BY DEF RuleRows
<1> HIDE DEF row
<1>a. ASSUME NEW m \in 1..l
      PROVE  /\ h[m] \in PlacesOf(C, Len(C), "rule") /\ e[m] = row[h[m]]
             /\ e[m].id = b + h[m] /\ e[m].ns = n /\ e[m].flag = f.key /\ e[m].rank = m
  <2> DEFINE p == h[m]
  <2>1. p \in 1..Len(C) /\ C[p] = RuleHead(n, f, m)
      BY <1>1
  <2>2. e[m] = row[p]
      OBVIOUS
  <2> HIDE DEF p
  <2>3. p \in PlacesOf(C, Len(C), "rule")
      BY <2>1 DEF PlacesOf, RuleHead
  <2>4. row[p].id = b + p /\ row[p].ns = n /\ row[p].flag = f.key /\ row[p].rank = m
      BY <1>5, <2>1 DEF RuleHead
  <2> QED
      BY <2>2, <2>3, <2>4 DEF p
<1>6. S = {e[m] : m \in 1..l}
  <2>1. \A m \in 1..l : e[m] \in S
      BY <1>4, <1>a DEF RulesIn
  <2>2. ASSUME NEW x \in S PROVE \E m \in 1..l : x = e[m]
    <3>1. PICK p \in PlacesOf(C, Len(C), "rule") : x = row[p]
        BY <1>4 DEF RulesIn
    <3>2. p \in 1..Len(C) /\ C[p].op = "rule"
        BY DEF PlacesOf
    <3>3. x.ns = n /\ x.flag = f.key
        BY DEF RulesIn
    <3>4. C[p].ns = n /\ C[p].flag = f.key
        BY <1>5, <3>1, <3>2, <3>3
    <3>5. PICK m \in 1..l : p = h[m]
        BY <1>2, <3>2, <3>4
    <3> QED
        BY <1>a, <3>1, <3>5
  <2> QED
      BY <2>1, <2>2
<1> HIDE DEF e, S
<1>8. DOMAIN ByRank(S) = 1..l /\ \A m \in 1..l : ByRank(S)[m] = e[m]
  <2>1. \A m \in 1..l : h[m] \in Nat /\ e[m].id = b + h[m]
      BY <1>0, <1>1, <1>a
  <2>2. \A m \in 1..l : e[m].id \in Nat
      BY <1>0, <2>1
  <2>3. \A m, q \in 1..l : m < q => e[m].id < e[q].id
      BY <1>0, <1>1, <2>1
  <2>5. \A m \in 1..l : e[m].rank = m /\ m \in Nat
      BY <1>3, <1>a
  <2>6. \A m \in 1..l : e[m].rank \in Nat
      BY <2>5
  <2>7. \A m, q \in 1..l : m < q => e[m].rank < e[q].rank
      BY <2>5
  <2>4. InRankOrder(S, e, l)
      BY <1>3, <1>6, <2>2, <2>3, <2>6, <2>7 DEF InRankOrder
  <2> QED
      BY <2>4, ByRankIs
<1>9. \A m \in 1..l : ByRank(S)[m] = row[RuleAt(ds, k, i, m)]
    BY <1>8, <1>a DEF h, l
<1> QED
    BY <1>8, <1>9 DEF n, f, S, l, row

\* Its rollouts.
LEMMA RolloutsKept ==
    ASSUME NEW t, NEW b, NEW C, NEW ds, Complete(t, b, C, ds),
           NEW k \in 1..Len(ds), NEW i \in 1..Len(ds[k].flags)
    PROVE  LET f == ds[k].flags[i]
               s == ById(RolloutsIn(t, ds[k].ns, f.key))
           IN  /\ DOMAIN s = 1..Len(f.rollouts)
               /\ \A m \in 1..Len(f.rollouts) : s[m] = RolloutRows(C, b)[RolloutsAt(ds, k, i) + m]
<1> DEFINE n == ds[k].ns
           f == ds[k].flags[i]
           h == RolloutsAt(ds, k, i)
           l == Len(f.rollouts)
           row == RolloutRows(C, b)
           e == [m \in 1..l |-> row[h + m]]
           S == RolloutsIn(t, n, f.key)
<1>0. Len(C) \in Nat /\ b \in Nat /\ ds \in Seq(AnyDocument) /\ Layout(C, ds)
    BY DEF Complete
<1>1. /\ h \in Nat /\ l \in Nat
      /\ \A m \in 1..l : /\ h + m \in 1..Len(C)
                         /\ C[h + m] = [op |-> "rollout", ns |-> n, flag |-> f.key,
                                        rollout |-> f.rollouts[m]]
  <2>1. FlagCallsAt(C, ds, k, i)
      BY <1>0, FlagCallsThere
  <2> QED
      BY <2>1 DEF FlagCallsAt
<1>2. \A p \in 1..Len(C) : C[p].op = "rollout" /\ C[p].ns = n /\ C[p].flag = f.key =>
           \E m \in 1..l : p = h + m
  <2>1. FlagOwns(C, ds, k, i)
      BY FlagsOwn
  <2> QED
      BY <2>1 DEF FlagOwns
<1>4. t.rollouts = {row[p] : p \in PlacesOf(C, Len(C), "rollout")}
    BY CompleteTables DEF RowsOf
<1> HIDE DEF n, f, h, l
<1>5. \A p \in 1..Len(C) : row[p].id = b + p /\ row[p].ns = C[p].ns /\ row[p].flag = C[p].flag
    BY DEF RolloutRows
<1> HIDE DEF row
<1>a. ASSUME NEW m \in 1..l
      PROVE  /\ h + m \in PlacesOf(C, Len(C), "rollout") /\ e[m] = row[h + m]
             /\ e[m].id = b + (h + m) /\ e[m].ns = n /\ e[m].flag = f.key
  <2> DEFINE p == h + m
  <2>1. p \in 1..Len(C) /\ C[p] = [op |-> "rollout", ns |-> n, flag |-> f.key,
                                   rollout |-> f.rollouts[m]]
      BY <1>1
  <2>2. e[m] = row[p]
      OBVIOUS
  <2> HIDE DEF p
  <2>3. p \in PlacesOf(C, Len(C), "rollout")
      BY <2>1 DEF PlacesOf
  <2>4. row[p].id = b + p /\ row[p].ns = n /\ row[p].flag = f.key
      BY <1>5, <2>1
  <2> QED
      BY <2>2, <2>3, <2>4 DEF p
<1>6. S = {e[m] : m \in 1..l}
  <2>1. \A m \in 1..l : e[m] \in S
      BY <1>4, <1>a DEF RolloutsIn
  <2>2. ASSUME NEW x \in S PROVE \E m \in 1..l : x = e[m]
    <3>1. PICK p \in PlacesOf(C, Len(C), "rollout") : x = row[p]
        BY <1>4 DEF RolloutsIn
    <3>2. p \in 1..Len(C) /\ C[p].op = "rollout"
        BY DEF PlacesOf
    <3>3. x.ns = n /\ x.flag = f.key
        BY DEF RolloutsIn
    <3>4. C[p].ns = n /\ C[p].flag = f.key
        BY <1>5, <3>1, <3>2, <3>3
    <3>5. PICK m \in 1..l : p = h + m
        BY <1>2, <3>2, <3>4
    <3> QED
        BY <1>a, <3>1, <3>5
  <2> QED
      BY <2>1, <2>2
<1> HIDE DEF e, S
<1>8. DOMAIN ById(S) = 1..l /\ \A m \in 1..l : ById(S)[m] = e[m]
  <2>1. h \in Nat /\ l \in Nat /\ b \in Nat /\ \A m \in 1..l : e[m].id = b + (h + m)
      BY <1>0, <1>1, <1>a
  <2>2. \A m \in 1..l : e[m].id \in Nat
      BY <2>1
  <2>3. \A m, q \in 1..l : m < q => e[m].id < e[q].id
      BY <2>1
  <2>4. InOrder(S, e, l)
      BY <1>6, <2>1, <2>2, <2>3 DEF InOrder
  <2> QED
      BY <2>4, ByIdIs
<1>9. \A m \in 1..l : ById(S)[m] = row[h + m]
    BY <1>8, <1>a
<1> QED
    BY <1>8, <1>9 DEF n, f, S, l, h, row

LEMMA CompletePlaces ==
    ASSUME NEW t, NEW b, NEW C, NEW ds, Complete(t, b, C, ds)
    PROVE  /\ Len(C) \in Nat /\ b \in Nat /\ \A p \in 1..Len(C) : C[p] \in AnyCall
           /\ \A o : \A p \in PlacesOf(C, Len(C), o) : p \in 1..Len(C) /\ p \in Nat /\ C[p].op = o
<1>1. C \in Seq(AnyCall) /\ b \in Nat
    BY DEF Complete
<1>2. Len(C) \in Nat /\ \A p \in 1..Len(C) : C[p] \in AnyCall /\ p \in Nat
    BY <1>1
<1> QED
    BY <1>1, <1>2 DEF PlacesOf

\* The segments of a rule, and of a rollout.
LEMMA RuleSegmentsKept ==
    ASSUME NEW t, NEW b, NEW C, NEW ds, Complete(t, b, C, ds), NEW p \in PlacesOf(C, Len(C), "rule")
    PROVE  KeysOfRule(t, b + p) = C[p].rule.segments
<1> DEFINE P == PlacesOf(C, Len(C), "rule")
           T == t.ruleSegments
<1>1. b \in Nat /\ \A q \in P : q \in 1..Len(C) /\ q \in Nat
    BY CompletePlaces
<1>2. T = UNION {RuleSegmentRows(C, b)[q] : q \in P}
    BY CompleteTables DEF RowsOf
<1>3. \A q \in P : RuleSegmentRows(C, b)[q] =
        {[rule |-> b + q, ns |-> C[q].ns, segment |-> s] : s \in C[q].rule.segments}
    BY <1>1 DEF RuleSegmentRows, RuleSegments
<1> HIDE DEF P, T
<1>4. p \in P
    BY DEF P
<1>5. ASSUME NEW s \in C[p].rule.segments PROVE s \in KeysOfRule(t, b + p)
  <2> DEFINE x == [rule |-> b + p, ns |-> C[p].ns, segment |-> s]
  <2>1. x \in T /\ x.rule = b + p /\ x.segment = s
      BY <1>2, <1>3, <1>4
  <2> HIDE DEF x
  <2> QED
      BY <2>1 DEF KeysOfRule, T
<1>6. ASSUME NEW s \in KeysOfRule(t, b + p) PROVE s \in C[p].rule.segments
  <2>1. PICK x \in T : x.rule = b + p /\ x.segment = s
      BY DEF KeysOfRule, T
  <2>2. PICK q \in P : x \in RuleSegmentRows(C, b)[q]
      BY <1>2
  <2>3. x.rule = b + q /\ x.segment \in C[q].rule.segments
      BY <1>3, <2>2
  <2>4. q = p
      BY <1>1, <1>4, <2>1, <2>3
  <2> QED
      BY <2>1, <2>3, <2>4
<1> QED
    BY <1>5, <1>6

LEMMA RolloutSegmentsKept ==
    ASSUME NEW t, NEW b, NEW C, NEW ds, Complete(t, b, C, ds),
           NEW p \in PlacesOf(C, Len(C), "rollout")
    PROVE  LET r == RolloutRows(C, b)[p] IN
           /\ KeysOfRollout(t, r) = C[p].rollout.segments
           /\ r.operator = RolloutOperator(C[p].rollout.segments, C[p].rollout.operator)
           /\ C[p].rollout.segments = {} <=> r.operator = "threshold"
<1> DEFINE P == PlacesOf(C, Len(C), "rollout")
           T == t.rolloutSegments
           r == RolloutRows(C, b)[p]
           o == C[p].rollout.operator
           K == C[p].rollout.segments
<1>1. b \in Nat /\ (\A q \in P : q \in 1..Len(C) /\ q \in Nat) /\ C[p] \in AnyCall
      /\ C[p].op = "rollout"
    BY CompletePlaces
<1>2. T = UNION {RolloutSegmentRows(C, b)[q] : q \in P}
    BY CompleteTables DEF RowsOf
<1>3. \A q \in P : RolloutSegmentRows(C, b)[q] =
        {[rollout |-> b + q, ns |-> C[q].ns, segment |-> s] : s \in C[q].rollout.segments}
    BY <1>1 DEF RolloutSegmentRows, RolloutSegments
<1>4. p \in P /\ r.id = b + p /\ r.operator = RolloutOperator(K, o)
    BY <1>1 DEF RolloutRows
<1>5. o # "none"
    BY DEF Complete, Accepted
<1>6. C[p].rollout \in AnyRollout
    BY <1>1, CallTypes
<1>7. (K = {} <=> o \in {"threshold", "none"}) /\ o \in Operators \cup {"threshold", "none"}
    BY <1>6 DEF AnyRollout
<1> HIDE DEF P, T, r, K, o
<1>8. K = {} <=> r.operator = "threshold"
    BY <1>4, <1>5, <1>7 DEF RolloutOperator, SegmentOperator, Operators
<1>9. ASSUME NEW s \in K PROVE s \in KeysOfRollout(t, r)
  <2> DEFINE x == [rollout |-> b + p, ns |-> C[p].ns, segment |-> s]
  <2>1. x \in T /\ x.rollout = b + p /\ x.segment = s
      BY <1>2, <1>3, <1>4 DEF K
  <2>2. r.operator # "threshold"
      BY <1>8
  <2> HIDE DEF x
  <2> QED
      BY <1>4, <2>1, <2>2 DEF KeysOfRollout, T
<1>10. ASSUME NEW s \in KeysOfRollout(t, r) PROVE s \in K
  <2>1. PICK x \in T : x.rollout = r.id /\ x.segment = s
      BY DEF KeysOfRollout, T
  <2>2. PICK q \in P : x \in RolloutSegmentRows(C, b)[q]
      BY <1>2
  <2>3. x.rollout = b + q /\ x.segment \in C[q].rollout.segments
      BY <1>3, <2>2
  <2>4. q = p
      BY <1>1, <1>4, <2>1, <2>3
  <2> QED
      BY <2>1, <2>3, <2>4 DEF K
<1> QED
    BY <1>4, <1>8, <1>9, <1>10 DEF r, K, o

\* The distributions of a rule follow it.
RulePartsAt(C, h) ==
    LET D == C[h].rule.distributions IN
    /\ h \in 1..Len(C) /\ C[h].op = "rule" /\ Len(D) \in Nat /\ D = [m \in 1..Len(D) |-> D[m]]
    /\ \A m \in 1..Len(D) : /\ h + m \in 1..Len(C) /\ C[h + m].op = "distribution"
                            /\ C[h + m].keys = D[m] /\ \A x, y \in D[m] : x = y

LEMMA RulePartsFrom ==
    ASSUME NEW C, NEW ds, NEW k, NEW i, NEW r, RuleCallsAt(C, ds, k, i, r),
           ds[k].flags[i].rules[r] \in AnyRule
    PROVE  RulePartsAt(C, RuleAt(ds, k, i, r))
<1> DEFINE n == ds[k].ns
           f == ds[k].flags[i]
           x == f.rules[r]
           h == RuleAt(ds, k, i, r)
           D == x.distributions
           c(m) == [op |-> "distribution", ns |-> n, flag |-> f.key, keys |-> D[m]]
<1>1. /\ h \in 1..Len(C) /\ C[h] = RuleHead(n, f, r) /\ Len(D) \in Nat
      /\ \A m \in 1..Len(D) : h + m \in 1..Len(C) /\ C[h + m] = c(m)
    BY DEF RuleCallsAt
<1>2. D \in Seq(SUBSET VariantKey) /\ \A m \in DOMAIN D : \A y, z \in D[m] : y = z
    BY DEF AnyRule
<1>3. \A m : c(m).op = "distribution" /\ c(m).keys = D[m]
    OBVIOUS
<1> HIDE DEF n, f, h, x, c
<1>4. C[h].op = "rule" /\ C[h].rule = x
    BY <1>1 DEF RuleHead, x
<1> HIDE DEF D
<1>5. DOMAIN D = 1..Len(D) /\ D = [m \in 1..Len(D) |-> D[m]]
    BY <1>2
<1>6. C[h].rule.distributions = D
    BY <1>4 DEF D
<1>7. \A m \in 1..Len(D) : /\ h + m \in 1..Len(C) /\ C[h + m].op = "distribution"
                           /\ C[h + m].keys = D[m] /\ \A y, z \in D[m] : y = z
  <2> SUFFICES ASSUME NEW m \in 1..Len(D)
               PROVE  /\ h + m \in 1..Len(C) /\ C[h + m].op = "distribution"
                      /\ C[h + m].keys = D[m] /\ \A y, z \in D[m] : y = z
      OBVIOUS
  <2>1. h + m \in 1..Len(C) /\ C[h + m] = c(m)
      BY <1>1
  <2> QED
      BY <1>2, <1>3, <1>5, <2>1
<1>8. RulePartsAt(C, h)
    BY <1>1, <1>4, <1>5, <1>6, <1>7 DEF RulePartsAt
<1> QED
    BY <1>8 DEF h

RuleMade(C, ds, k, i, r) ==
    LET h == RuleAt(ds, k, i, r) x == ds[k].flags[i].rules[r] IN
    /\ x \in AnyRule /\ h \in PlacesOf(C, Len(C), "rule") /\ RulePartsAt(C, h)
    /\ C[h].rule = x /\ C[h].ns = ds[k].ns /\ h <= DocStart(ds, k) + DocLen(ds, k)

LEMMA RuleInDocument ==
    ASSUME NEW t, NEW b, NEW C, NEW ds, Complete(t, b, C, ds), NEW k \in 1..Len(ds),
           NEW i \in 1..Len(ds[k].flags), NEW r \in 1..Len(ds[k].flags[i].rules)
    PROVE  RuleMade(C, ds, k, i, r)
<1>0. ds \in Seq(AnyDocument) /\ Layout(C, ds)
    BY DEF Complete
<1>1. FlagCallsAt(C, ds, k, i)
    BY <1>0, FlagCallsThere
<1>2. RuleCallsAt(C, ds, k, i, r)
    BY <1>1 DEF FlagCallsAt
<1>3. ds[k].flags[i] \in AnyFlag
    BY <1>0, DocumentTypes
<1>4. ds[k].flags[i].rules \in Seq(AnyRule)
    BY <1>3 DEF AnyFlag
<1>5. ds[k].flags[i].rules[r] \in AnyRule
    BY <1>4
<1>6. /\ RuleAt(ds, k, i, r) \in 1..Len(C)
      /\ C[RuleAt(ds, k, i, r)] = RuleHead(ds[k].ns, ds[k].flags[i], r)
    BY <1>2 DEF RuleCallsAt
<1>7. /\ C[RuleAt(ds, k, i, r)].rule = ds[k].flags[i].rules[r]
      /\ C[RuleAt(ds, k, i, r)].ns = ds[k].ns
      /\ C[RuleAt(ds, k, i, r)].op = "rule"
    BY <1>6 DEF RuleHead
<1>8. RulePartsAt(C, RuleAt(ds, k, i, r))
    BY <1>2, <1>5, RulePartsFrom
<1>9. /\ RuleAt(ds, k, i, r) \in PlacesOf(C, Len(C), "rule")
      /\ RuleAt(ds, k, i, r) <= DocStart(ds, k) + DocLen(ds, k)
    BY <1>2, <1>6, <1>7 DEF PlacesOf, RuleCallsAt
<1> QED
    BY <1>5, <1>7, <1>8, <1>9 DEF RuleMade

LEMMA RulePartsThere ==
    ASSUME NEW t, NEW b, NEW C, NEW ds, Complete(t, b, C, ds), NEW h \in PlacesOf(C, Len(C), "rule")
    PROVE  RulePartsAt(C, h)
<1>1. h \in 1..Len(C) /\ C[h].op = "rule" /\ Layout(C, ds)
    BY DEF PlacesOf, Complete
<1>2. PICK a \in 1..Len(ds) : OpPlace(C, DocStart(ds, a), ds[a], h)
    BY <1>1 DEF Layout
<1>3. PICK j \in 1..Len(ds[a].flags) : \E q \in 1..Len(ds[a].flags[j].rules) : h = RuleAt(ds, a, j, q)
    BY <1>1, <1>2 DEF OpPlace, RuleAt
<1>4. PICK q \in 1..Len(ds[a].flags[j].rules) : h = RuleAt(ds, a, j, q)
    BY <1>3
<1>5. RuleMade(C, ds, a, j, q)
    BY RuleInDocument
<1> QED
    BY <1>4, <1>5 DEF RuleMade

\* The rule of a distribution is the one before it.
LEMMA RuleOfDistribution ==
    ASSUME NEW C, Len(C) \in Nat, NEW h, RulePartsAt(C, h),
           NEW m \in 1..Len(C[h].rule.distributions)
    PROVE  RuleBefore(C, h + m) = h
<1> DEFINE l == Len(C[h].rule.distributions)
           p == h + m
<1>1. /\ h \in 1..Len(C) /\ C[h].op = "rule" /\ l \in Nat /\ m \in 1..l
      /\ \A q \in 1..l : h + q \in 1..Len(C) /\ C[h + q].op = "distribution"
    BY DEF RulePartsAt
<1> HIDE DEF l
<1>3. p \in Nat /\ h \in 1..p
    BY <1>1
<1>4. h \in PlacesOf(C, p, "rule")
    BY <1>1, <1>3 DEF PlacesOf
<1>5. ASSUME NEW g \in PlacesOf(C, p, "rule") PROVE g <= h
  <2>1. g \in 1..p /\ C[g].op = "rule"
      BY DEF PlacesOf
  <2>2. ASSUME h < g PROVE FALSE
    <3> DEFINE q == g - h
    <3>1. q \in 1..l /\ g = h + q
        BY <1>1, <2>1, <2>2
    <3> HIDE DEF q
    <3>2. C[h + q].op = "distribution"
        BY <1>1, <3>1
    <3> QED
        BY <2>1, <3>1, <3>2
  <2> QED
      BY <1>1, <2>1, <2>2
<1> HIDE DEF p
<1>6. RuleBefore(C, p) = h
    BY <1>3, <1>4, <1>5, RuleBeforeIs
<1> QED
    BY <1>6 DEF p

LEMMA DistributionPlace ==
    ASSUME NEW t, NEW b, NEW C, NEW ds, Complete(t, b, C, ds),
           NEW p \in PlacesOf(C, Len(C), "distribution")
    PROVE  \E h \in PlacesOf(C, Len(C), "rule") :
             /\ p - h \in 1..Len(C[h].rule.distributions) /\ RuleBefore(C, p) = h
<1>0. p \in 1..Len(C) /\ C[p].op = "distribution" /\ Layout(C, ds) /\ Len(C) \in Nat
    BY DEF PlacesOf, Complete
<1>1. PICK a \in 1..Len(ds) : OpPlace(C, DocStart(ds, a), ds[a], p)
    BY <1>0 DEF Layout
<1>2. PICK j \in 1..Len(ds[a].flags) : \E q \in 1..Len(ds[a].flags[j].rules) :
        p - RuleAt(ds, a, j, q) \in 1..Len(ds[a].flags[j].rules[q].distributions)
    BY <1>0, <1>1 DEF OpPlace, RuleAt
<1>3. PICK q \in 1..Len(ds[a].flags[j].rules) :
        p - RuleAt(ds, a, j, q) \in 1..Len(ds[a].flags[j].rules[q].distributions)
    BY <1>2
<1>a. RuleMade(C, ds, a, j, q)
    BY RuleInDocument
<1> DEFINE h == RuleAt(ds, a, j, q)
           m == p - h
<1>4. /\ h \in PlacesOf(C, Len(C), "rule") /\ RulePartsAt(C, h)
      /\ C[h].rule = ds[a].flags[j].rules[q]
    BY <1>a DEF RuleMade
<1>5. m \in 1..Len(C[h].rule.distributions)
    BY <1>3, <1>4
<1>6. h \in 1..Len(C)
    BY <1>4 DEF PlacesOf
<1> HIDE DEF h
<1>7. p = h + m
    BY <1>0, <1>6
<1>8. RuleBefore(C, h + m) = h
    BY <1>0, <1>4, <1>5, RuleOfDistribution
<1> QED
    BY <1>4, <1>5, <1>7, <1>8

\* The distributions of a rule.
LEMMA DistributionsKept ==
    ASSUME NEW t, NEW b, NEW C, NEW ds, Complete(t, b, C, ds), NEW h \in PlacesOf(C, Len(C), "rule")
    PROVE  VariantsOf(t, RuleRows(C, b)[h]) = C[h].rule.distributions
<1> DEFINE D == C[h].rule.distributions
           l == Len(D)
           row == DistributionRows(C, b)
           e == [m \in 1..l |-> row[h + m]]
           S == DistributionsOf(t, b + h)
           V == VariantRows(C, b)
           P == PlacesOf(C, Len(C), "distribution")
<1>0. Len(C) \in Nat /\ b \in Nat /\ Accepted(C, Len(C)) /\ h \in 1..Len(C) /\ h \in Nat
    BY CompletePlaces DEF Complete
<1>1. RulePartsAt(C, h)
    BY RulePartsThere
<1>3. /\ l \in Nat /\ D = [m \in 1..l |-> D[m]]
      /\ \A m \in 1..l : /\ h + m \in 1..Len(C) /\ C[h + m].op = "distribution"
                         /\ C[h + m].keys = D[m] /\ \A x, y \in D[m] : x = y
    BY <1>1 DEF RulePartsAt
<1>4. \A m \in 1..l : RuleBefore(C, h + m) = h
    BY <1>0, <1>1, RuleOfDistribution
<1>5. \A p \in P : /\ RuleBefore(C, p) \in Nat /\ p \in 1..Len(C)
                   /\ RuleBefore(C, p) = h => \E m \in 1..l : p = h + m
  <2> SUFFICES ASSUME NEW p \in P
               PROVE  /\ RuleBefore(C, p) \in Nat /\ p \in 1..Len(C)
                      /\ RuleBefore(C, p) = h => \E m \in 1..l : p = h + m
      OBVIOUS
  <2>1. PICK g \in PlacesOf(C, Len(C), "rule") :
          p - g \in 1..Len(C[g].rule.distributions) /\ RuleBefore(C, p) = g
      BY DistributionPlace
  <2>2. g \in Nat /\ p \in Nat /\ p \in 1..Len(C)
      BY CompletePlaces
  <2>3. ASSUME g = h PROVE \E m \in 1..l : p = h + m
    <3>1. p - h \in 1..l /\ p = h + (p - h)
        BY <2>1, <2>2, <2>3
    <3> QED
        BY <3>1
  <2> QED
      BY <2>1, <2>2, <2>3
<1>6. t.distributions = {row[p] : p \in P}
    BY CompleteTables DEF RowsOf
<1>7. \A p \in 1..Len(C) : /\ row[p].id = b + p /\ row[p].rule = b + RuleBefore(C, p)
                            /\ row[p].variant = b + (CHOOSE w \in VariantsFor(C, p) : TRUE)
    BY DEF DistributionRows
<1> HIDE DEF D, l, row, P
<1>9. ASSUME NEW m \in 1..l
      PROVE  /\ h + m \in P /\ h + m \in 1..Len(C) /\ e[m] = row[h + m]
             /\ e[m].id = b + (h + m) /\ e[m].rule = b + h
             /\ e[m].variant = b + (CHOOSE w \in VariantsFor(C, h + m) : TRUE)
  <2> DEFINE p == h + m
  <2>1. p \in 1..Len(C) /\ C[p].op = "distribution" /\ RuleBefore(C, p) = h
      BY <1>3, <1>4
  <2>2. e[m] = row[p]
      OBVIOUS
  <2> HIDE DEF p
  <2>3. p \in P
      BY <2>1 DEF P, PlacesOf
  <2>4. /\ row[p].id = b + p /\ row[p].rule = b + h
        /\ row[p].variant = b + (CHOOSE w \in VariantsFor(C, p) : TRUE)
      BY <1>7, <2>1
  <2> QED
      BY <2>1, <2>2, <2>3, <2>4 DEF p
<1>10. S = {e[m] : m \in 1..l}
  <2>1. \A m \in 1..l : e[m] \in S
      BY <1>6, <1>9 DEF DistributionsOf
  <2>2. ASSUME NEW x \in S PROVE \E m \in 1..l : x = e[m]
    <3>1. PICK p \in P : x = row[p]
        BY <1>6 DEF DistributionsOf
    <3>2. x.rule = b + h
        BY DEF DistributionsOf
    <3>3. b + RuleBefore(C, p) = b + h /\ RuleBefore(C, p) \in Nat
        BY <1>5, <1>7, <3>1, <3>2
    <3>4. RuleBefore(C, p) = h
        BY <1>0, <3>3
    <3>5. PICK m \in 1..l : p = h + m
        BY <1>5, <3>4
    <3> QED
        BY <1>9, <3>1, <3>5
  <2> QED
      BY <2>1, <2>2
<1> HIDE DEF e, S
<1>11. DOMAIN ById(S) = 1..l /\ \A m \in 1..l : ById(S)[m] = e[m]
  <2>1. \A m \in 1..l : e[m].id = b + (h + m)
      BY <1>9
  <2>2. \A m \in 1..l : e[m].id \in Nat
      BY <1>0, <1>3, <2>1
  <2>3. \A m, q \in 1..l : m < q => e[m].id < e[q].id
      BY <1>0, <1>3, <2>1
  <2>4. InOrder(S, e, l)
      BY <1>3, <1>10, <2>2, <2>3 DEF InOrder
  <2> QED
      BY <2>4, ByIdIs
<1>12. ASSUME NEW m \in 1..l
       PROVE  {(CHOOSE v \in t.variants : v.id = e[m].variant).key} = D[m]
  <2> DEFINE p == h + m
             W == VariantsFor(C, p)
             w == CHOOSE q \in W : TRUE
             Q == PlacesOf(C, Len(C), "variant")
  <2>1. p \in P /\ p \in 1..Len(C) /\ e[m].variant = b + w
      BY <1>9
  <2>2. W # {}
      BY <1>0, <2>1 DEF Accepted, P
  <2>3. w \in W
      BY <2>2
  <2> HIDE DEF w
  <2>4. w \in PlacesOf(C, p, "variant") /\ C[w].key \in C[p].keys
      BY <2>3 DEF VariantsFor
  <2>5. w \in Q /\ w \in 1..Len(C)
      BY <1>0, <2>1, <2>4 DEF PlacesOf
  <2>6. t.variants = {V[q] : q \in Q} /\ \A q \in Q : q \in 1..Len(C) /\ q \in Nat
      BY <1>0, CompleteTables DEF RowsOf, PlacesOf
  <2>7. \A q \in 1..Len(C) : V[q].id = b + q /\ V[q].key = C[q].key
      BY DEF VariantRows
  <2>8. C[p].keys = D[m] /\ \A x, y \in D[m] : x = y
      BY <1>3
  <2> HIDE DEF V, Q, W, p
  <2>9. \A v \in t.variants : v.id = b + w => v = V[w]
      BY <1>0, <2>5, <2>6, <2>7
  <2>10. V[w] \in t.variants /\ V[w].id = b + w /\ V[w].key = C[w].key
      BY <2>5, <2>6, <2>7
  <2>11. (CHOOSE v \in t.variants : v.id = e[m].variant) = V[w]
      BY <2>1, <2>9, <2>10
  <2>12. D[m] = {C[w].key}
      BY <2>4, <2>8
  <2> QED
      BY <2>10, <2>11, <2>12
<1>13. RuleRows(C, b)[h].id = b + h
    BY <1>0 DEF RuleRows
<1>14. VariantsOf(t, RuleRows(C, b)[h]) =
         [m \in DOMAIN ById(S) |-> {(CHOOSE v \in t.variants : v.id = ById(S)[m].variant).key}]
    BY <1>13 DEF VariantsOf, S
<1> DEFINE Key(x) == {(CHOOSE v \in t.variants : v.id = x.variant).key}
<1>15. \A m \in 1..l : Key(ById(S)[m]) = D[m]
    BY <1>11, <1>12
<1>16. VariantsOf(t, RuleRows(C, b)[h]) = [m \in DOMAIN ById(S) |-> Key(ById(S)[m])]
    BY <1>14
<1> HIDE DEF Key
<1>17. VariantsOf(t, RuleRows(C, b)[h]) = [m \in 1..l |-> D[m]]
    BY <1>11, <1>15, <1>16
<1> QED
    BY <1>3, <1>17 DEF D

-----------------------------------------------------------------------------
(* The segments the documents give, and those the tables have.             *)

SegmentGiven(ds, k, i) ==
    [ns |-> ds[k].ns, key |-> ds[k].segments[i].key, match |-> ds[k].segments[i].match,
     constraints |-> ds[k].segments[i].constraints]
SegmentsGiven(ds, k) == UNION {SnapshotSegments(ds[l]) : l \in 1..k}

LEMMA SegmentsGivenAre ==
    ASSUME NEW ds \in Seq(AnyDocument), NEW k \in 1..Len(ds)
    PROVE  /\ \A i \in 1..Len(ds[k].segments) : SegmentGiven(ds, k, i) \in SnapshotSegments(ds[k])
           /\ \A x \in SnapshotSegments(ds[k]) :
                \E i \in 1..Len(ds[k].segments) : x = SegmentGiven(ds, k, i)
<1>1. DOMAIN ds[k].segments = 1..Len(ds[k].segments)
  <2>1. ds[k].segments \in Seq(AnySegment)
      BY DocumentTypes
  <2> QED
      BY <2>1
<1> QED
    BY <1>1 DEF SnapshotSegments, SegmentGiven

\* The row of a segment.
SegmentKept(t, C, ds, k, i) ==
    LET x == SegmentRows(C)[SegmentAt(ds, k, i)] IN
    /\ x \in t.segments /\ x.ns = ds[k].ns
    /\ SegmentIn(t, ds[k].ns, x) = SegmentGiven(ds, k, i)

LEMMA SegmentRowKept ==
    ASSUME NEW t, NEW b, NEW C, NEW ds, Complete(t, b, C, ds),
           NEW k \in 1..Len(ds), NEW i \in 1..Len(ds[k].segments)
    PROVE  SegmentKept(t, C, ds, k, i)
<1> DEFINE n == ds[k].ns
           s == ds[k].segments[i]
           h == SegmentAt(ds, k, i)
           x == SegmentRows(C)[h]
<1>1. h \in 1..Len(C) /\ C[h] = SegmentHead(n, s)
  <2>1. SegmentMade(C, ds, k, i)
      BY SegmentsMade
  <2> QED
      BY <2>1 DEF SegmentMade
<1>2. t.segments = {SegmentRows(C)[p] : p \in PlacesOf(C, Len(C), "segment")}
    BY CompleteTables DEF RowsOf
<1>3. ValuesListed(t, n, s.key) = s.constraints
    BY ConstraintsKept
<1> HIDE DEF n, s, h
<1>4. h \in PlacesOf(C, Len(C), "segment")
    BY <1>1 DEF PlacesOf, SegmentHead
<1>5. x = [ns |-> n, key |-> s.key, match |-> s.match]
    BY <1>1 DEF SegmentRows, SegmentHead
<1> HIDE DEF x
<1>6. SegmentIn(t, n, x) =
        [ns |-> n, key |-> s.key, match |-> s.match, constraints |-> s.constraints]
    BY <1>3, <1>5 DEF SegmentIn
<1>7. x \in t.segments /\ x.ns = n
    BY <1>2, <1>4, <1>5 DEF x
<1> QED
    BY <1>6, <1>7 DEF SegmentKept, SegmentGiven, n, s, h, x

LEMMA SegmentRowFrom ==
    ASSUME NEW t, NEW b, NEW C, NEW ds, Complete(t, b, C, ds), NEW x \in t.segments
    PROVE  \E k \in 1..Len(ds) : \E i \in 1..Len(ds[k].segments) :
             x = SegmentRows(C)[SegmentAt(ds, k, i)]
<1>1. PICK p \in PlacesOf(C, Len(C), "segment") : x = SegmentRows(C)[p]
    BY CompleteTables DEF RowsOf
<1>2. p \in 1..Len(C) /\ C[p].op = "segment"
    BY DEF PlacesOf
<1>3. PICK k \in 1..Len(ds) : OpPlace(C, DocStart(ds, k), ds[k], p)
    BY <1>2 DEF Complete, Layout
<1>4. PICK i \in 1..Len(ds[k].segments) : p = SegmentAt(ds, k, i)
    BY <1>2, <1>3 DEF OpPlace, SegmentAt
<1> QED
    BY <1>1, <1>4

\* The tables have the segments of all documents, and no others.
LEMMA SegmentsKept ==
    ASSUME NEW t, NEW b, NEW C, NEW ds, Complete(t, b, C, ds), NEW n
    PROVE  SegmentsOf(t, n) = {s \in SegmentsGiven(ds, Len(ds)) : s.ns = n}
<1>0. ds \in Seq(AnyDocument)
    BY DEF Complete
<1>1. SegmentsOf(t, n) = {SegmentIn(t, n, x) : x \in SegmentsIn(t, n)}
    BY SegmentsOfAre
<1>2. ASSUME NEW x \in SegmentsIn(t, n)
      PROVE  SegmentIn(t, n, x) \in SegmentsGiven(ds, Len(ds)) /\ SegmentIn(t, n, x).ns = n
  <2>1. x \in t.segments /\ x.ns = n
      BY DEF SegmentsIn
  <2>2. PICK k \in 1..Len(ds) : \E i \in 1..Len(ds[k].segments) :
          x = SegmentRows(C)[SegmentAt(ds, k, i)]
      BY <2>1, SegmentRowFrom
  <2>3. PICK i \in 1..Len(ds[k].segments) : x = SegmentRows(C)[SegmentAt(ds, k, i)]
      BY <2>2
  <2>4. SegmentKept(t, C, ds, k, i)
      BY SegmentRowKept
  <2>5. SegmentIn(t, n, x) = SegmentGiven(ds, k, i)
      BY <2>1, <2>3, <2>4 DEF SegmentKept
  <2>6. SegmentGiven(ds, k, i) \in SnapshotSegments(ds[k])
      BY <1>0, SegmentsGivenAre
  <2>7. SegmentIn(t, n, x).ns = n
      BY DEF SegmentIn
  <2> QED
      BY <2>5, <2>6, <2>7 DEF SegmentsGiven
<1>3. ASSUME NEW s \in SegmentsGiven(ds, Len(ds)), s.ns = n
      PROVE  \E x \in SegmentsIn(t, n) : s = SegmentIn(t, n, x)
  <2>1. PICK k \in 1..Len(ds) : s \in SnapshotSegments(ds[k])
      BY <1>3 DEF SegmentsGiven
  <2>2. PICK i \in 1..Len(ds[k].segments) : s = SegmentGiven(ds, k, i)
      BY <1>0, <2>1, SegmentsGivenAre
  <2>3. SegmentKept(t, C, ds, k, i)
      BY SegmentRowKept
  <2>4. ds[k].ns = n
      BY <1>3, <2>2 DEF SegmentGiven
  <2> QED
      BY <2>2, <2>3, <2>4 DEF SegmentKept, SegmentsIn
<1> QED
    BY <1>1, <1>2, <1>3

\* The segments of its namespace a document's flags can name: those of the documents
\* up to it.
OwnSegments(ds, k) == {s \in SegmentsGiven(ds, k) : s.ns = ds[k].ns}

\* What a segment, or a flag, is known by.
SegmentName(ds, k, i) == <<ds[k].ns, ds[k].segments[i].key>>
FlagName(ds, k, i) == <<ds[k].ns, ds[k].flags[i].key>>

LEMMA SameSegment ==
    ASSUME NEW C, NEW ds, SegmentsOnce(C, ds), NEW k \in 1..Len(ds), NEW l \in 1..Len(ds),
           NEW i \in 1..Len(ds[k].segments), NEW j \in 1..Len(ds[l].segments),
           SegmentName(ds, k, i) = SegmentName(ds, l, j)
    PROVE  k = l /\ i = j
BY DEF SegmentsOnce, SegmentName

LEMMA SameFlag ==
    ASSUME NEW C, NEW ds, FlagsOnce(C, ds), NEW k \in 1..Len(ds), NEW l \in 1..Len(ds),
           NEW i \in 1..Len(ds[k].flags), NEW j \in 1..Len(ds[l].flags),
           FlagName(ds, k, i) = FlagName(ds, l, j)
    PROVE  k = l /\ i = j
BY DEF FlagsOnce, FlagName

\* The segment that a call names was made for a document up to the call's own.
LEMMA SegmentNamed ==
    ASSUME NEW t, NEW b, NEW C, NEW ds, Complete(t, b, C, ds), NEW k \in 1..Len(ds),
           NEW p \in 1..Len(C), p <= DocStart(ds, k) + DocLen(ds, k), C[p].ns = ds[k].ns,
           NEW key, SegmentBefore(C, p, key)
    PROVE  \E s \in OwnSegments(ds, k) :
             /\ s.key = key
             /\ \A x \in SegmentsOf(t, ds[k].ns) : x.key = key => x = s
<1>0. ds \in Seq(AnyDocument) /\ Layout(C, ds) /\ Accepted(C, Len(C)) /\ Len(C) \in Nat
    BY DEF Complete
<1>1. SegmentsOnce(C, ds)
    BY <1>0, AllSegmentsOnce
<1>2. PICK q \in PlacesOf(C, p, "segment") : C[q].ns = C[p].ns /\ C[q].key = key
    BY DEF SegmentBefore
<1>3. q \in 1..Len(C) /\ q \in Nat /\ q <= p /\ C[q].op = "segment"
    BY <1>0 DEF PlacesOf
<1>4. PICK l \in 1..Len(ds) : OpPlace(C, DocStart(ds, l), ds[l], q)
    BY <1>0, <1>3 DEF Layout
<1>5. PICK j \in 1..Len(ds[l].segments) : q = SegmentAt(ds, l, j)
    BY <1>3, <1>4 DEF OpPlace, SegmentAt
<1>6. SegmentMade(C, ds, l, j)
    BY SegmentsMade
<1>7. C[q] = SegmentHead(ds[l].ns, ds[l].segments[j])
    BY <1>5, <1>6 DEF SegmentMade
<1>8. ds[l].ns = ds[k].ns /\ ds[l].segments[j].key = key
    BY <1>2, <1>7 DEF SegmentHead
<1>9. l \in 1..k
  <2>1. SegmentThere(C, DocStart(ds, l), DocLen(ds, l), ds[l], j)
      BY <1>0 DEF Layout, DocPlaces
  <2>2. DocStart(ds, l) < q
      BY <1>5, <2>1 DEF SegmentThere, SegmentAt
  <2>3. /\ DocStart(ds, l) \in Nat /\ DocStart(ds, k) \in Nat /\ DocLen(ds, k) \in Nat
        /\ k < l => DocStart(ds, k) + DocLen(ds, k) <= DocStart(ds, l)
      BY <1>0 DEF Layout
  <2> DEFINE u == DocStart(ds, l)
             v == DocStart(ds, k)
             w == DocLen(ds, k)
  <2>4. u \in Nat /\ v \in Nat /\ w \in Nat /\ (k < l => v + w <= u) /\ u < q /\ p <= v + w
      BY <2>2, <2>3
  <2> HIDE DEF u, v, w
  <2>5. ~(k < l)
      BY <1>3, <2>4
  <2> QED
      BY <2>5
<1>10. SegmentGiven(ds, l, j) \in SnapshotSegments(ds[l])
    BY <1>0, SegmentsGivenAre
<1>11. SegmentGiven(ds, l, j).ns = ds[k].ns /\ SegmentGiven(ds, l, j).key = key
    BY <1>8 DEF SegmentGiven
<1>12. SegmentGiven(ds, l, j) \in OwnSegments(ds, k)
    BY <1>9, <1>10, <1>11 DEF OwnSegments, SegmentsGiven
<1>13. ASSUME NEW x \in SegmentsOf(t, ds[k].ns), x.key = key
       PROVE  x = SegmentGiven(ds, l, j)
  <2>1. x \in SegmentsGiven(ds, Len(ds)) /\ x.ns = ds[k].ns
      BY SegmentsKept
  <2>2. PICK a \in 1..Len(ds) : x \in SnapshotSegments(ds[a])
      BY <2>1 DEF SegmentsGiven
  <2>3. PICK i \in 1..Len(ds[a].segments) : x = SegmentGiven(ds, a, i)
      BY <1>0, <2>2, SegmentsGivenAre
  <2>4. SegmentName(ds, a, i) = SegmentName(ds, l, j)
      BY <1>8, <1>13, <2>1, <2>3 DEF SegmentGiven, SegmentName
  <2>5. a = l /\ i = j
      BY <1>1, <2>4, SameSegment
  <2> QED
      BY <2>3, <2>5
<1> QED
    BY <1>11, <1>12, <1>13

\* Its segments are the same in the snapshot as in the tables, and a single key is
\* that of a single segment.
Resolved(t, ds, k, keys) ==
    LET S == EvaluatedSegments(OwnSegments(ds, k), keys) IN
    /\ S = EvaluatedSegments(SegmentsOf(t, ds[k].ns), keys)
    /\ Cardinality(keys) = 1 => Cardinality(S) = 1

LEMMA SegmentsResolved ==
    ASSUME NEW t, NEW b, NEW C, NEW ds, Complete(t, b, C, ds), NEW k \in 1..Len(ds),
           NEW p \in 1..Len(C), p <= DocStart(ds, k) + DocLen(ds, k), C[p].ns = ds[k].ns,
           NEW keys \in SUBSET SegmentKey, \A key \in keys : SegmentBefore(C, p, key)
    PROVE  Resolved(t, ds, k, keys)
<1> DEFINE O == OwnSegments(ds, k)
           T == SegmentsOf(t, ds[k].ns)
<1>1. \A key \in keys : \E s \in O : s.key = key /\ \A x \in T : x.key = key => x = s
    BY SegmentNamed
<1>2. O \subseteq T
  <2>1. Len(ds) \in Nat
      BY DEF Complete
  <2>2. SegmentsGiven(ds, k) \subseteq SegmentsGiven(ds, Len(ds))
    <3>1. 1..k \subseteq 1..Len(ds)
        BY <2>1
    <3> QED
        BY <3>1 DEF SegmentsGiven
  <2>3. T = {s \in SegmentsGiven(ds, Len(ds)) : s.ns = ds[k].ns}
      BY SegmentsKept
  <2> QED
      BY <2>2, <2>3 DEF OwnSegments
<1> HIDE DEF O, T
<1>3. EvaluatedSegments(O, keys) = EvaluatedSegments(T, keys)
    BY <1>1, <1>2 DEF EvaluatedSegments
<1>4. ASSUME Cardinality(keys) = 1 PROVE Cardinality(EvaluatedSegments(O, keys)) = 1
  <2>1. IsFiniteSet(keys)
      BY TransferAssumption, FS_Subset
  <2>2. PICK key : keys = {key}
      BY <1>4, <2>1, FS_Singleton
  <2>3. PICK s \in O : s.key = key /\ \A x \in T : x.key = key => x = s
      BY <1>1, <2>2
  <2>4. EvaluatedSegments(O, keys) = {s}
      BY <1>2, <2>2, <2>3 DEF EvaluatedSegments
  <2> QED
      BY <2>4, FS_Singleton
<1> QED
    BY <1>3, <1>4 DEF Resolved, O, T

\* A rule is in the tables what it is in the snapshot.
LEMMA RuleKept ==
    ASSUME NEW t, NEW b, NEW C, NEW ds, Complete(t, b, C, ds), NEW k \in 1..Len(ds),
           NEW i \in 1..Len(ds[k].flags), NEW r \in 1..Len(ds[k].flags[i].rules)
    PROVE  RuleOf(t, ds[k].ns, RuleRows(C, b)[RuleAt(ds, k, i, r)]) =
             SnapshotRule(ds[k].flags[i].rules[r], OwnSegments(ds, k))
<1> DEFINE n == ds[k].ns
           x == ds[k].flags[i].rules[r]
           h == RuleAt(ds, k, i, r)
           row == RuleRows(C, b)[h]
           O == OwnSegments(ds, k)
           T == SegmentsOf(t, n)
<1>0. RuleMade(C, ds, k, i, r)
    BY RuleInDocument
<1>1. /\ x \in AnyRule /\ h \in PlacesOf(C, Len(C), "rule") /\ C[h].rule = x /\ C[h].ns = n
      /\ h <= DocStart(ds, k) + DocLen(ds, k)
    BY <1>0 DEF RuleMade
<1>2. h \in 1..Len(C)
    BY <1>1 DEF PlacesOf
<1>3. VariantsOf(t, row) = x.distributions
    BY <1>1, DistributionsKept
<1>4. KeysOfRule(t, b + h) = x.segments
    BY <1>1, RuleSegmentsKept
<1>5. x.segments \in SUBSET SegmentKey /\ SegmentOperator(x.segments, x.operator) = x.operator
  <2> HIDE DEF x
  <2> QED
      BY <1>1 DEF AnyRule
<1>6. \A key \in x.segments : SegmentBefore(C, h, key)
  <2>1. Accepted(C, Len(C))
      BY DEF Complete
  <2> HIDE DEF x, h
  <2> QED
      BY <1>1, <2>1 DEF Accepted
<1>7. Resolved(t, ds, k, x.segments)
  <2> HIDE DEF x, h
  <2> QED
      BY <1>1, <1>2, <1>5, <1>6, SegmentsResolved DEF n
<1>8. EvaluatedSegments(O, x.segments) = EvaluatedSegments(T, x.segments)
    BY <1>7 DEF Resolved
<1> HIDE DEF n, x, h, O, T
<1>9. row.id = b + h /\ row.operator = x.operator
    BY <1>1, <1>2, <1>5 DEF RuleRows
<1> HIDE DEF row
<1>10. RuleOf(t, n, row) =
         [operator |-> x.operator, segments |-> EvaluatedSegments(O, x.segments),
          distributions |-> x.distributions]
    BY <1>3, <1>4, <1>5, <1>8, <1>9 DEF RuleOf, T
<1>11. SnapshotRule(x, O) =
         [operator |-> x.operator, segments |-> EvaluatedSegments(O, x.segments),
          distributions |-> x.distributions]
    BY DEF SnapshotRule
<1>12. RuleOf(t, n, row) = SnapshotRule(x, O)
    BY <1>10, <1>11
<1> QED
    BY <1>12 DEF n, x, h, row, O

\* A rollout, up to the operator of a single segment.
LEMMA RolloutKept ==
    ASSUME NEW t, NEW b, NEW C, NEW ds, Complete(t, b, C, ds), NEW k \in 1..Len(ds),
           NEW i \in 1..Len(ds[k].flags), NEW m \in 1..Len(ds[k].flags[i].rollouts)
    PROVE  Settled(RolloutOf(t, ds[k].ns, RolloutRows(C, b)[RolloutsAt(ds, k, i) + m])) =
             Settled(SnapshotRollout(ds[k].flags[i].rollouts[m], OwnSegments(ds, k)))
<1> DEFINE n == ds[k].ns
           f == ds[k].flags[i]
           x == f.rollouts[m]
           h == RolloutsAt(ds, k, i) + m
           row == RolloutRows(C, b)[h]
           O == OwnSegments(ds, k)
           T == SegmentsOf(t, n)
<1>0. ds \in Seq(AnyDocument) /\ Layout(C, ds) /\ Accepted(C, Len(C))
    BY DEF Complete
<1>1. FlagCallsAt(C, ds, k, i)
    BY <1>0, FlagCallsThere
<1>2. /\ h \in 1..Len(C)
      /\ C[h] = [op |-> "rollout", ns |-> n, flag |-> f.key, rollout |-> x]
    BY <1>1 DEF FlagCallsAt
<1>3. h <= DocStart(ds, k) + DocLen(ds, k)
  <2> DEFINE q == RolloutsAt(ds, k, i)
             l == Len(f.rollouts)
             z == DocStart(ds, k) + DocLen(ds, k)
  <2>1. q \in Nat /\ q + l <= z /\ l \in Nat
      BY <1>1 DEF FlagCallsAt
  <2>2. z \in Nat /\ m \in 1..l
      BY <1>0 DEF Layout
  <2> HIDE DEF q, l, z
  <2>3. q + m <= z
      BY <2>1, <2>2
  <2> QED
      BY <2>3 DEF q, z
<1>4. x \in AnyRollout
  <2>1. f \in AnyFlag
      BY <1>0, DocumentTypes
  <2> HIDE DEF f
  <2>2. f.rollouts \in Seq(AnyRollout)
      BY <2>1 DEF AnyFlag
  <2> QED
      BY <2>2 DEF f
<1> HIDE DEF x, h, f, n
<1>5. h \in PlacesOf(C, Len(C), "rollout") /\ C[h].rollout = x /\ C[h].ns = n
    BY <1>2 DEF PlacesOf
<1>6. /\ KeysOfRollout(t, row) = x.segments
      /\ row.operator = RolloutOperator(x.segments, x.operator)
      /\ x.segments = {} <=> row.operator = "threshold"
    BY <1>5, RolloutSegmentsKept
<1>7. x.operator # "none" /\ \A key \in x.segments : SegmentBefore(C, h, key)
    BY <1>0, <1>5 DEF Accepted
<1>8. /\ x.segments \in SUBSET SegmentKey
      /\ x.segments = {} <=> x.operator \in {"threshold", "none"}
    BY <1>4 DEF AnyRollout
<1>9. Resolved(t, ds, k, x.segments)
    BY <1>2, <1>3, <1>5, <1>7, <1>8, SegmentsResolved DEF n
<1> DEFINE S == EvaluatedSegments(O, x.segments)
<1>10. S = EvaluatedSegments(T, x.segments) /\ (Cardinality(x.segments) = 1 => Cardinality(S) = 1)
    BY <1>9 DEF Resolved, n
<1> HIDE DEF row, O, T, S
<1> DEFINE e == RolloutOf(t, n, row)
           g == SnapshotRollout(x, O)
<1>11. e = [operator |-> row.operator, segments |-> S]
    BY <1>6, <1>10 DEF RolloutOf, T
<1>12. g = [operator |-> x.operator, segments |-> S]
    BY DEF SnapshotRollout, S
<1>13. Cardinality(S) = 1 \/ row.operator = x.operator
  <2>1. CASE x.segments = {}
      BY <1>6, <1>7, <1>8, <2>1
  <2>2. CASE x.segments # {}
      BY <1>6, <1>10, <2>2 DEF RolloutOperator, SegmentOperator
  <2> QED
      BY <2>1, <2>2
<1> HIDE DEF e, g
<1>14. Settled(e) = [operator |-> IF Cardinality(S) = 1 THEN "OR" ELSE row.operator, segments |-> S]
    BY <1>11 DEF Settled
<1>15. Settled(g) = [operator |-> IF Cardinality(S) = 1 THEN "OR" ELSE x.operator, segments |-> S]
    BY <1>12 DEF Settled
<1>16. Settled(e) = Settled(g)
    BY <1>13, <1>14, <1>15
<1> QED
    BY <1>16 DEF e, g, n, x, f, h, row, O

LEMMA SameEffective ==
    ASSUME NEW n, NEW key, NEW enabled, NEW variants, NEW rules, NEW R, NEW S,
           DOMAIN R = DOMAIN S, \A m \in DOMAIN R : Settled(R[m]) = Settled(S[m])
    PROVE  Effective([ns |-> n, key |-> key, enabled |-> enabled, variants |-> variants,
                      rules |-> rules, rollouts |-> R]) =
           Effective([ns |-> n, key |-> key, enabled |-> enabled, variants |-> variants,
                      rules |-> rules, rollouts |-> S])
<1> DEFINE F(Q) == [ns |-> n, key |-> key, enabled |-> enabled, variants |-> variants,
                    rules |-> rules, rollouts |-> Q]
<1>1. ASSUME NEW Q PROVE Effective(F(Q)) = F([m \in DOMAIN Q |-> Settled(Q[m])])
  <2> DEFINE f == F(Q)
  <2>1. f.rollouts = Q
      OBVIOUS
  <2>2. \A A : [f EXCEPT !.rollouts = A] = F(A)
      OBVIOUS
  <2> HIDE DEF f, F
  <2>3. Effective(f) = [f EXCEPT !.rollouts = [m \in DOMAIN f.rollouts |-> Settled(f.rollouts[m])]]
      BY Zenon DEF Effective
  <2>4. Effective(f) = F([m \in DOMAIN Q |-> Settled(Q[m])])
      BY <2>1, <2>2, <2>3
  <2> QED
      BY <2>4 DEF f
<1>2. [m \in DOMAIN R |-> Settled(R[m])] = [m \in DOMAIN S |-> Settled(S[m])]
    OBVIOUS
<1> HIDE DEF F
<1>3. Effective(F(R)) = Effective(F(S))
    BY <1>1, <1>2
<1> QED
    BY <1>3 DEF F

-----------------------------------------------------------------------------
(* The flags the documents give, and those the tables have.                *)

FlagGiven(ds, k, i) == SnapshotFlag(ds[k].ns, ds[k].flags[i], OwnSegments(ds, k))
FlagsNew(ds, k) == {SnapshotFlag(ds[k].ns, f, OwnSegments(ds, k)) : f \in ToSet(ds[k].flags)}
FlagsGiven(ds, k) == UNION {FlagsNew(ds, l) : l \in 1..k}

LEMMA FlagsNewAre ==
    ASSUME NEW ds \in Seq(AnyDocument), NEW k \in 1..Len(ds)
    PROVE  /\ \A i \in 1..Len(ds[k].flags) : FlagGiven(ds, k, i) \in FlagsNew(ds, k)
           /\ \A x \in FlagsNew(ds, k) : \E i \in 1..Len(ds[k].flags) : x = FlagGiven(ds, k, i)
<1>1. ToSet(ds[k].flags) = {ds[k].flags[i] : i \in 1..Len(ds[k].flags)}
  <2>1. ds[k].flags \in Seq(AnyFlag)
      BY DocumentTypes
  <2> QED
      BY <2>1 DEF ToSet
<1> QED
    BY <1>1 DEF FlagsNew, FlagGiven

\* The rules and rollouts of a flag.
LEMMA StrategiesKept ==
    ASSUME NEW t, NEW b, NEW C, NEW ds, Complete(t, b, C, ds), NEW k \in 1..Len(ds),
           NEW i \in 1..Len(ds[k].flags)
    PROVE  LET n == ds[k].ns f == ds[k].flags[i] O == OwnSegments(ds, k)
               R == RolloutsOf(t, n, f.key)
           IN  /\ RulesOf(t, n, f.key) = [r \in DOMAIN f.rules |-> SnapshotRule(f.rules[r], O)]
               /\ DOMAIN R = DOMAIN f.rollouts
               /\ \A m \in DOMAIN R : Settled(R[m]) = Settled(SnapshotRollout(f.rollouts[m], O))
<1> DEFINE n == ds[k].ns
           f == ds[k].flags[i]
           O == OwnSegments(ds, k)
           rules == ByRank(RulesIn(t, n, f.key))
           rollouts == ById(RolloutsIn(t, n, f.key))
<1>1. /\ DOMAIN rules = 1..Len(f.rules)
      /\ \A r \in 1..Len(f.rules) : rules[r] = RuleRows(C, b)[RuleAt(ds, k, i, r)]
    BY RulesKept
<1>2. /\ DOMAIN rollouts = 1..Len(f.rollouts)
      /\ \A m \in 1..Len(f.rollouts) : rollouts[m] = RolloutRows(C, b)[RolloutsAt(ds, k, i) + m]
    BY RolloutsKept
<1>3. DOMAIN f.rules = 1..Len(f.rules) /\ DOMAIN f.rollouts = 1..Len(f.rollouts)
  <2>1. f \in AnyFlag
      BY DocumentTypes DEF Complete
  <2> HIDE DEF f
  <2>2. f.rules \in Seq(AnyRule) /\ f.rollouts \in Seq(AnyRollout)
      BY <2>1 DEF AnyFlag
  <2> QED
      BY <2>2
<1>4. \A r \in 1..Len(f.rules) : RuleOf(t, n, RuleRows(C, b)[RuleAt(ds, k, i, r)]) =
                                   SnapshotRule(f.rules[r], O)
    BY RuleKept
<1>5. \A m \in 1..Len(f.rollouts) :
        Settled(RolloutOf(t, n, RolloutRows(C, b)[RolloutsAt(ds, k, i) + m])) =
          Settled(SnapshotRollout(f.rollouts[m], O))
    BY RolloutKept
<1> HIDE DEF n, f, O, rules, rollouts
<1>6. \A r \in 1..Len(f.rules) : RuleOf(t, n, rules[r]) = SnapshotRule(f.rules[r], O)
    BY <1>1, <1>4
<1>7. \A m \in 1..Len(f.rollouts) :
        Settled(RolloutOf(t, n, rollouts[m])) = Settled(SnapshotRollout(f.rollouts[m], O))
    BY <1>2, <1>5
<1>8. RulesOf(t, n, f.key) = [r \in DOMAIN rules |-> RuleOf(t, n, rules[r])]
    BY DEF RulesOf, rules
<1>9. RolloutsOf(t, n, f.key) = [m \in DOMAIN rollouts |-> RolloutOf(t, n, rollouts[m])]
    BY DEF RolloutsOf, rollouts
<1>10. RulesOf(t, n, f.key) = [r \in DOMAIN f.rules |-> SnapshotRule(f.rules[r], O)]
    BY <1>1, <1>3, <1>6, <1>8
<1>11. /\ DOMAIN RolloutsOf(t, n, f.key) = DOMAIN f.rollouts
       /\ \A m \in DOMAIN RolloutsOf(t, n, f.key) :
            Settled(RolloutsOf(t, n, f.key)[m]) = Settled(SnapshotRollout(f.rollouts[m], O))
    BY <1>2, <1>3, <1>7, <1>9
<1> QED
    BY <1>10, <1>11 DEF n, f, O

FlagKept(t, C, ds, k, i) ==
    LET x == FlagRows(C)[FlagAt(ds, k, i)] IN
    /\ x \in t.flags /\ x.ns = ds[k].ns
    /\ Effective(FlagIn(t, ds[k].ns, x)) = Effective(FlagGiven(ds, k, i))

LEMMA FlagRowKept ==
    ASSUME NEW t, NEW b, NEW C, NEW ds, Complete(t, b, C, ds),
           NEW k \in 1..Len(ds), NEW i \in 1..Len(ds[k].flags)
    PROVE  FlagKept(t, C, ds, k, i)
<1> DEFINE n == ds[k].ns
           f == ds[k].flags[i]
           h == FlagAt(ds, k, i)
           x == FlagRows(C)[h]
           O == OwnSegments(ds, k)
           R == RolloutsOf(t, n, f.key)
           S == [m \in DOMAIN f.rollouts |-> SnapshotRollout(f.rollouts[m], O)]
           L == [r \in DOMAIN f.rules |-> SnapshotRule(f.rules[r], O)]
<1>1. h \in 1..Len(C) /\ C[h] = FlagHead(n, f)
  <2>1. FlagCallsAt(C, ds, k, i)
      BY FlagCallsThere DEF Complete
  <2> QED
      BY <2>1 DEF FlagCallsAt
<1>2. t.flags = {FlagRows(C)[p] : p \in PlacesOf(C, Len(C), "flag")}
    BY CompleteTables DEF RowsOf
<1>3. KeysListed(FlagVariants(t, n, f.key)) = f.variants
    BY VariantsKept
<1>4. /\ RulesOf(t, n, f.key) = L /\ DOMAIN R = DOMAIN f.rollouts
      /\ \A m \in DOMAIN R : Settled(R[m]) = Settled(SnapshotRollout(f.rollouts[m], O))
    BY StrategiesKept
<1> HIDE DEF n, f, h, O, L, R
<1>5. h \in PlacesOf(C, Len(C), "flag")
    BY <1>1 DEF PlacesOf, FlagHead
<1>6. x = [ns |-> n, key |-> f.key, enabled |-> f.enabled]
    BY <1>1 DEF FlagRows, FlagHead
<1> HIDE DEF x
<1>7. x \in t.flags /\ x.ns = n /\ x.key = f.key /\ x.enabled = f.enabled
    BY <1>2, <1>5, <1>6 DEF x
<1>8. FlagIn(t, n, x) = [ns |-> n, key |-> f.key, enabled |-> f.enabled, variants |-> f.variants,
                         rules |-> L, rollouts |-> R]
    BY <1>3, <1>4, <1>7 DEF FlagIn, R
<1>9. SnapshotFlag(n, f, O) = [ns |-> n, key |-> f.key, enabled |-> f.enabled,
                               variants |-> f.variants, rules |-> L, rollouts |-> S]
    BY DEF SnapshotFlag, L
<1>10. DOMAIN R = DOMAIN S /\ \A m \in DOMAIN R : Settled(R[m]) = Settled(S[m])
    BY <1>4
<1> HIDE DEF S
<1>11. Effective(FlagIn(t, n, x)) = Effective(SnapshotFlag(n, f, O))
    BY <1>8, <1>9, <1>10, SameEffective
<1> QED
    BY <1>7, <1>11 DEF FlagKept, FlagGiven, n, f, h, x, O

LEMMA FlagRowFrom ==
    ASSUME NEW t, NEW b, NEW C, NEW ds, Complete(t, b, C, ds), NEW x \in t.flags
    PROVE  \E k \in 1..Len(ds) : \E i \in 1..Len(ds[k].flags) : x = FlagRows(C)[FlagAt(ds, k, i)]
<1>1. PICK p \in PlacesOf(C, Len(C), "flag") : x = FlagRows(C)[p]
    BY CompleteTables DEF RowsOf
<1>2. p \in 1..Len(C) /\ C[p].op = "flag"
    BY DEF PlacesOf
<1>3. PICK k \in 1..Len(ds) : OpPlace(C, DocStart(ds, k), ds[k], p)
    BY <1>2 DEF Complete, Layout
<1>4. PICK i \in 1..Len(ds[k].flags) : p = FlagAt(ds, k, i)
    BY <1>2, <1>3 DEF OpPlace, FlagAt
<1> QED
    BY <1>1, <1>4

SameFlags(F, t, n) ==
    {Effective(x) : x \in {x \in F : x.ns = n}} = {Effective(x) : x \in FlagsOf(t, n)}

\* The tables have the flags of all documents, and no others.
LEMMA FlagsKept ==
    ASSUME NEW t, NEW b, NEW C, NEW ds, Complete(t, b, C, ds), NEW n
    PROVE  SameFlags(FlagsGiven(ds, Len(ds)), t, n)
<1> DEFINE G == {x \in FlagsGiven(ds, Len(ds)) : x.ns = n}
<1>0. ds \in Seq(AnyDocument)
    BY DEF Complete
<1>1. FlagsOf(t, n) = {FlagIn(t, n, x) : x \in FlagsIn(t, n)}
    BY FlagsOfAre
<1>2. ASSUME NEW x \in FlagsIn(t, n)
      PROVE  \E g \in G : Effective(FlagIn(t, n, x)) = Effective(g)
  <2>1. x \in t.flags /\ x.ns = n
      BY DEF FlagsIn
  <2>2. PICK k \in 1..Len(ds) : \E i \in 1..Len(ds[k].flags) :
          x = FlagRows(C)[FlagAt(ds, k, i)]
      BY <2>1, FlagRowFrom
  <2>3. PICK i \in 1..Len(ds[k].flags) : x = FlagRows(C)[FlagAt(ds, k, i)]
      BY <2>2
  <2>4. FlagKept(t, C, ds, k, i)
      BY FlagRowKept
  <2>5. ds[k].ns = n /\ Effective(FlagIn(t, n, x)) = Effective(FlagGiven(ds, k, i))
      BY <2>1, <2>3, <2>4 DEF FlagKept
  <2>6. FlagGiven(ds, k, i) \in FlagsNew(ds, k)
      BY <1>0, FlagsNewAre
  <2>7. FlagGiven(ds, k, i).ns = n
      BY <2>5 DEF FlagGiven, SnapshotFlag
  <2>8. FlagGiven(ds, k, i) \in G
      BY <2>6, <2>7 DEF FlagsGiven
  <2> QED
      BY <2>5, <2>8
<1>3. ASSUME NEW g \in G
      PROVE  \E x \in FlagsIn(t, n) : Effective(g) = Effective(FlagIn(t, n, x))
  <2>1. PICK k \in 1..Len(ds) : g \in FlagsNew(ds, k)
      BY DEF FlagsGiven
  <2>2. PICK i \in 1..Len(ds[k].flags) : g = FlagGiven(ds, k, i)
      BY <1>0, <2>1, FlagsNewAre
  <2>3. FlagKept(t, C, ds, k, i)
      BY FlagRowKept
  <2>4. ds[k].ns = n
      BY <2>2 DEF FlagGiven, SnapshotFlag
  <2> QED
      BY <2>2, <2>3, <2>4 DEF FlagKept, FlagsIn
<1> HIDE DEF G
<1>4. {Effective(x) : x \in G} = {Effective(x) : x \in FlagsOf(t, n)}
    BY <1>1, <1>2, <1>3
<1> QED
    BY <1>4 DEF SameFlags, G

-----------------------------------------------------------------------------
(* The snapshot of the documents: no key is given twice, so nothing in it  *)
(* is ever replaced.                                                       *)

AllLoadable(ds, k) ==
    \A l \in 1..k : Validated(ds[l]) /\ \A f \in ToSet(ds[l].flags) : Resolvable(f, OwnSegments(ds, l))

Given(ds, k) ==
    [ok |-> AllLoadable(ds, k), segments |-> SegmentsGiven(ds, k), flags |-> FlagsGiven(ds, k)]

Once(C, ds) == ds \in Seq(AnyDocument) /\ SegmentsOnce(C, ds) /\ FlagsOnce(C, ds)

\* What is new takes no key.
LEMMA NothingReplaced ==
    ASSUME NEW C, NEW ds, Once(C, ds), NEW k \in 1..Len(ds)
    PROVE  /\ \A x \in SegmentsGiven(ds, k - 1), y \in SnapshotSegments(ds[k]) :
                ~(y.ns = x.ns /\ y.key = x.key)
           /\ \A x \in FlagsGiven(ds, k - 1), y \in FlagsNew(ds, k) : ~(y.ns = x.ns /\ y.key = x.key)
<1>0. ds \in Seq(AnyDocument) /\ SegmentsOnce(C, ds) /\ FlagsOnce(C, ds) /\ Len(ds) \in Nat
    BY DEF Once
<1>1. \A l \in 1..(k - 1) : l \in 1..Len(ds) /\ l # k
    BY <1>0
<1>2. ASSUME NEW x \in SegmentsGiven(ds, k - 1), NEW y \in SnapshotSegments(ds[k]),
             y.ns = x.ns, y.key = x.key
      PROVE  FALSE
  <2>1. PICK l \in 1..(k - 1) : x \in SnapshotSegments(ds[l])
      BY DEF SegmentsGiven
  <2>2. l \in 1..Len(ds) /\ l # k
      BY <1>1
  <2>3. PICK i \in 1..Len(ds[l].segments) : x = SegmentGiven(ds, l, i)
      BY <1>0, <2>1, <2>2, SegmentsGivenAre
  <2>4. PICK j \in 1..Len(ds[k].segments) : y = SegmentGiven(ds, k, j)
      BY <1>0, SegmentsGivenAre
  <2>5. SegmentName(ds, l, i) = SegmentName(ds, k, j)
      BY <1>2, <2>3, <2>4 DEF SegmentGiven, SegmentName
  <2>6. l = k /\ i = j
    <3>1. SegmentsOnce(C, ds)
        BY <1>0
    <3> QED
        BY <2>2, <2>5, <3>1, SameSegment
  <2> QED
      BY <2>2, <2>6
<1>3. ASSUME NEW x \in FlagsGiven(ds, k - 1), NEW y \in FlagsNew(ds, k), y.ns = x.ns, y.key = x.key
      PROVE  FALSE
  <2>1. PICK l \in 1..(k - 1) : x \in FlagsNew(ds, l)
      BY DEF FlagsGiven
  <2>2. l \in 1..Len(ds) /\ l # k
      BY <1>1
  <2>3. PICK i \in 1..Len(ds[l].flags) : x = FlagGiven(ds, l, i)
      BY <1>0, <2>1, <2>2, FlagsNewAre
  <2>4. PICK j \in 1..Len(ds[k].flags) : y = FlagGiven(ds, k, j)
      BY <1>0, FlagsNewAre
  <2>5. FlagName(ds, l, i) = FlagName(ds, k, j)
      BY <1>3, <2>3, <2>4 DEF FlagGiven, SnapshotFlag, FlagName
  <2>6. l = k /\ i = j
    <3>1. FlagsOnce(C, ds)
        BY <1>0
    <3> QED
        BY <2>2, <2>5, <3>1, SameFlag
  <2> QED
      BY <2>2, <2>6
<1> QED
    BY <1>2, <1>3

LEMMA DocumentAdded ==
    ASSUME NEW C, NEW ds, Once(C, ds), NEW k \in 1..Len(ds)
    PROVE  AddDoc(Given(ds, k - 1), ds[k]) = Given(ds, k)
<1> DEFINE ss == Given(ds, k - 1)
           d == ds[k]
           segments == Replacing(ss.segments, SnapshotSegments(d))
           own == {s \in segments : s.ns = d.ns}
           ok == ss.ok /\ Validated(d) /\ \A f \in ToSet(d.flags) : Resolvable(f, own)
           flags == Replacing(ss.flags, {SnapshotFlag(d.ns, f, own) : f \in ToSet(d.flags)})
<1>0. /\ \A l \in 1..k : l \in 1..(k - 1) \/ l = k
      /\ k \in 1..k /\ \A l \in 1..(k - 1) : l \in 1..k
    OBVIOUS
<1>1. /\ ss.ok = AllLoadable(ds, k - 1) /\ ss.segments = SegmentsGiven(ds, k - 1)
      /\ ss.flags = FlagsGiven(ds, k - 1)
    BY DEF Given
<1>2. AddDoc(ss, d) = [ok |-> ok, segments |-> segments, flags |-> flags]
    BY DEF AddDoc
<1> HIDE DEF ss
<1>3. segments = SegmentsGiven(ds, k)
  <2>1. SegmentsGiven(ds, k) = SegmentsGiven(ds, k - 1) \cup SnapshotSegments(ds[k])
      BY <1>0 DEF SegmentsGiven
  <2>2. \A x \in SegmentsGiven(ds, k - 1), y \in SnapshotSegments(ds[k]) :
          ~(y.ns = x.ns /\ y.key = x.key)
      BY NothingReplaced
  <2> QED
      BY <1>1, <2>1, <2>2 DEF Replacing
<1> HIDE DEF segments
<1>4. own = OwnSegments(ds, k)
    BY <1>3 DEF OwnSegments
<1> HIDE DEF own
<1>5. flags = FlagsGiven(ds, k)
  <2>1. FlagsGiven(ds, k) = FlagsGiven(ds, k - 1) \cup FlagsNew(ds, k)
      BY <1>0 DEF FlagsGiven
  <2>2. \A x \in FlagsGiven(ds, k - 1), y \in FlagsNew(ds, k) : ~(y.ns = x.ns /\ y.key = x.key)
      BY NothingReplaced
  <2>3. flags = Replacing(FlagsGiven(ds, k - 1), FlagsNew(ds, k))
      BY <1>1, <1>4 DEF FlagsNew
  <2> QED
      BY <2>1, <2>2, <2>3 DEF Replacing
<1>6. ok = AllLoadable(ds, k)
  <2>1. ok <=> AllLoadable(ds, k - 1) /\ Validated(d) /\ \A f \in ToSet(d.flags) : Resolvable(f, own)
      BY <1>1
  <2>2. AllLoadable(ds, k) <=>
          AllLoadable(ds, k - 1) /\ Validated(d) /\ \A f \in ToSet(d.flags) : Resolvable(f, own)
      BY <1>0, <1>4 DEF AllLoadable
  <2>3. ok \in BOOLEAN /\ AllLoadable(ds, k) \in BOOLEAN
      BY DEF AllLoadable
  <2> QED
      BY <2>1, <2>2, <2>3
<1> HIDE DEF ok, flags, d
<1>7. AddDoc(ss, d) = Given(ds, k)
    BY <1>2, <1>3, <1>5, <1>6 DEF Given
<1> QED
    BY <1>7 DEF ss, d

LEMMA SnapshotOfOnce ==
    ASSUME NEW C, NEW ds, Once(C, ds)
    PROVE  SnapshotOf(ds) = Given(ds, Len(ds))
<1> DEFINE g == [k \in 0..Len(ds) |-> Given(ds, k)]
<1>0. ds \in Seq(AnyDocument) /\ Len(ds) \in Nat
    BY DEF Once
<1>1. g[0] = NoSnapshot
  <2>1. g[0] = Given(ds, 0)
      BY <1>0
  <2>2. 1..0 = {}
      OBVIOUS
  <2>3. SegmentsGiven(ds, 0) = {} /\ FlagsGiven(ds, 0) = {} /\ AllLoadable(ds, 0) = TRUE
      BY <2>2 DEF SegmentsGiven, FlagsGiven, AllLoadable
  <2> QED
      BY <2>1, <2>3 DEF Given, NoSnapshot
<1>2. ASSUME NEW k \in 1..Len(ds) PROVE g[k] = AddDoc(g[k - 1], ds[k])
  <2>1. g[k] = Given(ds, k) /\ g[k - 1] = Given(ds, k - 1)
      BY <1>0
  <2> HIDE DEF g
  <2> QED
      BY <2>1, DocumentAdded
<1>3. g = [k \in 0..Len(ds) |-> g[k]] /\ g[Len(ds)] = Given(ds, Len(ds))
    BY <1>0
<1> HIDE DEF g
<1> QED
    BY <1>0, <1>1, <1>2, <1>3, SnapshotIs

LEMMA CompleteAgrees ==
    ASSUME NEW t, NEW b, NEW C, NEW ds, Complete(t, b, C, ds), NEW n
    PROVE  Agrees(SnapshotOf(ds), t, n)
<1>1. Once(C, ds)
    BY AllSegmentsOnce, AllFlagsOnce DEF Complete, Once
<1>2. SnapshotOf(ds) = Given(ds, Len(ds))
    BY <1>1, SnapshotOfOnce
<1>3. /\ SnapshotOf(ds).segments = SegmentsGiven(ds, Len(ds))
      /\ SnapshotOf(ds).flags = FlagsGiven(ds, Len(ds))
    BY <1>2 DEF Given
<1>4. SegmentsOf(t, n) = {s \in SegmentsGiven(ds, Len(ds)) : s.ns = n}
    BY SegmentsKept
<1>5. SameFlags(FlagsGiven(ds, Len(ds)), t, n)
    BY FlagsKept
<1> QED
    BY <1>3, <1>4, <1>5 DEF SameFlags, Agrees

\* An import without calls left is complete.
LEMMA ImportedComplete ==
    ASSUME ImportInv, DocInv, phase = "imported"
    PROVE  \E b : Complete(target, b, AllCalls(docs), docs)
<1> DEFINE C == AllCalls(docs)
<1>1. docs \in Seq(AnyDocument) /\ calls = <<>> /\ Progress(target, created, made, calls, C)
    BY DEF ImportInv, DocInv
<1>2. Layout(C, docs)
    BY <1>1, LayoutHolds
<1>3. C \in Seq(AnyCall) /\ Len(C) \in Nat
    BY <1>2 DEF Layout
<1> HIDE DEF C
<1>4. PICK j \in 0..Len(C) :
        /\ Remaining(calls, C, j)
        /\ Doomed(target, C, j) \/ \E b \in Nat : HasMade(target, created, made, C, b, j)
    BY <1>1 DEF Progress
<1>5. j = Len(C)
  <2>1. Len(calls) = 0 /\ Len(calls) = Len(C) - j
      BY <1>1, <1>4 DEF Remaining
  <2> QED
      BY <1>3, <2>1
<1>6. ~Doomed(target, C, j)
    BY <1>3, <1>5 DEF Doomed
<1>7. PICK b \in Nat : HasMade(target, created, made, C, b, Len(C))
    BY <1>4, <1>5, <1>6
<1>8. Complete(target, b, C, docs)
    BY <1>1, <1>2, <1>3, <1>7 DEF Complete, HasMade
<1> QED
    BY <1>8 DEF C

\* Import: an import that ends without an error has created what its files say and
\* nothing else, for any files an export can write, on a store that changed or not, and
\* after any number of interrupted attempts: an attempt that starts over what another
\* one left meets a key that is taken.
THEOREM ImportIsFaithful == TransferSpec => []ImportFaithful
<1>1. ASSUME ImportInv, DocInv PROVE ImportFaithful
  <2> SUFFICES ASSUME phase = "imported", NEW k \in DOMAIN docs
               PROVE  Agrees(SnapshotOf(docs), target, docs[k].ns)
      BY DEF ImportFaithful
  <2>1. PICK b : Complete(target, b, AllCalls(docs), docs)
      BY <1>1, ImportedComplete
  <2> QED
      BY <2>1, CompleteAgrees
<1> QED
    BY <1>1, ImportInvariance, DocInvariance, PTL

=============================================================================
