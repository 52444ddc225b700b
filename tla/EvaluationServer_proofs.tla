----------------------- MODULE EvaluationServer_proofs -----------------------
(***************************************************************************)
(* Proofs about evaluation, for any flags, entities, references and        *)
(* constraints.  The provers know no induction over numbers; it is had     *)
(* from the library's theorem that every set of naturals has a least       *)
(* element, with the set of the numbers at which a claim holds.            *)
(***************************************************************************)
EXTENDS EvaluationServer, FiniteSetTheorems, WellFoundedInduction, TLAPS

LEMMA LeastExists ==
    ASSUME NEW S, S \subseteq Nat, S # {}
    PROVE  \E x \in S : \A y \in S : x <= y
<1> DEFINE R == OpToRel(<, Nat)
<1>1. IsWellFoundedOn(R, Nat)
    BY NatLessThanWellFounded
<1>2. \A x, y \in Nat : <<y, x>> \notin R => x <= y
    BY DEF OpToRel
<1> HIDE DEF R
<1>3. PICK x \in S : \A y \in S : <<y, x>> \notin R
    BY <1>1, WFMin
<1>4. ASSUME NEW y \in S PROVE x <= y
  <2>1. x \in Nat /\ y \in Nat
      OBVIOUS
  <2>2. <<y, x>> \notin R
      BY <1>3
  <2> QED
      BY <1>2, <2>1, <2>2
<1> QED
    BY <1>4

LEMMA MinLeast ==
    ASSUME NEW S, S \subseteq Nat, S # {}
    PROVE  Min(S) \in S /\ \A y \in S : Min(S) <= y
BY LeastExists DEF Min

\* What is in S and no later than anything in S is its minimum.
LEMMA MinIs ==
    ASSUME NEW S, S \subseteq Nat, NEW x \in S, \A y \in S : x <= y
    PROVE  Min(S) = x
<1>1. Min(S) \in S /\ \A y \in S : Min(S) <= y
    BY MinLeast
<1>2. x \in Nat /\ Min(S) \in Nat
    BY <1>1
<1>3. x <= Min(S) /\ Min(S) <= x
    BY <1>1
<1> QED
    BY <1>2, <1>3

Inductive(S, n) == 0 \in S /\ \A m \in 0..(n - 1) : m \in S => m + 1 \in S

LEMMA UpTo ==
    ASSUME NEW n \in Nat, NEW S, Inductive(S, n)
    PROVE  \A m \in 0..n : m \in S
<1> SUFFICES ASSUME (0..n) \ S # {} PROVE FALSE
    OBVIOUS
<1> DEFINE T == (0..n) \ S
<1> USE DEF Inductive
<1>1. PICK x \in T : \A y \in T : x <= y
  <2>1. T \subseteq Nat /\ T # {}
      OBVIOUS
  <2> HIDE DEF T
  <2> QED
      BY <2>1, LeastExists
<1>2. x - 1 \in 0..(n - 1) /\ x - 1 \in S
    BY <1>1
<1>3. (x - 1) + 1 \in S
    BY <1>2
<1> QED
    BY <1>1, <1>3

----------------------------------------------------------------------------
(* Loops: a function that is defined from its previous value exists.       *)

IsLoop(g, n, T, init, step) ==
    g \in [0..n -> T] /\ g[0] = init /\ \A i \in 1..n : g[i] = step[i][g[i - 1]]

LEMMA LoopExists ==
    ASSUME NEW T, NEW n \in Nat, NEW init \in T, NEW step \in [1..n -> [T -> T]]
    PROVE  \E g : IsLoop(g, n, T, init, step)
<1> DEFINE Runs(m, g) == g[0] = init /\ \A i \in 1..m : g[i] = step[i][g[i - 1]]
           S == {m \in 0..n : \E g \in [0..m -> T] : Runs(m, g)}
<1>1. 0 \in S
  <2>1. [i \in 0..0 |-> init] \in [0..0 -> T] /\ Runs(0, [i \in 0..0 |-> init])
      OBVIOUS
  <2>2. \E g \in [0..0 -> T] : Runs(0, g)
      BY <2>1, Zenon
  <2>3. 0 \in 0..n
      OBVIOUS
  <2> QED
      BY <2>2, <2>3, Zenon
<1>2. ASSUME NEW m \in 0..(n - 1), m \in S PROVE m + 1 \in S
  <2> SUFFICES \E g \in [0..(m + 1) -> T] : Runs(m + 1, g)
      OBVIOUS
  <2>1. PICK g \in [0..m -> T] : Runs(m, g)
      BY <1>2
  <2> DEFINE h == [i \in 0..(m + 1) |-> IF i = m + 1 THEN step[m + 1][g[m]] ELSE g[i]]
  <2>2. step[m + 1][g[m]] \in T
      OBVIOUS
  <2>3. h \in [0..(m + 1) -> T]
      BY <2>2
  <2>4. h[0] = init
      BY <2>1
  <2>5. ASSUME NEW i \in 1..(m + 1) PROVE h[i] = step[i][h[i - 1]]
      BY <2>1
  <2> QED
      BY <2>3, <2>4, <2>5
<1>3. Inductive(S, n)
    BY <1>1, <1>2 DEF Inductive
<1>4. n \in S
  <2> HIDE DEF S
  <2> QED
      BY <1>3, UpTo
<1> QED
    BY <1>4 DEF IsLoop

LEMMA TotalsDef ==
    ASSUME NEW a \in Seq(Nat)
    PROVE  /\ Totals(a) \in [0..Len(a) -> Nat]
           /\ Totals(a)[0] = 0
           /\ \A i \in 1..Len(a) : Totals(a)[i] = Totals(a)[i - 1] + a[i]
<1> DEFINE step == [i \in 1..Len(a) |-> [x \in Nat |-> x + a[i]]]
           D(t) == [i \in 0..Len(a) |-> IF i = 0 THEN 0 ELSE t[i - 1] + a[i]]
<1>1. Len(a) \in Nat /\ 0 \in Nat /\ step \in [1..Len(a) -> [Nat -> Nat]]
    OBVIOUS
<1>2. PICK g : IsLoop(g, Len(a), Nat, 0, step)
    BY <1>1, LoopExists
<1>3. ASSUME NEW i \in 1..Len(a) PROVE g[i] = g[i - 1] + a[i]
  <2>a. i - 1 \in 0..Len(a)
      OBVIOUS
  <2>b. g \in [0..Len(a) -> Nat]
      BY <1>2 DEF IsLoop
  <2>1. i - 1 \in 0..Len(a) /\ g[i - 1] \in Nat
      BY <2>a, <2>b
  <2> QED
      BY <1>2, <2>1 DEF IsLoop
<1>4. g = D(g)
    BY <1>2, <1>3 DEF IsLoop
<1>5. Totals(a) = CHOOSE t : t = D(t)
    BY DEF Totals
<1>6. Totals(a) = D(Totals(a))
    BY <1>4, <1>5
<1>7. Totals(a)[0] = 0 /\ \A i \in 1..Len(a) : Totals(a)[i] = Totals(a)[i - 1] + a[i]
    BY <1>6
<1>8. \A m \in 0..Len(a) : Totals(a)[m] \in Nat
  <2> DEFINE S == {m \in 0..Len(a) : Totals(a)[m] \in Nat}
  <2>1. 0 \in S
      BY <1>7
  <2>2. ASSUME NEW m \in 0..(Len(a) - 1), m \in S PROVE m + 1 \in S
    <3>1. m + 1 \in 1..Len(a) /\ (m + 1) - 1 = m
        OBVIOUS
    <3>2. Totals(a)[m] \in Nat /\ a[m + 1] \in Nat
        BY <2>2, <3>1
    <3>3. Totals(a)[m + 1] = Totals(a)[(m + 1) - 1] + a[m + 1]
        BY <1>7, <3>1
    <3> QED
        BY <3>1, <3>2, <3>3
  <2>3. Inductive(S, Len(a))
      BY <2>1, <2>2 DEF Inductive
  <2>4. \A m \in 0..Len(a) : m \in S
    <3> HIDE DEF S
    <3> QED
        BY <2>3, UpTo
  <2> QED
      BY <2>4
<1>9. Totals(a) \in [0..Len(a) -> Nat]
    BY <1>6, <1>8
<1> QED
    BY <1>7, <1>9

LEMMA TotalsNext ==
    ASSUME NEW a \in Seq(Nat), NEW m \in 0..(Len(a) - 1)
    PROVE  /\ Totals(a)[m] \in Nat /\ Totals(a)[m + 1] \in Nat /\ a[m + 1] \in Nat
           /\ m + 1 \in 1..Len(a)
           /\ Totals(a)[m + 1] = Totals(a)[m] + a[m + 1]
<1>1. m + 1 \in 1..Len(a) /\ (m + 1) - 1 = m /\ m \in 0..Len(a) /\ m + 1 \in 0..Len(a)
    OBVIOUS
<1>2. Totals(a)[m + 1] = Totals(a)[(m + 1) - 1] + a[m + 1]
    BY <1>1, TotalsDef
<1>3. Totals(a)[m] \in Nat /\ Totals(a)[m + 1] \in Nat
    BY <1>1, TotalsDef
<1> QED
    BY <1>1, <1>2, <1>3

LEMMA TotalsMonotonic ==
    ASSUME NEW a \in Seq(Nat), NEW i \in 0..Len(a), NEW j \in 0..Len(a), i <= j
    PROVE  Totals(a)[i] <= Totals(a)[j]
<1> DEFINE S == {m \in 0..Len(a) : i <= m => Totals(a)[i] <= Totals(a)[m]}
<1>1. 0 \in S
    BY TotalsDef
<1>2. ASSUME NEW m \in 0..(Len(a) - 1), m \in S PROVE m + 1 \in S
  <2>1. Totals(a)[i] \in Nat
      BY TotalsDef
  <2>2. /\ Totals(a)[m] \in Nat /\ Totals(a)[m + 1] \in Nat /\ a[m + 1] \in Nat
        /\ Totals(a)[m + 1] = Totals(a)[m] + a[m + 1]
      BY TotalsNext
  <2>3. i <= m => Totals(a)[i] <= Totals(a)[m]
      BY <1>2
  <2>4. i <= m + 1 => Totals(a)[i] <= Totals(a)[m + 1]
    <3>1. CASE i <= m
        BY <2>1, <2>2, <2>3, <3>1
    <3>2. CASE i = m + 1
        BY <2>1, <3>2
    <3> QED
        BY <3>1, <3>2
  <2> QED
      BY <2>4
<1>3. Inductive(S, Len(a))
    BY <1>1, <1>2 DEF Inductive
<1>4. \A m \in 0..Len(a) : m \in S
  <2> HIDE DEF S
  <2> QED
      BY <1>3, UpTo
<1> QED
    BY <1>4

LEMMA TotalsPrefix ==
    ASSUME NEW a \in Seq(Nat), NEW b \in Seq(Nat), Len(a) <= Len(b),
           \A i \in 1..Len(a) : a[i] = b[i]
    PROVE  \A i \in 0..Len(a) : Totals(a)[i] = Totals(b)[i]
<1> DEFINE S == {m \in 0..Len(a) : Totals(a)[m] = Totals(b)[m]}
<1>1. 0 \in S
    BY TotalsDef
<1>2. ASSUME NEW m \in 0..(Len(a) - 1), m \in S PROVE m + 1 \in S
  <2>1. m \in 0..(Len(b) - 1) /\ m + 1 \in 1..Len(a)
      OBVIOUS
  <2> QED
      BY <1>2, <2>1, TotalsNext
<1>3. Inductive(S, Len(a))
    BY <1>1, <1>2 DEF Inductive
<1>4. \A m \in 0..Len(a) : m \in S
  <2> HIDE DEF S
  <2> QED
      BY <1>3, UpTo
<1> QED
    BY <1>4

LEMMA TotalsZero ==
    ASSUME NEW a \in Seq(Nat)
    PROVE  Totals(a)[Len(a)] = 0 <=> \A i \in 1..Len(a) : a[i] = 0
<1>1. ASSUME Totals(a)[Len(a)] = 0, NEW i \in 1..Len(a) PROVE a[i] = 0
  <2>1. i - 1 \in 0..(Len(a) - 1) /\ (i - 1) + 1 = i /\ i \in 0..Len(a) /\ Len(a) \in 0..Len(a)
      OBVIOUS
  <2>2. Totals(a)[i] <= 0
      BY <1>1, <2>1, TotalsMonotonic
  <2>3. /\ Totals(a)[i - 1] \in Nat /\ Totals(a)[i] \in Nat /\ a[i] \in Nat
        /\ Totals(a)[i] = Totals(a)[i - 1] + a[i]
      BY <2>1, TotalsNext
  <2> QED
      BY <2>2, <2>3
<1>2. ASSUME \A i \in 1..Len(a) : a[i] = 0 PROVE Totals(a)[Len(a)] = 0
  <2> DEFINE S == {m \in 0..Len(a) : Totals(a)[m] = 0}
  <2>1. 0 \in S
      BY TotalsDef
  <2>2. ASSUME NEW m \in 0..(Len(a) - 1), m \in S PROVE m + 1 \in S
      BY <1>2, <2>2, TotalsNext
  <2>3. Inductive(S, Len(a))
      BY <2>1, <2>2 DEF Inductive
  <2>4. \A m \in 0..Len(a) : m \in S
    <3> HIDE DEF S
    <3> QED
        BY <2>3, UpTo
  <2> QED
      BY <2>4
<1> QED
    BY <1>1, <1>2

----------------------------------------------------------------------------
(* Shares and buckets.                                                     *)

LEMMA ShareFacts ==
    ASSUME NEW d \in Seq(Allotted)
    PROVE  /\ Share(d, 0) = 0
           /\ \A i \in 0..Len(d) : Share(d, i) \in Nat
           /\ \A i \in 1..Len(d) :
                d[i].rollout \in Nat /\ Share(d, i) = Share(d, i - 1) + d[i].rollout
           /\ \A i, j \in 0..Len(d) : i <= j => Share(d, i) <= Share(d, j)
           /\ Share(d, Len(d)) = 0 <=> \A i \in 1..Len(d) : d[i].rollout = 0
<1> DEFINE a == [j \in DOMAIN d |-> d[j].rollout]
<1>1. \A i \in 1..Len(d) : d[i].rollout \in Nat
  <2>1. \A i \in 1..Len(d) : d[i] \in Allotted
      OBVIOUS
  <2> QED
      BY <2>1 DEF Allotted
<1>2. a \in Seq(Nat) /\ Len(a) = Len(d) /\ \A i \in 1..Len(d) : a[i] = d[i].rollout
    BY <1>1
<1>3. \A i : Share(d, i) = Totals(a)[i]
    BY DEF Share
<1> HIDE DEF a
<1>4. Share(d, 0) = 0 /\ \A i \in 0..Len(d) : Share(d, i) \in Nat
    BY <1>2, <1>3, TotalsDef
<1>5. \A i \in 1..Len(d) : Share(d, i) = Share(d, i - 1) + d[i].rollout
  <2>1. \A i \in 1..Len(a) : Totals(a)[i] = Totals(a)[i - 1] + a[i]
      BY <1>2, TotalsDef
  <2>2. \A i \in 1..Len(d) : Totals(a)[i] = Totals(a)[i - 1] + d[i].rollout
      BY <1>2, <2>1
  <2> QED
      BY <1>3, <2>2
<1>6. \A i, j \in 0..Len(d) : i <= j => Share(d, i) <= Share(d, j)
    BY <1>2, <1>3, TotalsMonotonic
<1>7. Share(d, Len(d)) = 0 <=> \A i \in 1..Len(d) : d[i].rollout = 0
    BY <1>2, <1>3, TotalsZero
<1> QED
    BY <1>1, <1>4, <1>5, <1>6, <1>7

LEMMA BucketsOfTenth ==
    ASSUME NEW d \in Allotted
    PROVE  /\ BucketsOf(d) \in Nat
           /\ 10 * BucketsOf(d) <= d.rollout /\ d.rollout < 10 * BucketsOf(d) + 10
           /\ d.rollout % 10 = 0 => 10 * BucketsOf(d) = d.rollout
BY DEF Allotted, BucketsOf, PercentMultiplier, TotalBucketNum

LEMMA BucketFacts ==
    ASSUME NEW v \in Seq(Allotted)
    PROVE  /\ Bucket(v, 0) = 0
           /\ \A i \in 0..Len(v) : Bucket(v, i) \in Nat
           /\ \A i \in 1..Len(v) : Bucket(v, i) = Bucket(v, i - 1) + BucketsOf(v[i])
           /\ \A i, j \in 0..Len(v) : i <= j => Bucket(v, i) <= Bucket(v, j)
<1> DEFINE a == [j \in DOMAIN v |-> BucketsOf(v[j])]
<1>1. \A i \in 1..Len(v) : v[i] \in Allotted
    OBVIOUS
<1>2. /\ a \in Seq(Nat) /\ Len(a) = Len(v)
      /\ \A i \in 1..Len(v) : a[i] = BucketsOf(v[i])
    BY <1>1, BucketsOfTenth
<1>3. \A i : Bucket(v, i) = Totals(a)[i]
    BY DEF Bucket
<1> HIDE DEF a
<1>4. Bucket(v, 0) = 0 /\ \A i \in 0..Len(v) : Bucket(v, i) \in Nat
  <2>1. Totals(a) \in [0..Len(v) -> Nat] /\ Totals(a)[0] = 0
      BY <1>2, TotalsDef
  <2>2. \A i \in 0..Len(v) : Totals(a)[i] \in Nat
      BY <2>1
  <2>3. Bucket(v, 0) = 0
      BY <1>3, <2>1
  <2> QED
      BY <1>3, <2>2, <2>3
<1>5. \A i \in 1..Len(v) : Bucket(v, i) = Bucket(v, i - 1) + BucketsOf(v[i])
  <2>1. \A i \in 1..Len(a) : Totals(a)[i] = Totals(a)[i - 1] + a[i]
      BY <1>2, TotalsDef
  <2>2. \A i \in 1..Len(v) : Totals(a)[i] = Totals(a)[i - 1] + BucketsOf(v[i])
      BY <1>2, <2>1
  <2> QED
      BY <1>3, <2>2
<1>6. \A i, j \in 0..Len(v) : i <= j => Bucket(v, i) <= Bucket(v, j)
    BY <1>2, <1>3, TotalsMonotonic
<1> QED
    BY <1>4, <1>5, <1>6

\* Buckets are tenths of shares, or less where parts of a bucket were cut off.
LEMMA BucketOfShare ==
    ASSUME NEW v \in Seq(Allotted)
    PROVE  /\ \A i \in 0..Len(v) : 10 * Bucket(v, i) <= Share(v, i)
           /\ WholeBuckets(v) => \A i \in 0..Len(v) : 10 * Bucket(v, i) = Share(v, i)
<1> DEFINE S == {m \in 0..Len(v) : /\ 10 * Bucket(v, m) <= Share(v, m)
                                   /\ WholeBuckets(v) => 10 * Bucket(v, m) = Share(v, m)}
<1>1. 0 \in S
    BY ShareFacts, BucketFacts
<1>2. ASSUME NEW m \in 0..(Len(v) - 1), m \in S PROVE m + 1 \in S
  <2>1. /\ m + 1 \in 1..Len(v) /\ (m + 1) - 1 = m /\ m \in 0..Len(v) /\ m + 1 \in 0..Len(v)
        /\ v[m + 1] \in Allotted
      OBVIOUS
  <2>2. /\ Share(v, m) \in Nat /\ v[m + 1].rollout \in Nat
        /\ Share(v, m + 1) = Share(v, m) + v[m + 1].rollout
      BY <2>1, ShareFacts
  <2>3. Bucket(v, m) \in Nat /\ Bucket(v, m + 1) = Bucket(v, m) + BucketsOf(v[m + 1])
      BY <2>1, BucketFacts
  <2>4. /\ BucketsOf(v[m + 1]) \in Nat /\ 10 * BucketsOf(v[m + 1]) <= v[m + 1].rollout
        /\ WholeBuckets(v) => 10 * BucketsOf(v[m + 1]) = v[m + 1].rollout
      BY <2>1, BucketsOfTenth DEF WholeBuckets
  <2> QED
      BY <1>2, <2>1, <2>2, <2>3, <2>4
<1>3. Inductive(S, Len(v))
    BY <1>1, <1>2 DEF Inductive
<1>4. \A m \in 0..Len(v) : m \in S
  <2> HIDE DEF S
  <2> QED
      BY <1>3, UpTo
<1> QED
    BY <1>4

LEMMA SharePrefix ==
    ASSUME NEW d \in Seq(Allotted), NEW v \in Seq(Allotted), Len(d) <= Len(v),
           \A i \in 1..Len(d) : d[i] = v[i]
    PROVE  \A i \in 0..Len(d) : Share(d, i) = Share(v, i)
<1> DEFINE a == [j \in DOMAIN d |-> d[j].rollout]
           b == [j \in DOMAIN v |-> v[j].rollout]
<1>1. /\ \A i \in 1..Len(d) : d[i].rollout \in Nat
      /\ \A i \in 1..Len(v) : v[i].rollout \in Nat
    BY ShareFacts
<1>a. a \in Seq(Nat) /\ Len(a) = Len(d)
    BY <1>1
<1>b. b \in Seq(Nat) /\ Len(b) = Len(v)
    BY <1>1
<1>c. \A i \in 1..Len(d) : a[i] = b[i]
    OBVIOUS
<1>2. \A i : Share(d, i) = Totals(a)[i] /\ Share(v, i) = Totals(b)[i]
    BY DEF Share
<1> HIDE DEF a, b
<1> QED
    BY <1>a, <1>b, <1>c, <1>2, TotalsPrefix

----------------------------------------------------------------------------
(* The distributions that are kept.                                        *)

LEMMA ValidAmongDef ==
    ASSUME NEW d \in Seq(Allotted)
    PROVE  /\ ValidAmong(d) \in [0..Len(d) -> Seq(Allotted)]
           /\ ValidAmong(d)[0] = <<>>
           /\ \A i \in 1..Len(d) :
                ValidAmong(d)[i] = IF d[i].rollout > 0 THEN Append(ValidAmong(d)[i - 1], d[i])
                                   ELSE ValidAmong(d)[i - 1]
<1> DEFINE T == Seq(Allotted)
           Keep(x, i) == IF d[i].rollout > 0 THEN Append(x, d[i]) ELSE x
           step == [i \in 1..Len(d) |-> [x \in T |-> Keep(x, i)]]
           D(t) == [i \in 0..Len(d) |-> IF i = 0 THEN <<>> ELSE Keep(t[i - 1], i)]
<1>1. \A i \in 1..Len(d) : d[i] \in Allotted
    OBVIOUS
<1>2. \A i \in 1..Len(d), x \in T : Keep(x, i) \in T
    BY <1>1
<1>3. Len(d) \in Nat /\ <<>> \in T /\ step \in [1..Len(d) -> [T -> T]]
    BY <1>2
<1>4. PICK g : IsLoop(g, Len(d), T, <<>>, step)
  <2> HIDE DEF T, step
  <2> QED
      BY <1>3, LoopExists
<1>5. ASSUME NEW i \in 1..Len(d) PROVE g[i] = Keep(g[i - 1], i)
  <2>1. i - 1 \in 0..Len(d) /\ g[i - 1] \in T
      BY <1>4 DEF IsLoop
  <2>2. g[i] = step[i][g[i - 1]]
      BY <1>4 DEF IsLoop
  <2> QED
      BY <2>1, <2>2
<1>6. g = D(g)
  <2>1. g = [i \in 0..Len(d) |-> g[i]] /\ g[0] = <<>>
      BY <1>4 DEF IsLoop
  <2> HIDE DEF Keep
  <2>2. \A i \in 0..Len(d) : g[i] = IF i = 0 THEN <<>> ELSE Keep(g[i - 1], i)
      BY <1>5, <2>1
  <2> QED
      BY <2>1, <2>2
<1>7. ValidAmong(d) = CHOOSE t : t = D(t)
    BY DEF ValidAmong
<1>8. ValidAmong(d) = D(ValidAmong(d))
  <2> HIDE DEF D
  <2> QED
      BY <1>6, <1>7
<1> DEFINE V == ValidAmong(d)
<1>9. DOMAIN V = 0..Len(d) /\ V[0] = <<>> /\ \A i \in 1..Len(d) : V[i] = Keep(V[i - 1], i)
  <2> HIDE DEF Keep
  <2> QED
      BY <1>8
<1>10. \A m \in 0..Len(d) : V[m] \in T
  <2> DEFINE S == {m \in 0..Len(d) : V[m] \in T}
  <2> HIDE DEF Keep, T
  <2>1. 0 \in S
      BY <1>3, <1>9
  <2>2. ASSUME NEW m \in 0..(Len(d) - 1), m \in S PROVE m + 1 \in S
    <3>1. m + 1 \in 1..Len(d) /\ (m + 1) - 1 = m
        OBVIOUS
    <3>2. V[m + 1] = Keep(V[(m + 1) - 1], m + 1)
        BY <1>9, <3>1
    <3> QED
        BY <1>2, <2>2, <3>1, <3>2
  <2>3. Inductive(S, Len(d))
      BY <2>1, <2>2 DEF Inductive
  <2>4. \A m \in 0..Len(d) : m \in S
    <3> HIDE DEF S
    <3> QED
        BY <2>3, UpTo
  <2> QED
      BY <2>4
<1>11. V \in [0..Len(d) -> T]
  <2>1. V = [i \in 0..Len(d) |-> V[i]]
    BY <1>8
  <2> HIDE DEF V, T
  <2> QED
    BY <1>10, <2>1
<1> QED
    BY <1>9, <1>11

LEMMA ShareAppend ==
    ASSUME NEW v \in Seq(Allotted), NEW x \in Allotted
    PROVE  LET w == Append(v, x)
           IN  /\ w \in Seq(Allotted) /\ Len(w) = Len(v) + 1 /\ w[Len(v) + 1] = x
               /\ \A k \in 1..Len(v) : w[k] = v[k]
               /\ \A k \in 0..Len(v) : Share(w, k) = Share(v, k)
               /\ Share(w, Len(v) + 1) = Share(v, Len(v)) + x.rollout
<1> DEFINE w == Append(v, x)
<1>1. /\ w \in Seq(Allotted) /\ Len(w) = Len(v) + 1 /\ w[Len(v) + 1] = x
      /\ \A k \in 1..Len(v) : w[k] = v[k]
    OBVIOUS
<1> HIDE DEF w
<1>2. Len(v) <= Len(w) /\ \A k \in 1..Len(v) : v[k] = w[k]
    BY <1>1
<1>3. \A k \in 0..Len(v) : Share(v, k) = Share(w, k)
    BY <1>1, <1>2, SharePrefix
<1>4. Len(v) \in 0..Len(v) /\ Len(v) + 1 \in 1..Len(w) /\ (Len(v) + 1) - 1 = Len(v)
    BY <1>1
<1>5. Share(w, Len(v) + 1) = Share(w, (Len(v) + 1) - 1) + w[Len(v) + 1].rollout
    BY <1>1, <1>4, ShareFacts
<1> QED
    BY <1>1, <1>3, <1>4, <1>5 DEF w

\* Distribution k of v is distribution i of d, and it has the same part of the
\* entities there.
Placed(v, k, d, i) ==
    /\ v[k] = d[i] /\ d[i].rollout > 0
    /\ Share(v, k) = Share(d, i) /\ Share(v, k - 1) = Share(d, i - 1)

Kept(d, m, v) ==
    /\ Share(v, Len(v)) = Share(d, m)
    /\ \A k \in 1..Len(v) : \E i \in 1..m : Placed(v, k, d, i)
    /\ \A i \in 1..m : d[i].rollout > 0 => \E k \in 1..Len(v) : Placed(v, k, d, i)

LEMMA KeptNext ==
    ASSUME NEW d \in Seq(Allotted), NEW m \in 0..(Len(d) - 1), NEW v \in Seq(Allotted),
           Kept(d, m, v)
    PROVE  Kept(d, m + 1, IF d[m + 1].rollout > 0 THEN Append(v, d[m + 1]) ELSE v)
<1>1. /\ m + 1 \in 1..Len(d) /\ (m + 1) - 1 = m /\ m \in 0..Len(d) /\ d[m + 1] \in Allotted
      /\ Len(v) \in Nat
      /\ \A i \in 1..(m + 1) : i \in 1..m \/ i = m + 1
      /\ 1..m \subseteq 1..(m + 1)
    OBVIOUS
<1>2. /\ d[m + 1].rollout \in Nat /\ Share(d, m) \in Nat
      /\ Share(d, m + 1) = Share(d, m) + d[m + 1].rollout
    BY <1>1, ShareFacts
<1>3. CASE d[m + 1].rollout > 0
  <2> DEFINE w == Append(v, d[m + 1])
  <2>1. /\ w \in Seq(Allotted) /\ Len(w) = Len(v) + 1 /\ w[Len(v) + 1] = d[m + 1]
        /\ \A k \in 1..Len(v) : w[k] = v[k]
        /\ \A k \in 0..Len(v) : Share(w, k) = Share(v, k)
        /\ Share(w, Len(v) + 1) = Share(v, Len(v)) + d[m + 1].rollout
      BY <1>1, ShareAppend
  <2> HIDE DEF w
  <2>2. \A k \in 1..Len(v) : k \in 0..Len(v) /\ k - 1 \in 0..Len(v) /\ k \in 1..Len(w)
      BY <1>1, <2>1
  <2>3. \A k \in 1..Len(v), i \in 1..m : Placed(v, k, d, i) => Placed(w, k, d, i)
      BY <2>1, <2>2 DEF Placed
  <2>4. Len(v) + 1 \in 1..Len(w) /\ (Len(v) + 1) - 1 = Len(v) /\ Len(v) \in 0..Len(v)
      BY <1>1, <2>1
  <2>5. Placed(w, Len(v) + 1, d, m + 1)
      BY <1>1, <1>2, <1>3, <2>1, <2>4 DEF Placed, Kept
  <2>6. \A k \in 1..Len(w) : k \in 1..Len(v) \/ k = Len(v) + 1
      BY <1>1, <2>1
  <2>7. \A k \in 1..Len(w) : \E i \in 1..(m + 1) : Placed(w, k, d, i)
      BY <1>1, <2>3, <2>5, <2>6 DEF Kept
  <2>8. \A i \in 1..(m + 1) : d[i].rollout > 0 => \E k \in 1..Len(w) : Placed(w, k, d, i)
      BY <1>1, <2>2, <2>3, <2>4, <2>5 DEF Kept
  <2>9. Share(w, Len(w)) = Share(d, m + 1)
      BY <1>2, <2>1 DEF Kept
  <2>10. Kept(d, m + 1, w)
      BY <2>7, <2>8, <2>9 DEF Kept
  <2> QED
      BY <1>3, <2>10 DEF w
<1>4. CASE ~(d[m + 1].rollout > 0)
  <2>1. d[m + 1].rollout = 0 /\ Share(d, m + 1) = Share(d, m)
      BY <1>2, <1>4
  <2>2. Kept(d, m + 1, v)
    <3>1. Share(v, Len(v)) = Share(d, m + 1)
        BY <2>1 DEF Kept
    <3>2. \A k \in 1..Len(v) : \E i \in 1..(m + 1) : Placed(v, k, d, i)
        BY <1>1 DEF Kept
    <3>3. ASSUME NEW i \in 1..(m + 1), d[i].rollout > 0
          PROVE  \E k \in 1..Len(v) : Placed(v, k, d, i)
        BY <1>1, <1>4, <3>3 DEF Kept
    <3> QED
        BY <3>1, <3>2, <3>3 DEF Kept
  <2> QED
      BY <1>4, <2>2
<1> QED
    BY <1>3, <1>4

\* What is left of the distributions without those of 0%.
LEMMA ValidKept ==
    ASSUME NEW d \in Seq(Allotted)
    PROVE  /\ ValidDistributions(d) \in Seq(Allotted)
           /\ Kept(d, Len(d), ValidDistributions(d))
<1> DEFINE V == ValidAmong(d)
           S == {m \in 0..Len(d) : Kept(d, m, V[m])}
<1>1. /\ V \in [0..Len(d) -> Seq(Allotted)] /\ V[0] = <<>>
      /\ \A i \in 1..Len(d) : V[i] = IF d[i].rollout > 0 THEN Append(V[i - 1], d[i])
                                     ELSE V[i - 1]
    BY ValidAmongDef
<1> HIDE DEF V
<1>2. 0 \in S
  <2>1. V[0] \in Seq(Allotted) /\ Len(V[0]) = 0 /\ Len(d) \in Nat
      BY <1>1
  <2>2. Share(V[0], 0) = 0 /\ Share(d, 0) = 0
      BY <2>1, ShareFacts
  <2> QED
      BY <2>1, <2>2 DEF Kept
<1>3. ASSUME NEW m \in 0..(Len(d) - 1), m \in S PROVE m + 1 \in S
  <2>1. m + 1 \in 1..Len(d) /\ (m + 1) - 1 = m /\ m \in 0..Len(d) /\ m + 1 \in 0..Len(d)
      OBVIOUS
  <2>2. V[m] \in Seq(Allotted) /\ Kept(d, m, V[m])
      BY <1>1, <1>3, <2>1
  <2>3. V[m + 1] = IF d[m + 1].rollout > 0 THEN Append(V[m], d[m + 1]) ELSE V[m]
      BY <1>1, <2>1
  <2>4. Kept(d, m + 1, V[m + 1])
      BY <2>2, <2>3, KeptNext
  <2> QED
      BY <2>1, <2>4
<1>4. Inductive(S, Len(d))
    BY <1>2, <1>3 DEF Inductive
<1>5. \A m \in 0..Len(d) : m \in S
  <2> HIDE DEF S
  <2> QED
      BY <1>4, UpTo
<1> QED
    BY <1>1, <1>5 DEF ValidDistributions, V

----------------------------------------------------------------------------
(* The distribution of a bucket.                                           *)

\* It is the one whose buckets the bucket is among, and 0 past the last.
IsOwner(v, b, i0) ==
    /\ i0 \in 0..Len(v)
    /\ i0 = 0 <=> Bucket(v, Len(v)) <= b
    /\ \A k \in 1..Len(v) : i0 = k <=> Bucket(v, k - 1) <= b /\ b < Bucket(v, k)

LEMMA DistributionIs ==
    ASSUME NEW v \in Seq(Allotted), NEW b \in Nat
    PROVE  IsOwner(v, b, Distribution(v, b))
<1> DEFINE stops == {i \in DOMAIN v : Bucket(v, i) >= b + 1}
           i0 == Distribution(v, b)
<1>1. i0 = IF stops = {} THEN 0 ELSE Min(stops)
    BY DEF Distribution, FirstIndex
<1>2. Len(v) \in Nat /\ DOMAIN v = 1..Len(v) /\ stops \subseteq Nat /\ stops \subseteq 1..Len(v)
    OBVIOUS
<1>3. \A i \in 0..Len(v) : Bucket(v, i) \in Nat
    BY BucketFacts
<1>4. \A i, j \in 0..Len(v) : i <= j => Bucket(v, i) <= Bucket(v, j)
    BY BucketFacts
<1>5. \A i \in 1..Len(v) : i \in stops <=> b < Bucket(v, i)
    BY <1>2, <1>3
<1>6. Bucket(v, 0) = 0
    BY BucketFacts
<1> HIDE DEF stops, i0
<1>7. CASE stops = {}
  <2>1. \A i \in 1..Len(v) : ~(b < Bucket(v, i))
      BY <1>5, <1>7
  <2>2. i0 = 0
      BY <1>1, <1>7
  <2>3. Bucket(v, Len(v)) <= b
    <3>1. CASE Len(v) = 0
        BY <1>6, <3>1
    <3>2. CASE Len(v) # 0
      <4>1. Len(v) \in 1..Len(v) /\ Len(v) \in 0..Len(v)
          BY <1>2, <3>2
      <4>2. Bucket(v, Len(v)) \in Nat /\ ~(b < Bucket(v, Len(v)))
          BY <1>3, <2>1, <4>1
      <4> QED
          BY <4>2
    <3> QED
        BY <3>1, <3>2
  <2> QED
      BY <1>2, <2>1, <2>2, <2>3 DEF IsOwner, i0
<1>8. CASE stops # {}
  <2>1. i0 \in stops /\ \A y \in stops : i0 <= y
      BY <1>1, <1>2, <1>8, MinLeast
  <2>2. i0 \in 1..Len(v) /\ b < Bucket(v, i0)
      BY <1>2, <1>5, <2>1
  <2>3. ~(Bucket(v, Len(v)) <= b)
    <3>1. i0 \in 0..Len(v) /\ Len(v) \in 0..Len(v) /\ i0 <= Len(v)
        BY <1>2, <2>2
    <3>2. Bucket(v, i0) \in Nat /\ Bucket(v, Len(v)) \in Nat /\ Bucket(v, i0) <= Bucket(v, Len(v))
        BY <1>3, <1>4, <3>1
    <3> QED
        BY <2>2, <3>2
  <2>4. ASSUME NEW k \in 1..Len(v), i0 = k PROVE Bucket(v, k - 1) <= b /\ b < Bucket(v, k)
    <3>1. CASE k = 1
        BY <1>6, <2>2, <2>4, <3>1
    <3>2. CASE k # 1
      <4>1. k - 1 \in 1..Len(v) /\ k - 1 \in 0..Len(v)
          BY <3>2
      <4>2. k - 1 \notin stops
          BY <2>1, <2>4
      <4>3. Bucket(v, k - 1) \in Nat /\ ~(b < Bucket(v, k - 1))
          BY <1>3, <1>5, <4>1, <4>2
      <4> QED
          BY <2>2, <2>4, <4>3
    <3> QED
        BY <3>1, <3>2
  <2>5. ASSUME NEW k \in 1..Len(v), Bucket(v, k - 1) <= b, b < Bucket(v, k) PROVE i0 = k
    <3>1. k \in stops
        BY <1>5, <2>5
    <3>2. i0 <= k
        BY <2>1, <3>1
    <3>3. CASE i0 < k
      <4>1. i0 \in 0..Len(v) /\ k - 1 \in 0..Len(v) /\ i0 <= k - 1
          BY <2>2, <3>3
      <4>2. Bucket(v, i0) <= Bucket(v, k - 1)
          BY <1>4, <4>1
      <4>3. Bucket(v, i0) \in Nat /\ Bucket(v, k - 1) \in Nat
          BY <1>3, <4>1
      <4> QED
          BY <2>2, <2>5, <4>2, <4>3
    <3> QED
        BY <2>2, <3>2, <3>3
  <2>6. i0 \in 0..Len(v) /\ i0 # 0
      BY <2>2
  <2>7. \A k \in 1..Len(v) : i0 = k <=> Bucket(v, k - 1) <= b /\ b < Bucket(v, k)
      BY <2>4, <2>5
  <2> QED
      BY <2>3, <2>6, <2>7 DEF IsOwner, i0
<1> QED
    BY <1>7, <1>8

BucketsAre(v, k, S) == {b \in 0..(TotalBucketNum - 1) : Distribution(v, b) = k} = S
Spans(v, k, p, q) == \A b \in Nat : Distribution(v, b) = k <=> p <= b /\ b < q

LEMMA IntervalIs ==
    ASSUME NEW p \in Nat, NEW q \in Nat, q <= 1000, NEW v, NEW k, Spans(v, k, p, q)
    PROVE  BucketsAre(v, k, p..(q - 1))
<1> DEFINE S == {b \in 0..(TotalBucketNum - 1) : Distribution(v, b) = k}
<1>1. \A b \in S : b \in p..(q - 1)
    BY DEF TotalBucketNum, Spans
<1>2. \A b \in p..(q - 1) : b \in S
    BY DEF TotalBucketNum, Spans
<1>3. S = p..(q - 1)
    BY <1>1, <1>2
<1> QED
    BY <1>3 DEF BucketsAre

\* The buckets of distribution k, of which none is past the last.
LEMMA BucketsCounted ==
    ASSUME NEW v \in Seq(Allotted), NEW k \in 1..Len(v), Share(v, k) <= 10000
    PROVE  Cardinality({b \in 0..(TotalBucketNum - 1) : Distribution(v, b) = k}) = BucketsOf(v[k])
<1> DEFINE Mine == {b \in 0..(TotalBucketNum - 1) : Distribution(v, b) = k}
<1>1. k - 1 \in 0..Len(v) /\ k \in 0..Len(v) /\ v[k] \in Allotted /\ TotalBucketNum = 1000
    BY DEF TotalBucketNum
<1>2. /\ Bucket(v, k - 1) \in Nat /\ Bucket(v, k) \in Nat /\ BucketsOf(v[k]) \in Nat
      /\ Bucket(v, k) = Bucket(v, k - 1) + BucketsOf(v[k])
  <2>1. Bucket(v, k - 1) \in Nat /\ Bucket(v, k) \in Nat
      BY <1>1, BucketFacts
  <2>2. BucketsOf(v[k]) \in Nat
      BY <1>1, BucketsOfTenth
  <2>3. \A i \in 1..Len(v) : Bucket(v, i) = Bucket(v, i - 1) + BucketsOf(v[i])
      BY BucketFacts
  <2> QED
      BY <2>1, <2>2, <2>3
<1>3. Share(v, k) \in Nat /\ 10 * Bucket(v, k) <= Share(v, k)
    BY <1>1, ShareFacts, BucketOfShare
<1>4. Bucket(v, k) <= 1000
    BY <1>2, <1>3
<1>5. ASSUME NEW b \in Nat
      PROVE  Distribution(v, b) = k <=> Bucket(v, k - 1) <= b /\ b < Bucket(v, k)
  <2>1. IsOwner(v, b, Distribution(v, b))
      BY DistributionIs
  <2> QED
      BY <2>1 DEF IsOwner
<1>6. Mine = Bucket(v, k - 1)..(Bucket(v, k) - 1)
  <2>1. Spans(v, k, Bucket(v, k - 1), Bucket(v, k))
      BY <1>5 DEF Spans
  <2>2. BucketsAre(v, k, Bucket(v, k - 1)..(Bucket(v, k) - 1))
      BY <1>2, <1>4, <2>1, IntervalIs
  <2> QED
      BY <2>2 DEF BucketsAre
<1>7. Cardinality(Mine) = BucketsOf(v[k])
  <2> DEFINE p == Bucket(v, k - 1)
             q == Bucket(v, k)
  <2>1. p \in Int /\ q - 1 \in Int /\ Mine = p..(q - 1) /\ p \in Nat /\ q \in Nat
      BY <1>2, <1>6
  <2> HIDE DEF p, q, Mine
  <2>2. Cardinality(Mine) = IF p > q - 1 THEN 0 ELSE (q - 1) - p + 1
      BY <2>1, FS_Interval
  <2>3. q = p + BucketsOf(v[k])
      BY <1>2 DEF p, q
  <2> QED
      BY <1>2, <2>1, <2>2, <2>3
<1> QED
    BY <1>7

\* The promise of FairShares, for distributions of any kind.
LEMMA FairSharesOf ==
    ASSUME NEW v \in Seq(Allotted), NEW k \in DOMAIN v, Share(v, k) <= 10000
    PROVE  LET Mine == {b \in 0..(TotalBucketNum - 1) : Distribution(v, b) = k}
               off == v[k].rollout - 10 * Cardinality(Mine)
           IN  0 <= off /\ off < 10
<1>1. k \in 1..Len(v) /\ v[k] \in Allotted
    OBVIOUS
<1>2. v[k].rollout \in Nat
    BY <1>1, ShareFacts
<1>3. Cardinality({b \in 0..(TotalBucketNum - 1) : Distribution(v, b) = k}) = BucketsOf(v[k])
    BY <1>1, BucketsCounted
<1>4. /\ BucketsOf(v[k]) \in Nat
      /\ 10 * BucketsOf(v[k]) <= v[k].rollout /\ v[k].rollout < 10 * BucketsOf(v[k]) + 10
    BY <1>1, BucketsOfTenth
<1> QED
    BY <1>2, <1>3, <1>4

----------------------------------------------------------------------------
(* What a rule that matched answers is what its distributions promise.     *)

\* Where some distribution is left, the response is the variant of the owner of the
\* bucket.
LEMMA ResponseIs ==
    ASSUME NEW d \in Seq(Allotted), NEW e, e.bucket \in Nat
    PROVE  LET v == ValidDistributions(d)
               r == DistributionResponse(d, e)
           IN  /\ Share(d, Len(d)) = 0 => r = MatchWithout
               /\ Share(d, Len(d)) # 0 =>
                    \/ Bucket(v, Len(v)) <= e.bucket /\ r = NoMatch
                    \/ \E k \in 1..Len(v) :
                         /\ Bucket(v, k - 1) <= e.bucket /\ e.bucket < Bucket(v, k)
                         /\ r = Response(TRUE, v[k].variant, "MATCH")
<1> DEFINE v == ValidDistributions(d)
           i == Distribution(v, e.bucket)
<1>1. v \in Seq(Allotted) /\ Kept(d, Len(d), v)
    BY ValidKept
<1>2. DistributionResponse(d, e) = CASE v = <<>> -> MatchWithout
                                     [] v # <<>> /\ i = 0 -> NoMatch
                                     [] OTHER -> Response(TRUE, v[i].variant, "MATCH")
    BY DEF DistributionResponse
<1> HIDE DEF v, i
<1>3. IsOwner(v, e.bucket, i)
    BY <1>1, DistributionIs DEF i
<1>4. v = <<>> <=> Share(d, Len(d)) = 0
  <2>1. Share(v, Len(v)) = Share(d, Len(d))
      BY <1>1 DEF Kept
  <2>2. ASSUME v = <<>> PROVE Share(v, Len(v)) = 0
    <3>1. Len(v) = 0
        BY <2>2
    <3> QED
        BY <1>1, <3>1, ShareFacts
  <2>3. ASSUME v # <<>> PROVE Share(v, Len(v)) # 0
    <3>1. Len(v) \in 1..Len(v)
        BY <1>1, <2>3
    <3>2. v[Len(v)].rollout > 0
        BY <1>1, <3>1 DEF Kept, Placed
    <3>3. ~(v[Len(v)].rollout = 0)
        BY <3>2
    <3> QED
        BY <1>1, <3>1, <3>3, ShareFacts
  <2> QED
      BY <2>1, <2>2, <2>3
<1>5. CASE v = <<>>
    BY <1>2, <1>4, <1>5 DEF v
<1>6. CASE v # <<>> /\ i = 0
  <2>1. Bucket(v, Len(v)) <= e.bucket
      BY <1>3, <1>6 DEF IsOwner
  <2> QED
      BY <1>2, <1>4, <1>6, <2>1 DEF v
<1>7. CASE v # <<>> /\ i # 0
  <2>1. i \in 1..Len(v)
      BY <1>1, <1>3, <1>7 DEF IsOwner
  <2>2. Bucket(v, i - 1) <= e.bucket /\ e.bucket < Bucket(v, i)
      BY <1>3, <2>1 DEF IsOwner
  <2>3. DistributionResponse(d, e) = Response(TRUE, v[i].variant, "MATCH")
      BY <1>2, <1>7
  <2> QED
      BY <1>4, <1>7, <2>1, <2>2, <2>3 DEF v
<1> QED
    BY <1>5, <1>6, <1>7

\* D begins with d and goes on with distributions of d: as it is, or, once d has given
\* out all hundred percent, repeated.
Repeats(D, d) ==
    /\ D \in Seq(Allotted) /\ d \in Seq(Allotted) /\ Len(d) <= Len(D)
    /\ \A i \in 1..Len(d) : D[i] = d[i]
    /\ \A i \in 1..Len(D) : \E j \in 1..Len(d) : D[i] = d[j]
    /\ Len(D) = Len(d) \/ Share(d, Len(d)) >= 10000

LEMMA RepeatsShare ==
    ASSUME NEW D, NEW d, Repeats(D, d)
    PROVE  /\ Len(d) \in Nat /\ Len(D) \in Nat /\ Len(d) <= Len(D)
           /\ \A i \in 0..Len(d) : Share(d, i) = Share(D, i)
           /\ Share(d, Len(d)) \in Nat /\ Share(D, Len(D)) \in Nat
           /\ Share(d, Len(d)) <= Share(D, Len(D))
           /\ Share(d, Len(d)) = 0 <=> Share(D, Len(D)) = 0
<1> USE DEF Repeats
<1>1. Len(d) \in Nat /\ Len(D) \in Nat /\ Len(d) <= Len(D)
    OBVIOUS
<1>2. \A i \in 0..Len(d) : Share(d, i) = Share(D, i)
    BY SharePrefix
<1>3. Len(d) \in 0..Len(d) /\ Len(d) \in 0..Len(D) /\ Len(D) \in 0..Len(D)
    BY <1>1
<1>4. Share(d, Len(d)) \in Nat /\ Share(D, Len(D)) \in Nat
    BY <1>3, ShareFacts
<1>5. Share(D, Len(d)) <= Share(D, Len(D))
    BY <1>1, <1>3, ShareFacts
<1>6. Share(d, Len(d)) <= Share(D, Len(D))
    BY <1>2, <1>3, <1>5
<1>7. ASSUME Share(d, Len(d)) = 0 PROVE Share(D, Len(D)) = 0
  <2>1. \A j \in 1..Len(d) : d[j].rollout = 0
      BY <1>7, ShareFacts
  <2>2. \A i \in 1..Len(D) : D[i].rollout = 0
      BY <2>1
  <2> QED
      BY <2>2, ShareFacts
<1> QED
    BY <1>1, <1>2, <1>4, <1>6, <1>7

IsWhole(x) == x.rollout % 10 = 0

LEMMA RepeatsWhole ==
    ASSUME NEW D, NEW d, Repeats(D, d), WholeBuckets(d)
    PROVE  WholeBuckets(ValidDistributions(D))
<1> DEFINE v == ValidDistributions(D)
<1>1. v \in Seq(Allotted) /\ Kept(D, Len(D), v) /\ D \in Seq(Allotted) /\ d \in Seq(Allotted)
    BY ValidKept DEF Repeats
<1> HIDE DEF v
<1>2. \A j \in 1..Len(d) : IsWhole(d[j])
    BY <1>1 DEF WholeBuckets, IsWhole
<1>3. \A j \in 1..Len(D) : IsWhole(D[j])
    BY <1>2 DEF Repeats
<1>4. \A j \in 1..Len(v) : IsWhole(v[j])
    BY <1>1, <1>3 DEF Kept, Placed
<1>5. WholeBuckets(v)
    BY <1>1, <1>4 DEF WholeBuckets, IsWhole
<1> QED
    BY <1>5 DEF v

Owns(v, k, b) == k \in 1..Len(v) /\ Bucket(v, k - 1) <= b /\ b < Bucket(v, k)
Exhausted(v, b) == Bucket(v, Len(v)) <= b
IsDue(v, k, d, b) ==
    \E i \in 1..Len(d) : v[k] = d[i] /\ Share(d, i - 1) <= 10 * b /\ 10 * b < Share(d, i)

\* A bucket of a distribution that is kept lies in the share of that distribution.
OwnsWhole(D, d, v, k, b) ==
    /\ Repeats(D, d) /\ WholeBuckets(d) /\ b \in 0..999
    /\ v = ValidDistributions(D) /\ Owns(v, k, b)

LEMMA OwnerIsDue ==
    ASSUME NEW D, NEW d, NEW v, NEW k, NEW b, OwnsWhole(D, d, v, k, b)
    PROVE  IsDue(v, k, d, b)
<1>a. /\ Repeats(D, d) /\ WholeBuckets(d) /\ b \in 0..999
      /\ v = ValidDistributions(D) /\ Owns(v, k, b)
    BY DEF OwnsWhole
<1>1. v \in Seq(Allotted) /\ Kept(D, Len(D), v) /\ D \in Seq(Allotted) /\ d \in Seq(Allotted)
    BY <1>a, ValidKept DEF Repeats
<1>2. PICK i \in 1..Len(D) : Placed(v, k, D, i)
    BY <1>a, <1>1 DEF Kept, Owns
<1>3. WholeBuckets(v)
    BY <1>a, RepeatsWhole
<1>4. k \in 1..Len(v) /\ k - 1 \in 0..Len(v) /\ k \in 0..Len(v)
    BY <1>a, <1>1 DEF Owns
<1>5. 10 * Bucket(v, k - 1) = Share(v, k - 1) /\ 10 * Bucket(v, k) = Share(v, k)
    BY <1>1, <1>3, <1>4, BucketOfShare
<1>6. Bucket(v, k - 1) \in Nat /\ Bucket(v, k) \in Nat
    BY <1>1, <1>4, BucketFacts
<1>7. Bucket(v, k - 1) <= b /\ b < Bucket(v, k)
    BY <1>a DEF Owns
<1>8. Share(D, i - 1) <= 10 * b /\ 10 * b < Share(D, i)
    BY <1>a, <1>2, <1>5, <1>6, <1>7 DEF Placed
<1>9. i \in 1..Len(d)
  <2> SUFFICES ASSUME i > Len(d) PROVE FALSE
      BY <1>1
  <2>1. Share(d, Len(d)) >= 10000 /\ Len(d) \in 0..Len(d) /\ Len(d) \in 0..Len(D)
      BY <1>a, <1>1 DEF Repeats
  <2>2. i - 1 \in 0..Len(D) /\ Len(d) <= i - 1
      BY <1>1
  <2>3. Share(D, Len(d)) <= Share(D, i - 1)
      BY <1>1, <2>1, <2>2, ShareFacts
  <2>4. Share(D, Len(d)) = Share(d, Len(d)) /\ Share(d, Len(d)) \in Nat
      BY <1>a, <2>1, RepeatsShare
  <2>5. Share(D, i - 1) \in Nat
      BY <1>1, <2>2, ShareFacts
  <2>6. Share(D, i - 1) >= 10000
      BY <2>1, <2>3, <2>4, <2>5
  <2>7. 10 * b < 10000 /\ 10 * b \in Nat
      BY <1>a
  <2> QED
      BY <1>8, <2>5, <2>6, <2>7
<1>10. i \in 0..Len(d) /\ i - 1 \in 0..Len(d)
    BY <1>9
<1>11. Share(d, i - 1) = Share(D, i - 1) /\ Share(d, i) = Share(D, i)
    BY <1>a, <1>10, RepeatsShare
<1>12. v[k] = d[i]
    BY <1>a, <1>2, <1>9 DEF Placed, Repeats
<1> QED
    BY <1>8, <1>9, <1>11, <1>12 DEF IsDue

\* Past the last bucket, no share is left.
NothingLeft(D, d, e) ==
    /\ Repeats(D, d) /\ WholeBuckets(d)
    /\ e.bucket \in 0..999 /\ Exhausted(ValidDistributions(D), e.bucket)

LEMMA NobodyIsDue ==
    ASSUME NEW D, NEW d, NEW e, NothingLeft(D, d, e)
    PROVE  Due(d, e) = {}
<1> DEFINE v == ValidDistributions(D)
           b == e.bucket
<1>a. Repeats(D, d) /\ WholeBuckets(d) /\ b \in 0..999 /\ Exhausted(v, b)
    BY DEF NothingLeft
<1>1. v \in Seq(Allotted) /\ Kept(D, Len(D), v) /\ D \in Seq(Allotted) /\ d \in Seq(Allotted)
    BY <1>a, ValidKept DEF Repeats
<1>2. WholeBuckets(v)
    BY <1>a, RepeatsWhole
<1>3. Bucket(v, Len(v)) <= b
    BY <1>a DEF Exhausted
<1> HIDE DEF v, b
<1>4. Len(v) \in 0..Len(v)
    BY <1>1
<1>5. 10 * Bucket(v, Len(v)) = Share(D, Len(D)) /\ Bucket(v, Len(v)) \in Nat
    BY <1>1, <1>2, <1>4, BucketOfShare, BucketFacts DEF Kept
<1>6. Share(d, Len(d)) <= 10 * b
    BY <1>a, <1>3, <1>5, RepeatsShare
<1>7. ASSUME NEW i \in 1..Len(d) PROVE ~(10 * b < Share(d, i))
  <2>1. i \in 0..Len(d) /\ Len(d) \in 0..Len(d) /\ i <= Len(d)
      BY <1>1
  <2>2. Share(d, i) <= Share(d, Len(d)) /\ Share(d, i) \in Nat /\ Share(d, Len(d)) \in Nat
      BY <1>1, <2>1, ShareFacts
  <2> QED
      BY <1>a, <1>6, <2>2
<1>8. DOMAIN d = 1..Len(d)
    BY <1>1
<1> QED
    BY <1>7, <1>8 DEF Due, b

\* Distribution k of those kept of D owns the entity's bucket and its variant is the
\* response.
OwnerAnswers(D, d, e, v, k, r) ==
    /\ Repeats(D, d) /\ Share(d, Len(d)) # 0 /\ WholeBuckets(d)
    /\ e.bucket \in 0..999 /\ v = ValidDistributions(D) /\ Owns(v, k, e.bucket)
    /\ r = Response(TRUE, v[k].variant, "MATCH")

LEMMA OwnerOutcome ==
    ASSUME NEW D, NEW d, NEW e, NEW v, NEW k, NEW r, OwnerAnswers(D, d, e, v, k, r)
    PROVE  r \in Outcomes(d, e)
<1> DEFINE b == e.bucket
<1>a. /\ Repeats(D, d) /\ Share(d, Len(d)) # 0 /\ WholeBuckets(d) /\ b \in 0..999
      /\ v = ValidDistributions(D) /\ Owns(v, k, b) /\ r = Response(TRUE, v[k].variant, "MATCH")
    BY DEF OwnerAnswers
<1> HIDE DEF b
<1>0. OwnsWhole(D, d, v, k, b)
    BY <1>a DEF OwnsWhole
<1>1. IsDue(v, k, d, b)
    BY <1>0, OwnerIsDue
<1>2. PICK i \in 1..Len(d) : v[k] = d[i] /\ Share(d, i - 1) <= 10 * b /\ 10 * b < Share(d, i)
    BY <1>1 DEF IsDue
<1>3. i \in DOMAIN d
    BY <1>a DEF Repeats
<1> DEFINE x == d[i].variant
           due == Due(d, e)
<1>4. x \in due
    BY <1>2, <1>3 DEF Due, b
<1>5. v[k].variant = x
    BY <1>2
<1> HIDE DEF x, due
<1>6. due # {}
    BY <1>4
<1>7. Outcomes(d, e) = {Response(TRUE, y, "MATCH") : y \in due}
    BY <1>a, <1>6 DEF Outcomes, due
<1>8. Response(TRUE, x, "MATCH") \in {Response(TRUE, y, "MATCH") : y \in due}
    BY <1>4
<1>9. r = Response(TRUE, x, "MATCH")
    BY <1>a, <1>5
<1> QED
    BY <1>7, <1>8, <1>9, Zenon

LEMMA ResponsePromised ==
    ASSUME NEW D, NEW d, Repeats(D, d), NEW e, e.bucket \in 0..999
    PROVE  DistributionResponse(D, e) \in Outcomes(d, e)
<1> DEFINE v == ValidDistributions(D)
           r == DistributionResponse(D, e)
           b == e.bucket
<1>1. v \in Seq(Allotted) /\ Kept(D, Len(D), v) /\ D \in Seq(Allotted) /\ d \in Seq(Allotted)
    BY ValidKept DEF Repeats
<1>2. b \in 0..999 /\ b \in Nat
    OBVIOUS
<1>3. /\ Share(D, Len(D)) = 0 => r = MatchWithout
      /\ Share(D, Len(D)) # 0 =>
           \/ Bucket(v, Len(v)) <= b /\ r = NoMatch
           \/ \E k \in 1..Len(v) : /\ Bucket(v, k - 1) <= b /\ b < Bucket(v, k)
                                   /\ r = Response(TRUE, v[k].variant, "MATCH")
    BY <1>1, <1>2, ResponseIs
<1> HIDE DEF r
<1>4. Share(d, Len(d)) = 0 <=> Share(D, Len(D)) = 0
    BY RepeatsShare
<1>5. CASE Share(d, Len(d)) = 0
    BY <1>3, <1>4, <1>5 DEF Outcomes, r
<1>6. CASE Share(d, Len(d)) # 0 /\ ~WholeBuckets(d)
  <2>1. Outcomes(d, e) = {NoMatch} \cup {Response(TRUE, d[i].variant, "MATCH") : i \in DOMAIN d}
      BY <1>6 DEF Outcomes
  <2>2. CASE r = NoMatch
      BY <2>1, <2>2 DEF r
  <2>3. CASE r # NoMatch
    <3>1. PICK k \in 1..Len(v) : r = Response(TRUE, v[k].variant, "MATCH")
        BY <1>3, <1>4, <1>6, <2>3
    <3>2. PICK i \in 1..Len(D) : v[k] = D[i]
        BY <1>1 DEF Kept, Placed
    <3>3. PICK j \in 1..Len(d) : D[i] = d[j]
        BY DEF Repeats
    <3>4. j \in DOMAIN d
        BY <1>1
    <3>5. r = Response(TRUE, d[j].variant, "MATCH")
        BY <3>1, <3>2, <3>3
    <3>6. r \in {Response(TRUE, d[n].variant, "MATCH") : n \in DOMAIN d}
        BY <3>4, <3>5, Zenon
    <3> QED
        BY <2>1, <3>6, Zenon DEF r
  <2> QED
      BY <2>2, <2>3
<1>7. CASE Share(d, Len(d)) # 0 /\ WholeBuckets(d)
  <2>1. Outcomes(d, e) = IF Due(d, e) = {} THEN {NoMatch}
                         ELSE {Response(TRUE, x, "MATCH") : x \in Due(d, e)}
      BY <1>7 DEF Outcomes
  <2>2. CASE Bucket(v, Len(v)) <= b /\ r = NoMatch
    <3>1. Exhausted(v, b)
        BY <2>2 DEF Exhausted
    <3>2. NothingLeft(D, d, e)
        BY <1>2, <1>7, <3>1 DEF NothingLeft
    <3>3. Due(d, e) = {}
        BY <3>2, NobodyIsDue
    <3> QED
        BY <2>1, <2>2, <3>3 DEF r
  <2>3. ASSUME NEW k \in 1..Len(v), Bucket(v, k - 1) <= b, b < Bucket(v, k),
               r = Response(TRUE, v[k].variant, "MATCH")
        PROVE  r \in Outcomes(d, e)
    <3>1. Owns(v, k, b)
        BY <2>3 DEF Owns
    <3>2. OwnerAnswers(D, d, e, v, k, r)
        BY <1>2, <1>7, <2>3, <3>1 DEF OwnerAnswers
    <3> QED
        BY <3>2, OwnerOutcome
  <2> QED
      BY <1>3, <1>4, <1>7, <2>2, <2>3 DEF r
<1> QED
    BY <1>5, <1>6, <1>7

----------------------------------------------------------------------------
(* Constraints.                                                            *)

Known(c) == c.type \in DOMAIN Operators /\ IsConstraint(c)
Reads(c, text) == c.operator \in Operators[c.type] /\ IsText(text) /\ Known(c)

LEMMA TypeIsKnown ==
    ASSUME NEW c, Known(c)
    PROVE  c.type \in {"string", "number", "boolean", "datetime", "entityId"}
BY DEF Known, Operators

LEMMA OperatorIsKnown ==
    ASSUME NEW c, NEW text, Reads(c, text)
    PROVE  /\ c.operator \in Textual \cup Order \cup Presence \cup {"true", "false"}
           /\ c.operator \in {"true", "false"} => c.type = "boolean"
           /\ c.operator \in {"lt", "lte", "gt", "gte"} => c.type \in {"number", "datetime"}
BY TypeIsKnown DEF Reads, Operators, Textual, Order, Presence, Membership

\* A text reads as one value or as none.
LEMMA ParsedOne ==
    ASSUME NEW type \in {"string", "number", "boolean", "datetime", "entityId"},
           NEW text, IsText(text)
    PROVE  /\ Parsed(type, text) = {} \/ \E n : Parsed(type, text) = {n}
           /\ type \in {"number", "datetime"} => Parsed(type, text) \subseteq Int \cup {NaN}
<1>1. AtMostOne(Parsed(type, text))
    BY DEF Parsed, IsText, AtMostOne
<1>2. type \in {"number", "datetime"} => Parsed(type, text) \subseteq Int \cup {NaN}
    BY DEF Parsed, IsText
<1> QED
    BY <1>1, <1>2 DEF AtMostOne

\* The value read, where there is one.
LEMMA ReadValues ==
    ASSUME NEW c, NEW text, Reads(c, text)
    PROVE  LET P == Parsed(c.type, text)
               Q == Parsed(c.type, c.value)
               n == CHOOSE x \in P : TRUE
               m == CHOOSE x \in Q : TRUE
           IN  /\ P = {} \/ P = {n}
               /\ Q = {} \/ Q = {m}
               /\ c.list = {} \/ \E list : c.list = {list}
               /\ c.operator \in {"lt", "lte", "gt", "gte"} =>
                    /\ P # {} => n \in Int \cup {NaN}
                    /\ Q # {} => m \in Int \cup {NaN}
<1> DEFINE P == Parsed(c.type, text)
           Q == Parsed(c.type, c.value)
<1>1. /\ c.type \in {"string", "number", "boolean", "datetime", "entityId"}
      /\ IsText(text) /\ IsText(c.value) /\ AtMostOne(c.list)
    BY TypeIsKnown DEF Reads, Known, IsConstraint
<1>2. /\ P = {} \/ \E x : P = {x}
      /\ c.type \in {"number", "datetime"} => P \subseteq Int \cup {NaN}
    BY <1>1, ParsedOne
<1>3. /\ Q = {} \/ \E x : Q = {x}
      /\ c.type \in {"number", "datetime"} => Q \subseteq Int \cup {NaN}
    BY <1>1, ParsedOne
<1>4. c.operator \in {"lt", "lte", "gt", "gte"} => c.type \in {"number", "datetime"}
    BY OperatorIsKnown
<1>5. c.list = {} \/ \E list : c.list = {list}
    BY <1>1 DEF AtMostOne
<1> HIDE DEF P, Q
<1>6. P = {} \/ P = {CHOOSE x \in P : TRUE}
    BY <1>2
<1>7. Q = {} \/ Q = {CHOOSE x \in Q : TRUE}
    BY <1>3
<1>8. c.operator \in {"lt", "lte", "gt", "gte"} =>
        /\ P # {} => (CHOOSE x \in P : TRUE) \in Int \cup {NaN}
        /\ Q # {} => (CHOOSE x \in Q : TRUE) \in Int \cup {NaN}
    BY <1>2, <1>3, <1>4
<1> QED
    BY <1>5, <1>6, <1>7, <1>8 DEF P, Q

\* A constraint of a known type and operator holds of a text if and only if it says so.
Agrees(c, text) ==
    Matches(c, text) <=>
        Readable(c, text) /\ (PlainlyHolds(c, text) <=> c.operator = Plain(c))

LEMMA OrderAgrees ==
    ASSUME NEW c, NEW text, Reads(c, text), c.operator \in Order
    PROVE  Agrees(c, text)
<1> DEFINE P == Parsed(c.type, text)
           Q == Parsed(c.type, c.value)
           n == CHOOSE x \in P : TRUE
           m == CHOOSE x \in Q : TRUE
<1>1. /\ P = {} \/ P = {n}
      /\ Q = {} \/ Q = {m}
      /\ c.operator \in {"lt", "lte", "gt", "gte"} => (P # {} => n \in Int \cup {NaN}) /\ (Q # {} => m \in Int \cup {NaN})
    BY ReadValues
<1>2. Matches(c, text) <=> text # NoText /\ \E x \in P : Compares(c, x)
    BY DEF Reads, Matches, Order
<1>3. \A x : Compares(c, x) <=> \E y \in Q :
         \/ c.operator = "eq" /\ Equals(x, y)
         \/ c.operator = "neq" /\ ~Equals(x, y)
         \/ c.operator = "lt" /\ Less(x, y)
         \/ c.operator = "lte" /\ (Less(x, y) \/ Equals(x, y))
         \/ c.operator = "gt" /\ Less(y, x)
         \/ c.operator = "gte" /\ (Less(y, x) \/ Equals(x, y))
    BY DEF Compares, Order
<1>4. Plain(c) = CASE c.operator \in {"eq", "neq"} -> "eq"
                   [] c.operator \in {"lt", "gte"} -> "lt"
                   [] c.operator \in {"gt", "lte"} -> "gt"
    BY DEF Plain, Opposite, Order
<1>5. Readable(c, text) <=> /\ text # NoText /\ P # {} /\ Q # {}
                            /\ c.operator \in {"eq", "neq"} \/ NaN \notin P \cup Q
    BY <1>4 DEF Readable, Order
<1>6. PlainlyHolds(c, text) <=> CASE c.operator \in {"eq", "neq"} -> n = m /\ n # NaN
                                  [] c.operator \in {"lt", "gte"} -> n < m
                                  [] c.operator \in {"gt", "lte"} -> n > m
    BY <1>4 DEF PlainlyHolds, Order
<1> HIDE DEF P, Q, n, m
<1>7. CASE P = {} \/ Q = {}
    BY <1>2, <1>3, <1>5, <1>7 DEF Agrees
<1>8. CASE P = {n} /\ Q = {m}
  <2>1. Matches(c, text) <=> text # NoText /\ Compares(c, n)
      BY <1>2, <1>8
  <2>2. Compares(c, n) <=> \/ c.operator = "eq" /\ Equals(n, m)
                           \/ c.operator = "neq" /\ ~Equals(n, m)
                           \/ c.operator = "lt" /\ Less(n, m)
                           \/ c.operator = "lte" /\ (Less(n, m) \/ Equals(n, m))
                           \/ c.operator = "gt" /\ Less(m, n)
                           \/ c.operator = "gte" /\ (Less(m, n) \/ Equals(n, m))
      BY <1>3, <1>8
  <2>3. CASE c.operator \in {"eq", "neq"}
    <3>1. Readable(c, text) <=> text # NoText
        BY <1>5, <1>8, <2>3
    <3>2. Compares(c, n) <=> (PlainlyHolds(c, text) <=> c.operator = Plain(c))
        BY <1>4, <1>6, <2>2, <2>3 DEF Equals
    <3> QED
        BY <2>1, <3>1, <3>2 DEF Agrees
  <2>4. CASE c.operator \in {"lt", "gte", "gt", "lte"} /\ NaN \in {n, m}
    <3>1. ~Less(n, m) /\ ~Less(m, n) /\ ~Equals(n, m)
        BY <2>4 DEF Less, Equals
    <3>2. ~Compares(c, n)
        BY <2>2, <2>4, <3>1
    <3>3. ~Readable(c, text)
        BY <1>5, <1>8, <2>4
    <3> QED
        BY <2>1, <3>2, <3>3 DEF Agrees
  <2>5. CASE c.operator \in {"lt", "gte", "gt", "lte"} /\ NaN \notin {n, m}
    <3>1. n \in Int /\ m \in Int
        BY <1>1, <1>8, <2>5
    <3>2. /\ Less(n, m) <=> n < m
          /\ Less(m, n) <=> n > m
          /\ Less(n, m) \/ Equals(n, m) <=> ~(n > m)
          /\ Less(m, n) \/ Equals(n, m) <=> ~(n < m)
        BY <2>5, <3>1 DEF Less, Equals
    <3>3. Readable(c, text) <=> text # NoText
        BY <1>5, <1>8, <2>5
    <3>4. Compares(c, n) <=> (PlainlyHolds(c, text) <=> c.operator = Plain(c))
      <4>1. CASE c.operator = "lt"
          BY <1>4, <1>6, <2>2, <3>2, <4>1
      <4>2. CASE c.operator = "gte"
          BY <1>4, <1>6, <2>2, <3>2, <4>2
      <4>3. CASE c.operator = "gt"
          BY <1>4, <1>6, <2>2, <3>2, <4>3
      <4>4. CASE c.operator = "lte"
          BY <1>4, <1>6, <2>2, <3>2, <4>4
      <4> QED
          BY <2>5, <4>1, <4>2, <4>3, <4>4
    <3> QED
        BY <2>1, <3>3, <3>4 DEF Agrees
  <2> QED
      BY <2>3, <2>4, <2>5 DEF Order
<1> QED
    BY <1>1, <1>7, <1>8

LEMMA MembershipAgrees ==
    ASSUME NEW c, NEW text, Reads(c, text), c.operator \in Membership
    PROVE  Agrees(c, text)
<1> DEFINE P == Parsed(c.type, text)
           n == CHOOSE x \in P : TRUE
<1>1. (P = {} \/ P = {n}) /\ (c.list = {} \/ \E list : c.list = {list})
    BY ReadValues
<1>2. Matches(c, text) <=> text # NoText /\ \E x \in P : Compares(c, x)
    BY DEF Reads, Matches, Membership
<1>3. \A x : Compares(c, x) <=> \E list \in c.list :
                                   \/ c.operator = "isoneof" /\ x \in list
                                   \/ c.operator = "isnotoneof" /\ x \notin list
    BY DEF Compares, Membership
<1>4. Plain(c) = "isoneof"
    BY DEF Plain, Opposite, Membership
<1>5. Readable(c, text) <=> text # NoText /\ P # {} /\ c.list # {}
    BY <1>4 DEF Readable
<1>6. PlainlyHolds(c, text) <=> n \in UNION c.list
    BY <1>4 DEF PlainlyHolds
<1> HIDE DEF P, n
<1>7. CASE P = {} \/ c.list = {}
    BY <1>2, <1>3, <1>5, <1>7 DEF Agrees
<1>8. CASE P = {n} /\ c.list # {}
  <2>1. PICK list : c.list = {list}
      BY <1>1, <1>8
  <2>2. Matches(c, text) <=> text # NoText /\ Compares(c, n)
      BY <1>2, <1>8
  <2>3. Compares(c, n) <=> \/ c.operator = "isoneof" /\ n \in list
                           \/ c.operator = "isnotoneof" /\ n \notin list
      BY <1>3, <2>1
  <2>4. PlainlyHolds(c, text) <=> n \in list
      BY <1>6, <2>1
  <2>5. Readable(c, text) <=> text # NoText
      BY <1>5, <1>8
  <2> QED
      BY <1>4, <2>2, <2>3, <2>4, <2>5 DEF Agrees, Membership
<1> QED
    BY <1>1, <1>7, <1>8

LEMMA OthersAgree ==
    ASSUME NEW c, NEW text, Reads(c, text),
           c.operator \in {"empty", "notempty", "prefix", "suffix"} \cup Presence
    PROVE  Agrees(c, text)
<1>1. text.blank \in BOOLEAN
    BY DEF Reads, IsText
<1>2. CASE c.operator \in {"prefix", "suffix"}
    BY <1>2 DEF Agrees, Reads, Matches, Readable, PlainlyHolds, Plain, Opposite, Order, Membership
<1>3. CASE c.operator \in {"empty", "notpresent", "notempty", "present"}
  <2>1. Plain(c) \in {"empty", "notpresent"}
      BY <1>3 DEF Plain, Opposite
  <2>2. Readable(c, text) /\ (PlainlyHolds(c, text) <=> text.blank)
      BY <2>1 DEF Readable, PlainlyHolds
  <2>3. c.operator = Plain(c) <=> c.operator \in {"empty", "notpresent"}
      BY <1>3, <2>1 DEF Plain, Opposite
  <2>4. Matches(c, text) <=> \/ c.operator \in {"empty", "notpresent"} /\ text.blank
                             \/ c.operator \in {"notempty", "present"} /\ ~text.blank
      BY <1>3 DEF Reads, Matches, Order, Membership
  <2> QED
      BY <1>1, <1>3, <2>2, <2>3, <2>4 DEF Agrees
<1> QED
    BY <1>2, <1>3 DEF Presence

LEMMA TruthAgrees ==
    ASSUME NEW c, NEW text, Reads(c, text), c.operator \in {"true", "false"}
    PROVE  Agrees(c, text)
<1> DEFINE B == text.boolean
<1>1. B \subseteq BOOLEAN /\ AtMostOne(B)
    BY DEF Reads, IsText
<1>2. NoText.boolean = {}
    BY DataAssumption
<1>3. B # {} => text # NoText
    BY <1>2
<1>4. Plain(c) = "true"
    BY DEF Plain, Opposite
<1>5. Readable(c, text) <=> B # {}
    BY <1>4 DEF Readable
<1>6. PlainlyHolds(c, text) <=> B = {TRUE}
    BY <1>4 DEF PlainlyHolds
<1>7. Matches(c, text) <=> text # NoText /\ \/ c.operator = "true" /\ TRUE \in B
                                            \/ c.operator = "false" /\ FALSE \in B
    BY DEF Reads, Matches, Order, Membership
<1> HIDE DEF B
<1>8. TRUE \in B <=> B = {TRUE}
    BY <1>1, Zenon DEF AtMostOne
<1>9. FALSE \in B <=> B # {} /\ B # {TRUE}
    BY <1>1, Zenon DEF AtMostOne
<1>10. B = {TRUE} => B # {}
    BY Zenon
<1> QED
    BY <1>3, <1>4, <1>5, <1>6, <1>7, <1>8, <1>9, <1>10 DEF Agrees

\* A constraint matches an entity if and only if it says so of it.
LEMMA MatchesSatisfies ==
    ASSUME NEW c, Known(c), NEW e \in Entity
    PROVE  Matches(c, TextOf(c, e)) <=> Satisfies(e, c)
<1> DEFINE text == TextOf(c, e)
<1>1. Satisfies(e, c) <=> /\ c.operator \in Operators[c.type]
                          /\ Readable(c, text)
                          /\ PlainlyHolds(c, text) <=> c.operator = Plain(c)
    BY DEF Satisfies, TextOf
<1>2. IsText(text)
    BY DEF Known, IsConstraint
<1> HIDE DEF text
<1>3. CASE c.operator \notin Operators[c.type]
    BY <1>1, <1>3 DEF Matches, text
<1>4. CASE c.operator \in Operators[c.type]
  <2>1. Reads(c, text)
      BY <1>2, <1>4 DEF Reads
  <2>2. c.operator \in Textual \cup Order \cup Presence \cup {"true", "false"}
      BY <2>1, OperatorIsKnown
  <2>3. Agrees(c, text)
    <3>1. CASE c.operator \in Order
        BY <2>1, <3>1, OrderAgrees
    <3>2. CASE c.operator \in Membership
        BY <2>1, <3>2, MembershipAgrees
    <3>3. CASE c.operator \in {"empty", "notempty", "prefix", "suffix"} \cup Presence
        BY <2>1, <3>3, OthersAgree
    <3>4. CASE c.operator \in {"true", "false"}
        BY <2>1, <3>4, TruthAgrees
    <3> QED
        BY <2>2, <3>1, <3>2, <3>3, <3>4 DEF Textual, Order
  <2> QED
      BY <1>1, <1>4, <2>3 DEF Agrees, text
<1> QED
    BY <1>3, <1>4

----------------------------------------------------------------------------
(* Segments, rules and rollouts.                                           *)

LEMMA AllOfThem ==
    ASSUME NEW S, IsFiniteSet(S), NEW T, T \subseteq S
    PROVE  Cardinality(T) = Cardinality(S) <=> T = S
BY FS_Subset

LEMMA SegmentHolds ==
    ASSUME NEW s, IsSegment(s), ~ConstraintsFail(s), NEW e \in Entity
    PROVE  MatchConstraints(s, e) <=> Holds(s, e)
<1> DEFINE matches == {c \in s.constraints : Matches(c, TextOf(c, e))}
<1>1. \A c \in s.constraints : Matches(c, TextOf(c, e)) <=> Satisfies(e, c)
    BY MatchesSatisfies DEF IsSegment, ConstraintsFail, Known
<1>2. MatchConstraints(s, e) <=>
        \/ s.match = "ALL" /\ Cardinality(matches) = Cardinality(s.constraints)
        \/ s.match = "ANY" /\ (s.constraints = {} \/ matches # {})
    BY DEF MatchConstraints
<1>3. Cardinality(matches) = Cardinality(s.constraints) <=> matches = s.constraints
    BY AllOfThem DEF IsSegment
<1>4. matches = s.constraints <=> \A c \in s.constraints : Satisfies(e, c)
    BY <1>1
<1>5. matches # {} <=> \E c \in s.constraints : Satisfies(e, c)
    BY <1>1
<1> HIDE DEF matches
<1>6. CASE s.match = "ALL"
    BY <1>2, <1>3, <1>4, <1>6 DEF Holds
<1>7. CASE s.match = "ANY"
    BY <1>2, <1>5, <1>7 DEF Holds
<1> QED
    BY <1>6, <1>7 DEF IsSegment

LEMMA SegmentsHold ==
    ASSUME NEW ranked, AreRanked(ranked), NEW i \in DOMAIN ranked, NEW e \in Entity,
           \A s \in ranked[i].segments : ~ConstraintsFail(s)
    PROVE  SegmentsMatch(ranked[i].segments, ranked[i].operator, e) <=> InSegments(ranked[i], e)
<1> DEFINE x == ranked[i]
           matched == MatchedSegments(x.segments, e)
<1>1. /\ x.operator \in {"AND", "OR"} /\ IsFiniteSet(x.segments)
      /\ \A s \in x.segments : IsSegment(s)
    BY DEF AreRanked
<1>2. \A s \in x.segments : MatchConstraints(s, e) <=> Holds(s, e)
    BY <1>1, SegmentHolds
<1> HIDE DEF x
<1>3. matched \subseteq x.segments
    BY DEF MatchedSegments
<1>4. Cardinality(matched) = Cardinality(x.segments) <=> matched = x.segments
    BY <1>1, <1>3, AllOfThem
<1>5. matched = x.segments <=> \A s \in x.segments : Holds(s, e)
    BY <1>2 DEF MatchedSegments
<1>6. matched # {} <=> \E s \in x.segments : Holds(s, e)
    BY <1>2 DEF MatchedSegments
<1>7. SegmentsMatch(x.segments, x.operator, e) <=>
        \/ x.operator = "OR" /\ matched # {}
        \/ x.operator = "AND" /\ Cardinality(matched) = Cardinality(x.segments)
    BY DEF SegmentsMatch
<1> HIDE DEF matched
<1>8. SegmentsMatch(x.segments, x.operator, e) <=> InSegments(x, e)
    BY <1>1, <1>4, <1>5, <1>6, <1>7 DEF InSegments
<1> QED
    BY <1>8 DEF x

LEMMA RanksInOrder ==
    ASSUME NEW ranked, AreRanked(ranked), NEW i \in DOMAIN ranked
    PROVE  /\ FailsAt(ranked, i) <=> \E s \in ranked[i].segments : ConstraintsFail(s)
           /\ i \in Nat /\ i > 0
<1>1. i \in 1..Len(ranked) /\ Len(ranked) \in Nat /\ ranked[i].rank = i
    BY DEF AreRanked
<1>2. i > 1 => i - 1 \in DOMAIN ranked /\ ranked[i - 1].rank = i - 1
    BY <1>1 DEF AreRanked
<1>3. ~OutOfOrder(ranked, i)
    BY <1>1, <1>2 DEF OutOfOrder
<1> QED
    BY <1>1, <1>3 DEF FailsAt

\* The first hit, if the first stop is one and hits are stops.
LEMMA FirstHit ==
    ASSUME NEW stops, stops \subseteq Nat, NEW hits, hits \subseteq stops,
           stops # {}, Min(stops) \in hits
    PROVE  Min(hits) = Min(stops)
<1>1. \A y \in stops : Min(stops) <= y
    BY MinLeast
<1>2. hits \subseteq Nat /\ \A y \in hits : Min(stops) <= y
    BY <1>1
<1> QED
    BY <1>2, MinIs

\* The rule that decides is the first whose segments hold, unless a segment of an
\* earlier one is broken.
LEMMA DecidingIsFirst ==
    ASSUME NEW rules, AreRanked(rules), NEW e \in Entity
    PROVE  LET i == DecidingRule(rules, e)
           IN  /\ i \in {0} \cup DOMAIN rules /\ i \in Nat
               /\ i = 0 => RuleHits(rules, e) = {} /\ ~SomeFails(rules)
               /\ i > 0 /\ ~FailsAt(rules, i) =>
                    RuleHits(rules, e) # {} /\ Min(RuleHits(rules, e)) = i
               /\ ~SomeFails(rules) => ~(i > 0 /\ FailsAt(rules, i))
<1> DEFINE i == DecidingRule(rules, e)
           hits == RuleHits(rules, e)
           stops == {k \in DOMAIN rules :
                       FailsAt(rules, k) \/ SegmentsMatch(rules[k].segments, rules[k].operator, e)}
<1>1. i = IF stops = {} THEN 0 ELSE Min(stops)
    BY DEF DecidingRule, FirstIndex
<1>2. stops \subseteq DOMAIN rules /\ DOMAIN rules \subseteq Nat /\ \A k \in DOMAIN rules : k > 0
    BY RanksInOrder
<1>3. ASSUME NEW k \in DOMAIN rules, ~FailsAt(rules, k) PROVE k \in stops <=> k \in hits
  <2>1. SegmentsMatch(rules[k].segments, rules[k].operator, e) <=> InSegments(rules[k], e)
      BY <1>3, RanksInOrder, SegmentsHold
  <2> QED
      BY <1>3, <2>1 DEF RuleHits
<1>4. \A k \in DOMAIN rules : FailsAt(rules, k) => k \in stops
    OBVIOUS
<1>5. hits \subseteq DOMAIN rules
    BY DEF RuleHits
<1>6. \A k \in DOMAIN rules : FailsAt(rules, k) <=> \E s \in rules[k].segments : ConstraintsFail(s)
    BY RanksInOrder
<1> HIDE DEF stops, hits, i
<1>7. hits \subseteq stops
    BY <1>3, <1>4, <1>5
<1>8. CASE stops = {}
  <2>1. i = 0 /\ hits = {} /\ ~SomeFails(rules)
      BY <1>1, <1>4, <1>6, <1>7, <1>8 DEF SomeFails
  <2> QED
      BY <2>1 DEF i, hits
<1>9. CASE stops # {}
  <2>1. i \in stops /\ i = Min(stops)
      BY <1>1, <1>2, <1>9, MinLeast
  <2>2. i \in DOMAIN rules /\ i \in Nat /\ i > 0
      BY <1>2, <2>1
  <2>3. ASSUME ~FailsAt(rules, i) PROVE hits # {} /\ Min(hits) = i
    <3>1. i \in hits
        BY <1>3, <2>1, <2>2, <2>3
    <3> QED
        BY <1>2, <1>7, <1>9, <2>1, <3>1, FirstHit
  <2>4. ~SomeFails(rules) => ~FailsAt(rules, i)
      BY <1>6, <2>2 DEF SomeFails
  <2> QED
      BY <2>2, <2>3, <2>4 DEF i, hits
<1> QED
    BY <1>8, <1>9

\* What the rollouts say about an entity, else the flag.
BooleanPromise(enabled_, rollouts, e) ==
    IF RolloutHits(rollouts, e) = {} THEN Response(TRUE, enabled_, "DEFAULT")
    ELSE Response(TRUE, rollouts[Min(RolloutHits(rollouts, e))].value, "MATCH")

LEMMA BooleanIsFirst ==
    ASSUME NEW rollouts, AreRanked(rollouts), NEW e \in Entity, NEW on,
           \A i \in DOMAIN rollouts : rollouts[i].percentage \in Int
    PROVE  LET r == BooleanResponse(on, rollouts, e)
           IN  /\ r = Failed \/ r = BooleanPromise(on, rollouts, e)
               /\ ~SomeFails(rollouts) => r = BooleanPromise(on, rollouts, e)
<1> DEFINE hits == RolloutHits(rollouts, e)
           stops == {k \in DOMAIN rollouts :
                       FailsAt(rollouts, k) \/ RolloutMatches(rollouts[k], e)}
           i == IF stops = {} THEN 0 ELSE Min(stops)
           r == BooleanResponse(on, rollouts, e)
<1>1. r = CASE i = 0 -> Response(TRUE, on, "DEFAULT")
            [] i > 0 /\ FailsAt(rollouts, i) -> Failed
            [] OTHER -> Response(TRUE, rollouts[i].value, "MATCH")
    BY DEF BooleanResponse, FirstIndex
<1>2. /\ stops \subseteq DOMAIN rollouts /\ DOMAIN rollouts \subseteq Nat
      /\ \A k \in DOMAIN rollouts : k > 0
    BY RanksInOrder
<1>3. ASSUME NEW k \in DOMAIN rollouts, ~FailsAt(rollouts, k) PROVE k \in stops <=> k \in hits
  <2>1. SegmentsMatch(rollouts[k].segments, rollouts[k].operator, e) <=> InSegments(rollouts[k], e)
      BY <1>3, RanksInOrder, SegmentsHold
  <2>2. e.percentile * 100 < rollouts[k].percentage <=> 100 * e.percentile < rollouts[k].percentage
    <3>1. e.percentile \in Int
        BY DataAssumption
    <3> QED
        BY <3>1
  <2>3. RolloutMatches(rollouts[k], e) <=>
          \/ rollouts[k].type = "threshold" /\ 100 * e.percentile < rollouts[k].percentage
          \/ rollouts[k].type = "segment" /\ InSegments(rollouts[k], e)
      BY <2>1, <2>2 DEF RolloutMatches
  <2>4. k \in stops <=> RolloutMatches(rollouts[k], e)
      BY <1>3
  <2> QED
      BY <2>3, <2>4 DEF RolloutHits
<1>4. \A k \in DOMAIN rollouts : FailsAt(rollouts, k) => k \in stops
    OBVIOUS
<1>5. hits \subseteq DOMAIN rollouts
    BY DEF RolloutHits
<1>6. \A k \in DOMAIN rollouts :
         FailsAt(rollouts, k) <=> \E s \in rollouts[k].segments : ConstraintsFail(s)
    BY RanksInOrder
<1> HIDE DEF stops, hits, r
<1>7. hits \subseteq stops
    BY <1>3, <1>4, <1>5
<1>8. CASE stops = {}
  <2>1. r = Response(TRUE, on, "DEFAULT") /\ hits = {}
      BY <1>1, <1>7, <1>8
  <2> QED
      BY <2>1 DEF BooleanPromise, hits, r
<1>9. CASE stops # {}
  <2>1. i \in stops /\ i = Min(stops)
      BY <1>2, <1>9, MinLeast
  <2> HIDE DEF i
  <2>2. i \in DOMAIN rollouts /\ i \in Nat /\ i > 0
      BY <1>2, <2>1
  <2>3. CASE FailsAt(rollouts, i)
    <3>1. r = Failed
        BY <1>1, <2>2, <2>3
    <3>2. SomeFails(rollouts)
        BY <1>6, <2>2, <2>3 DEF SomeFails
    <3> QED
        BY <3>1, <3>2 DEF r
  <2>4. CASE ~FailsAt(rollouts, i)
    <3>1. i \in hits
        BY <1>3, <2>1, <2>2, <2>4
    <3>2. hits # {} /\ Min(hits) = i
        BY <1>2, <1>7, <1>9, <2>1, <3>1, FirstHit
    <3>3. r = Response(TRUE, rollouts[i].value, "MATCH")
      <4>1. ~(i = 0) /\ ~(i > 0 /\ FailsAt(rollouts, i))
          BY <2>2, <2>4
      <4> QED
          BY <1>1, <4>1, Zenon
    <3> QED
        BY <3>2, <3>3 DEF BooleanPromise, hits, r
  <2> QED
      BY <2>3, <2>4
<1> QED
    BY <1>8, <1>9

----------------------------------------------------------------------------
(* The request.  What the inductive invariant says at each of its steps:   *)
(* what it has read, while nothing was replaced, is still what is served.  *)

RequestType ==
    /\ served \in [Ref -> [content : Content, build : Nat]] /\ builds \in Nat
    /\ pc \in {"idle", "flag", "rules", "distributions", "rollouts", "copyRules",
               "copyDistributions", "copyRollouts", "done"}
    /\ method \in Method /\ entity \in Entity /\ ref \in Ref /\ inner \in Ref
    /\ method # "Batch" => inner = ref

\* What was read was served at some time since the request began.
ReadMeanwhile ==
    /\ pc = "flag" => served[ref].content \in seen
    /\ pc = "rollouts" => \E content \in seen : enabled = Flag[content].enabled
    /\ pc = "distributions" => rule.distributions \in Seq(Allotted)

\* What was read is still served.
ReadNow ==
    settled =>
        /\ pc = "rules" => Asked.type = "variant" /\ Asked.enabled
        /\ pc = "rollouts" => Asked.type = "boolean" /\ enabled = Asked.enabled
        /\ pc = "distributions" /\ ref = BaseRef =>
             /\ Asked.type = "variant" /\ Asked.enabled
             /\ rule.build = served[BaseRef].build
             /\ rule.index = DecidingRule(Asked.rules, entity)
             /\ rule.index > 0 /\ ~FailsAt(Asked.rules, rule.index)

Pairs(rules) == UNION {{i} \X rules[i].segments : i \in DOMAIN rules}
GoneThrough(rules, left, i) == \E s \in rules[i].segments : <<i, s>> \notin left

\* A client's distributions of a rule: the rule's, repeated for further segments.
Given(g, r) ==
    LET d == r.distributions
    IN  /\ g \in Seq(Allotted) /\ Len(d) <= Len(g)
        /\ \A i \in 1..Len(d) : g[i] = d[i]
        /\ \A i \in 1..Len(g) : \E j \in 1..Len(d) : g[i] = d[j]
        /\ Cardinality(r.segments) <= 1 => Len(g) = Len(d)

\* The loop over the rules and their segments: the rules gone through are listed, in
\* order and with their distributions.
Progress(rules, given, listed, left) ==
    /\ left \subseteq Pairs(rules)
    /\ listed \in Seq(DOMAIN rules)
    /\ \A k, l \in DOMAIN listed : k <= l => listed[k] <= listed[l]
    /\ \A k \in DOMAIN listed, t \in left : listed[k] <= t[1]
    /\ \A i \in DOMAIN rules :
         (\E k \in DOMAIN listed : listed[k] = i) <=> GoneThrough(rules, left, i)
    /\ DOMAIN given = DOMAIN rules
    /\ \A i \in DOMAIN rules : IF GoneThrough(rules, left, i) THEN Given(given[i], rules[i])
                               ELSE given[i] = <<>>

Fresh == [type |-> Asked.type, enabled |-> Asked.enabled, rules |-> <<>>,
          rollouts |-> <<>>, given |-> <<>>, listed |-> <<>>]

PartlyCopied ==
    /\ copy = [type |-> Asked.type, enabled |-> Asked.enabled, rules |-> Asked.rules,
               rollouts |-> <<>>, given |-> copy.given, listed |-> copy.listed]
    /\ rule.build = served[ref].build
    /\ Progress(Asked.rules, copy.given, copy.listed, todo)

CopySound ==
    settled /\ method = "Snapshot" =>
        /\ pc = "copyRules" => Asked.type = "variant" /\ copy = Fresh
        /\ pc = "copyRollouts" => Asked.type = "boolean" /\ copy = Fresh
        /\ pc = "copyDistributions" => Asked.type = "variant" /\ PartlyCopied
        /\ pc = "done" /\ Asked.type = "none" => copy = Fresh
        /\ pc = "done" /\ Asked.type = "boolean" =>
             copy = [Fresh EXCEPT !.rollouts = Asked.rollouts]
        /\ pc = "done" /\ Asked.type = "variant" => PartlyCopied /\ todo = {}

OfSnapshot ==
    /\ pc \in {"rules", "distributions", "rollouts"} => method # "Snapshot"
    /\ pc \in {"copyRules", "copyDistributions", "copyRollouts"} => method = "Snapshot"

EvalInv == /\ RequestType /\ ReadMeanwhile /\ ReadNow /\ CopySound /\ OfSnapshot
           /\ DefaultReferenceKept

\* Facts about the data, from the assumptions.
LEMMA AskedIsFlag ==
    ASSUME RequestType
    PROVE  /\ \A r \in Ref : served[r].content \in Content /\ IsFlag(Flag[served[r].content])
           /\ IsFlag(Asked) /\ Asked.type \in {"none", "boolean", "variant"}
           /\ AreRanked(Asked.rules) /\ AreRanked(Asked.rollouts)
<1>1. \A r \in Ref : served[r].content \in Content /\ IsFlag(Flag[served[r].content])
    BY DataAssumption DEF RequestType
<1>2. IsFlag(Asked)
    BY <1>1 DEF RequestType, Asked
<1> QED
    BY <1>1, <1>2 DEF IsFlag

LEMMA RepeatsItself ==
    ASSUME NEW d \in Seq(Allotted)
    PROVE  Repeats(d, d)
BY DEF Repeats

----------------------------------------------------------------------------
(* The loop over rules and segments.                                       *)

LEMMA PairsAre ==
    ASSUME NEW rules, NEW t
    PROVE  t \in Pairs(rules) <=> \E i \in DOMAIN rules : \E s \in rules[i].segments : t = <<i, s>>
BY DEF Pairs

LEMMA ProgressStarts ==
    ASSUME NEW rules, AreRanked(rules)
    PROVE  Progress(rules, [i \in DOMAIN rules |-> <<>>], <<>>, Pairs(rules))
<1> DEFINE given == [i \in DOMAIN rules |-> <<>>]
           left == Pairs(rules)
<1>1. ASSUME NEW i \in DOMAIN rules PROVE ~GoneThrough(rules, left, i)
    BY PairsAre DEF GoneThrough
<1>2. <<>> \in Seq(DOMAIN rules) /\ DOMAIN <<>> = {}
    OBVIOUS
<1>3. DOMAIN given = DOMAIN rules /\ \A i \in DOMAIN rules : given[i] = <<>>
    OBVIOUS
<1> HIDE DEF given, left
<1>4. Progress(rules, given, <<>>, left)
    BY <1>1, <1>2, <1>3 DEF Progress, left
<1> QED
    BY <1>4 DEF given, left

\* The distributions of a rule, after one more of its segments.
LEMMA GivenOnce ==
    ASSUME NEW r, r.distributions \in Seq(Allotted)
    PROVE  Given(<<>> \o r.distributions, r)
BY DEF Given

LEMMA GivenAgain ==
    ASSUME NEW r, r.distributions \in Seq(Allotted), NEW g, Given(g, r),
           Cardinality(r.segments) > 1, Cardinality(r.segments) \in Nat
    PROVE  Given(g \o r.distributions, r)
<1> DEFINE d == r.distributions
           h == g \o d
<1>1. g \in Seq(Allotted) /\ d \in Seq(Allotted) /\ Len(d) <= Len(g)
    BY DEF Given
<1>2. /\ h \in Seq(Allotted) /\ Len(h) = Len(g) + Len(d)
      /\ \A i \in 1..Len(g) : h[i] = g[i]
      /\ \A i \in 1..Len(d) : h[Len(g) + i] = d[i]
    BY <1>1
<1>3. Len(g) \in Nat /\ Len(d) \in Nat
    BY <1>1
<1>4. Len(d) <= Len(h)
    BY <1>1, <1>2, <1>3
<1> HIDE DEF h
<1>5. \A i \in 1..Len(d) : h[i] = d[i]
  <2>1. \A i \in 1..Len(d) : i \in 1..Len(g)
      BY <1>1, <1>3
  <2>2. \A i \in 1..Len(d) : g[i] = d[i]
      BY DEF Given
  <2> QED
      BY <1>2, <2>1, <2>2
<1>6. ASSUME NEW i \in 1..Len(h) PROVE \E j \in 1..Len(d) : h[i] = d[j]
  <2>1. CASE i <= Len(g)
    <3>1. i \in 1..Len(g)
        BY <1>2, <1>3, <2>1
    <3>2. \E j \in 1..Len(d) : g[i] = d[j]
        BY <3>1 DEF Given
    <3> QED
        BY <1>2, <3>1, <3>2
  <2>2. CASE i > Len(g)
    <3>1. i - Len(g) \in 1..Len(d) /\ Len(g) + (i - Len(g)) = i
        BY <1>2, <1>3, <2>2
    <3>2. h[Len(g) + (i - Len(g))] = d[i - Len(g)]
        BY <1>2, <3>1
    <3> QED
        BY <3>1, <3>2
  <2> QED
      BY <1>2, <1>3, <2>1, <2>2
<1>7. ~(Cardinality(r.segments) <= 1)
    OBVIOUS
<1>8. Given(h, r)
    BY <1>2, <1>4, <1>5, <1>6, <1>7 DEF Given
<1> QED
    BY <1>8 DEF h

LEMMA TwoSegments ==
    ASSUME NEW S, IsFiniteSet(S), NEW s \in S, NEW t \in S, s # t
    PROVE  Cardinality(S) \in Nat /\ Cardinality(S) > 1
<1>1. Cardinality(S) \in Nat
    BY FS_CardinalityType
<1>2. Cardinality(S) # 0
    BY FS_EmptySet
<1>3. Cardinality(S) # 1
    BY FS_Singleton
<1> QED
    BY <1>1, <1>2, <1>3

\* One more segment of a rule, of which none earlier is left.
LEMMA ProgressNext ==
    ASSUME NEW rules, AreRanked(rules),
           \A i \in DOMAIN rules : rules[i].distributions \in Seq(Allotted),
           NEW given, NEW listed, NEW left, Progress(rules, given, listed, left),
           NEW next \in left, \A other \in left : next[1] <= other[1]
    PROVE  /\ next[1] \in DOMAIN rules
           /\ Progress(rules, [given EXCEPT ![next[1]] = @ \o rules[next[1]].distributions],
                       Append(listed, next[1]), left \ {next})
<1>1. next \in Pairs(rules)
    BY DEF Progress
<1>2. PICK i \in DOMAIN rules : \E s \in rules[i].segments : next = <<i, s>>
    BY <1>1, PairsAre
<1>3. PICK s \in rules[i].segments : next = <<i, s>>
    BY <1>2
<1>4. next[1] = i
    BY <1>3
<1> DEFINE d == rules[i].distributions
           given1 == [given EXCEPT ![i] = @ \o d]
           listed1 == Append(listed, i)
           left1 == left \ {next}
<1>5. i \in Nat /\ DOMAIN rules \subseteq Nat
    BY RanksInOrder
<1>6. /\ listed \in Seq(DOMAIN rules) /\ Len(listed) \in Nat /\ DOMAIN listed = 1..Len(listed)
      /\ \A k \in DOMAIN listed : listed[k] \in DOMAIN rules
    BY DEF Progress
<1>7. /\ listed1 \in Seq(DOMAIN rules) /\ DOMAIN listed1 = 1..(Len(listed) + 1)
      /\ listed1[Len(listed) + 1] = i
      /\ \A k \in DOMAIN listed : listed1[k] = listed[k]
    BY <1>6
<1>8. \A k \in DOMAIN listed1 : k \in DOMAIN listed \/ k = Len(listed) + 1
    BY <1>6, <1>7
<1>9. \A k \in DOMAIN listed : k \in DOMAIN listed1 /\ ~(Len(listed) + 1 <= k)
    BY <1>6, <1>7
<1> HIDE DEF listed1
<1>10. \A k \in DOMAIN listed : listed[k] <= i
    BY <1>4 DEF Progress
<1>11. ASSUME NEW k \in DOMAIN listed1, NEW l \in DOMAIN listed1, k <= l
       PROVE  listed1[k] <= listed1[l]
  <2>1. CASE l \in DOMAIN listed
    <3>1. k \in DOMAIN listed
        BY <1>8, <1>9, <1>11, <2>1
    <3> QED
        BY <1>7, <1>11, <2>1, <3>1 DEF Progress
  <2>2. CASE l = Len(listed) + 1
    <3>1. listed1[l] = i
        BY <1>7, <2>2
    <3>2. CASE k \in DOMAIN listed
        BY <1>7, <1>10, <3>1, <3>2
    <3>3. CASE k = Len(listed) + 1
        BY <1>5, <1>7, <3>1, <3>3
    <3> QED
        BY <1>8, <3>2, <3>3
  <2> QED
      BY <1>8, <2>1, <2>2
<1>12. ASSUME NEW k \in DOMAIN listed1, NEW t \in left1 PROVE listed1[k] <= t[1]
  <2>1. t \in left
      OBVIOUS
  <2>2. CASE k \in DOMAIN listed
      BY <1>7, <2>1, <2>2 DEF Progress
  <2>3. CASE k = Len(listed) + 1
      BY <1>4, <1>7, <2>1, <2>3
  <2> QED
      BY <1>8, <2>2, <2>3
<1>13. GoneThrough(rules, left1, i)
    BY <1>3 DEF GoneThrough
<1>14. ASSUME NEW j \in DOMAIN rules, j # i
       PROVE  GoneThrough(rules, left1, j) <=> GoneThrough(rules, left, j)
  <2>1. \A x : <<j, x>> # next
      BY <1>3, <1>14
  <2> QED
      BY <2>1 DEF GoneThrough
<1> HIDE DEF left1
<1>15. ASSUME NEW j \in DOMAIN rules
       PROVE  (\E k \in DOMAIN listed1 : listed1[k] = j) <=> GoneThrough(rules, left1, j)
  <2>1. CASE j = i
    <3>1. Len(listed) + 1 \in DOMAIN listed1
        BY <1>6, <1>7
    <3> QED
        BY <1>7, <1>13, <2>1, <3>1
  <2>2. CASE j # i
    <3>1. (\E k \in DOMAIN listed1 : listed1[k] = j) <=> \E k \in DOMAIN listed : listed[k] = j
        BY <1>7, <1>8, <1>9, <2>2
    <3>2. (\E k \in DOMAIN listed : listed[k] = j) <=> GoneThrough(rules, left, j)
        BY DEF Progress
    <3> QED
        BY <1>14, <2>2, <3>1, <3>2
  <2> QED
      BY <2>1, <2>2
<1>16. /\ DOMAIN given = DOMAIN rules
       /\ \A j \in DOMAIN rules : IF GoneThrough(rules, left, j) THEN Given(given[j], rules[j])
                                  ELSE given[j] = <<>>
    BY DEF Progress
<1>17. DOMAIN given1 = DOMAIN rules /\ given1[i] = given[i] \o d
       /\ \A j \in DOMAIN rules : j # i => given1[j] = given[j]
    BY <1>16
<1> HIDE DEF given1
<1>18. Given(given1[i], rules[i])
  <2>1. CASE GoneThrough(rules, left, i)
    <3>1. PICK t \in rules[i].segments : <<i, t>> \notin left
        BY <2>1 DEF GoneThrough
    <3>2. s # t /\ IsFiniteSet(rules[i].segments)
        BY <1>3, <3>1 DEF AreRanked
    <3>3. Cardinality(rules[i].segments) \in Nat /\ Cardinality(rules[i].segments) > 1
        BY <3>2, TwoSegments
    <3> QED
        BY <1>16, <1>17, <2>1, <3>3, GivenAgain
  <2>2. CASE ~GoneThrough(rules, left, i)
      BY <1>16, <1>17, <2>2, GivenOnce
  <2> QED
      BY <2>1, <2>2
<1>19. ASSUME NEW j \in DOMAIN rules
       PROVE  IF GoneThrough(rules, left1, j) THEN Given(given1[j], rules[j])
              ELSE given1[j] = <<>>
    BY <1>13, <1>14, <1>16, <1>17, <1>18
<1>20. left1 \subseteq Pairs(rules)
    BY DEF Progress, left1
<1>21. Progress(rules, given1, listed1, left1)
    BY <1>7, <1>11, <1>12, <1>15, <1>17, <1>19, <1>20 DEF Progress
<1> QED
    BY <1>4, <1>21 DEF given1, listed1, left1

----------------------------------------------------------------------------
(* What a client makes of the copy.                                        *)

Listing(rules, given, listed) ==
    [k \in DOMAIN listed |->
        [rank |-> rules[listed[k]].rank, operator |-> rules[listed[k]].operator,
         segments |-> rules[listed[k]].segments, distributions |-> given[listed[k]]]]

\* The client leaves its loop at the rule at which the server does, which is listed
\* if it has a segment.
LEMMA ClientDecides ==
    ASSUME NEW rules, AreRanked(rules), ~SomeFails(rules), NEW e \in Entity,
           NEW given, NEW listed, Progress(rules, given, listed, {})
    PROVE  LET i == DecidingRule(rules, e)
               j == DecidingRule(Listing(rules, given, listed), e)
           IN  /\ i = 0 => j = 0
               /\ i > 0 /\ rules[i].segments # {} =>
                    j \in Nat /\ j > 0 /\ j \in DOMAIN listed /\ listed[j] = i
<1> DEFINE L == Listing(rules, given, listed)
           i == DecidingRule(rules, e)
           j == DecidingRule(L, e)
           hits == RuleHits(rules, e)
           Stops(k) == FailsAt(L, k) \/ SegmentsMatch(L[k].segments, L[k].operator, e)
           stops == {k \in DOMAIN L : Stops(k)}
<1>1. j = IF stops = {} THEN 0 ELSE Min(stops)
    BY DEF DecidingRule, FirstIndex
<1>2. /\ i \in {0} \cup DOMAIN rules /\ i \in Nat
      /\ i = 0 => hits = {}
      /\ i > 0 => hits # {} /\ Min(hits) = i
    BY DecidingIsFirst
<1>3. /\ DOMAIN listed = 1..Len(listed) /\ Len(listed) \in Nat
      /\ \A k \in DOMAIN listed : listed[k] \in DOMAIN rules
      /\ \A k, l \in DOMAIN listed : k <= l => listed[k] <= listed[l]
    BY DEF Progress
<1>4. DOMAIN L = DOMAIN listed
    BY DEF Listing
<1>5. \A k \in DOMAIN listed : /\ L[k].rank = rules[listed[k]].rank
                               /\ L[k].operator = rules[listed[k]].operator
                               /\ L[k].segments = rules[listed[k]].segments
    BY DEF Listing
<1>6. \A n \in DOMAIN rules : rules[n].rank = n /\ n \in Nat
    BY RanksInOrder DEF AreRanked
<1> HIDE DEF L, i, hits, j
<1>7. ASSUME NEW k \in DOMAIN listed PROVE ~FailsAt(L, k)
  <2>1. \A s \in L[k].segments : ~ConstraintsFail(s)
      BY <1>3, <1>5 DEF SomeFails
  <2>2. ~OutOfOrder(L, k)
    <3> SUFFICES ASSUME k > 1 PROVE ~(L[k].rank < L[k - 1].rank)
        BY DEF OutOfOrder
    <3>1. k - 1 \in DOMAIN listed /\ k - 1 <= k
        BY <1>3
    <3>2. listed[k - 1] <= listed[k] /\ listed[k] \in DOMAIN rules /\ listed[k - 1] \in DOMAIN rules
        BY <1>3, <3>1
    <3>3. L[k].rank = listed[k] /\ L[k - 1].rank = listed[k - 1]
        BY <1>5, <1>6, <3>1, <3>2
    <3>4. listed[k] \in Nat /\ listed[k - 1] \in Nat
        BY <1>6, <3>2
    <3> QED
        BY <3>2, <3>3, <3>4
  <2> QED
      BY <2>1, <2>2 DEF FailsAt
<1>8. ASSUME NEW k \in DOMAIN listed PROVE k \in stops <=> listed[k] \in hits
  <2>1. listed[k] \in DOMAIN rules
      BY <1>3
  <2>2. \A s \in rules[listed[k]].segments : ~ConstraintsFail(s)
      BY <2>1 DEF SomeFails
  <2>3. SegmentsMatch(rules[listed[k]].segments, rules[listed[k]].operator, e)
          <=> InSegments(rules[listed[k]], e)
      BY <2>1, <2>2, SegmentsHold
  <2>4. Stops(k) <=> InSegments(rules[listed[k]], e)
      BY <1>5, <1>7, <2>3
  <2>5. k \in stops <=> Stops(k)
      BY <1>4
  <2> QED
      BY <2>1, <2>4, <2>5 DEF hits, RuleHits
<1>9. stops \subseteq DOMAIN listed /\ stops \subseteq Nat
    BY <1>3, <1>4
<1> HIDE DEF stops
<1>10. i = 0 => j = 0
    BY <1>1, <1>2, <1>8, <1>9
<1>11. ASSUME i > 0, rules[i].segments # {}
       PROVE  j \in Nat /\ j > 0 /\ j \in DOMAIN listed /\ listed[j] = i
  <2>1. i \in DOMAIN rules
      BY <1>2, <1>11
  <2>2. hits \subseteq Nat
      BY <1>6 DEF hits, RuleHits
  <2>3. i \in hits /\ \A n \in hits : i <= n
      BY <1>2, <1>11, <2>2, MinLeast
  <2>4. GoneThrough(rules, {}, i)
      BY <1>11 DEF GoneThrough
  <2>5. PICK k \in DOMAIN listed : listed[k] = i
      BY <2>1, <2>4 DEF Progress
  <2>6. k \in stops
      BY <1>8, <2>3, <2>5
  <2>7. j \in stops /\ j <= k
      BY <1>1, <1>9, <2>6, MinLeast
  <2>8. j \in DOMAIN listed /\ listed[j] \in hits
      BY <1>8, <1>9, <2>7
  <2>9. listed[j] <= listed[k] /\ i <= listed[j]
      BY <1>3, <2>3, <2>7, <2>8
  <2>10. listed[j] \in Nat /\ i \in Nat
      BY <1>2, <2>2, <2>8
  <2>11. listed[j] = i
      BY <2>5, <2>9, <2>10
  <2> QED
      BY <1>3, <2>8, <2>11
<1> QED
    BY <1>10, <1>11 DEF i, j, L

LEMMA GivenRepeats ==
    ASSUME NEW r, r.distributions \in Seq(Allotted), NEW g, Given(g, r),
           \/ Cardinality(r.segments) <= 1
           \/ Share(r.distributions, Len(r.distributions)) >= 10000
    PROVE  Repeats(g, r.distributions)
BY DEF Given, Repeats

----------------------------------------------------------------------------
(* What a flag promises, by its type.                                      *)

LEMMA PromiseIs ==
    ASSUME NEW f, NEW e
    PROVE  /\ f.type = "none" => Promise(f, e) = {Failed}
           /\ f.type = "boolean" => Promise(f, e) = {BooleanPromise(f.enabled, f.rollouts, e)}
           /\ f.type = "variant" /\ ~f.enabled => Promise(f, e) = {Disabled}
           /\ f.type = "variant" /\ f.enabled /\ RuleHits(f.rules, e) = {} =>
                Promise(f, e) = {NoMatch}
           /\ f.type = "variant" /\ f.enabled /\ RuleHits(f.rules, e) # {} =>
                Promise(f, e) = Outcomes(f.rules[Min(RuleHits(f.rules, e))].distributions, e)
<1>1. CASE f.type = "none"
    BY <1>1 DEF Promise
<1>2. CASE f.type = "boolean"
    BY <1>2 DEF Promise, BooleanPromise
<1>3. CASE f.type = "variant"
    BY <1>3 DEF Promise
<1>4. CASE f.type \notin {"none", "boolean", "variant"}
    BY <1>4
<1> QED
    BY <1>1, <1>2, <1>3, <1>4

\* A response of the flag's first matching rule.
LEMMA RulePromised ==
    ASSUME NEW f, IsFlag(f), f.type = "variant", f.enabled, NEW e \in Entity,
           NEW i, i = DecidingRule(f.rules, e), i > 0, ~FailsAt(f.rules, i),
           NEW D, Repeats(D, f.rules[i].distributions)
    PROVE  DistributionResponse(D, e) \in Promise(f, e)
<1>1. RuleHits(f.rules, e) # {} /\ Min(RuleHits(f.rules, e)) = i
    BY DecidingIsFirst DEF IsFlag
<1>2. Promise(f, e) = Outcomes(f.rules[i].distributions, e)
    BY <1>1, PromiseIs
<1>3. e.bucket \in 0..999
    BY DataAssumption DEF TotalBucketNum
<1> QED
    BY <1>2, <1>3, ResponsePromised

----------------------------------------------------------------------------
(* The invariant is inductive.                                             *)

LEMMA InvInit == Init => EvalInv
<1> SUFFICES ASSUME Init PROVE EvalInv
    OBVIOUS
<1>1. RequestType
    BY ServerAssumption DEF Init, RequestType, Method
<1>2. ReadMeanwhile /\ ReadNow /\ CopySound /\ OfSnapshot
    BY DEF Init, ReadMeanwhile, ReadNow, CopySound, OfSnapshot
<1>3. DefaultReferenceKept
    BY DEF Init, DefaultReferenceKept, Answered
<1> QED
    BY <1>1, <1>2, <1>3 DEF EvalInv

LEMMA InvStutter ==
    ASSUME EvalInv, UNCHANGED vars
    PROVE  EvalInv'
<1> USE DEF vars, requestVars
<1>1. Asked' = Asked /\ Fresh' = Fresh
    BY DEF Asked, Fresh
<1>2. RequestType' /\ ReadMeanwhile' /\ OfSnapshot'
    BY DEF EvalInv, RequestType, ReadMeanwhile, OfSnapshot
<1>3. ReadNow'
    BY <1>1 DEF EvalInv, ReadNow
<1>4. CopySound'
    BY <1>1 DEF EvalInv, CopySound, PartlyCopied
<1>5. DefaultReferenceKept'
    BY <1>1 DEF EvalInv, DefaultReferenceKept, Answered, Supported
<1> QED
    BY <1>2, <1>3, <1>4, <1>5 DEF EvalInv

LEMMA InvRebuild ==
    ASSUME EvalInv, NEW r \in Ref, NEW content \in Content, Rebuild(r, content)
    PROVE  EvalInv'
<1> USE DEF Rebuild
<1>1. RequestType'
    BY DEF EvalInv, RequestType
<1>2. ReadMeanwhile'
  <2>1. pc = "flag" => served'[ref].content \in seen'
      BY DEF EvalInv, RequestType, ReadMeanwhile
  <2>2. seen \subseteq seen'
      OBVIOUS
  <2> QED
      BY <2>1, <2>2 DEF EvalInv, ReadMeanwhile
<1>3. ReadNow' /\ CopySound' /\ DefaultReferenceKept'
    BY DEF ReadNow, CopySound, DefaultReferenceKept, Answered
<1>4. OfSnapshot'
    BY DEF EvalInv, OfSnapshot
<1> QED
    BY <1>1, <1>2, <1>3, <1>4 DEF EvalInv

LEMMA InvRequest ==
    ASSUME EvalInv, NEW m \in Method, NEW r \in Ref, NEW i \in Ref, NEW e \in Entity,
           Request(m, r, i, e)
    PROVE  EvalInv'
<1> USE DEF Request
<1>1. RequestType'
    BY DEF EvalInv, RequestType
<1>2. ReadMeanwhile' /\ ReadNow' /\ CopySound' /\ OfSnapshot'
    BY DEF ReadMeanwhile, ReadNow, CopySound, OfSnapshot
<1>3. DefaultReferenceKept'
    BY DEF DefaultReferenceKept, Answered
<1> QED
    BY <1>1, <1>2, <1>3 DEF EvalInv

LEMMA InvGetFlag ==
    ASSUME EvalInv, GetFlag
    PROVE  EvalInv'
<1> USE DEF GetFlag, Respond
<1>1. Asked' = Asked
    BY DEF Asked
<1>2. TypeOf(ref) = Asked.type /\ enabled' = Asked.enabled
    BY DEF TypeOf, Asked
<1>3. Asked.type \in {"none", "boolean", "variant"}
    BY AskedIsFlag DEF EvalInv
<1>4. /\ pc' \in {"done", "rollouts", "rules"} /\ method' # "Snapshot"
      /\ pc' = "rollouts" => Asked.type = "boolean"
      /\ pc' = "rules" => Asked.type = "variant" /\ Asked.enabled
      /\ pc' = "done" =>
           \/ Asked.type = "none" /\ response' = Failed
           \/ Asked.type = "boolean" /\ method = "Variant"
           \/ Asked.type = "variant" /\ method = "Boolean"
           \/ Asked.type = "variant" /\ ~Asked.enabled /\ response' = Disabled
    BY <1>2, <1>3
<1>5. RequestType'
    BY <1>4 DEF EvalInv, RequestType
<1>6. ReadMeanwhile'
  <2>1. served[ref].content \in seen /\ enabled' = Flag[served[ref].content].enabled
      BY DEF EvalInv, ReadMeanwhile
  <2> QED
      BY <1>4, <2>1 DEF ReadMeanwhile
<1>7. ReadNow'
    BY <1>1, <1>2, <1>4 DEF ReadNow
<1>8. CopySound' /\ OfSnapshot'
    BY <1>4 DEF CopySound, OfSnapshot
<1>9. DefaultReferenceKept'
  <2> SUFFICES ASSUME Answered' PROVE response' \in Promise(Asked, entity)'
      BY DEF DefaultReferenceKept
  <2>1. Promise(Asked, entity)' = Promise(Asked, entity)
      BY <1>1
  <2>2. \/ Asked.type = "none" /\ response' = Failed
        \/ Asked.type = "variant" /\ ~Asked.enabled /\ response' = Disabled
      BY <1>1, <1>4 DEF Answered, Supported
  <2> QED
      BY <2>1, <2>2, PromiseIs
<1> QED
    BY <1>5, <1>6, <1>7, <1>8, <1>9 DEF EvalInv

LEMMA InvGetEvaluationRules ==
    ASSUME EvalInv, GetEvaluationRules
    PROVE  EvalInv'
<1> USE DEF GetEvaluationRules, Respond
<1> DEFINE rules == Flag[served[BaseRef].content].rules
           i == DecidingRule(rules, entity)
<1>1. Asked' = Asked /\ method # "Snapshot" /\ method' = method
    BY DEF Asked, EvalInv, OfSnapshot
<1>2. /\ BaseRef \in Ref /\ IsFlag(Flag[served[BaseRef].content]) /\ entity \in Entity
      /\ AreRanked(rules)
    BY ServerAssumption, AskedIsFlag DEF EvalInv, RequestType, IsFlag
<1>3. i \in {0} \cup DOMAIN rules /\ i \in Nat
    BY <1>2, DecidingIsFirst
<1> HIDE DEF i
<1>4. \/ pc' = "done" /\ TypeOf(BaseRef) = "none"
      \/ pc' = "done" /\ i = 0 /\ response' = NoMatch
      \/ pc' = "done" /\ i > 0 /\ FailsAt(rules, i)
      \/ pc' = "distributions" /\ i > 0 /\ ~FailsAt(rules, i) /\ rule' = RuleNow(i)
    BY <1>3 DEF i
<1>5. RequestType'
    BY <1>4 DEF EvalInv, RequestType
<1>6. ReadMeanwhile'
  <2>1. ASSUME i > 0, rule' = RuleNow(i) PROVE rule'.distributions \in Seq(Allotted)
    <3>1. i \in DOMAIN rules
        BY <1>3, <2>1
    <3> QED
        BY <1>2, <2>1, <3>1 DEF RuleNow, IsFlag
  <2> QED
      BY <1>4, <2>1 DEF ReadMeanwhile
<1>7. settled => Asked.type = "variant" /\ Asked.enabled
    BY DEF EvalInv, ReadNow
<1>8. ReadNow'
  <2> SUFFICES ASSUME settled, pc' = "distributions", ref = BaseRef
               PROVE  /\ Asked.type = "variant" /\ Asked.enabled
                      /\ rule'.build = served[BaseRef].build
                      /\ rule'.index = DecidingRule(Asked.rules, entity)
                      /\ rule'.index > 0 /\ ~FailsAt(Asked.rules, rule'.index)
      BY <1>1, <1>4 DEF ReadNow
  <2>1. rules = Asked.rules
      BY DEF Asked
  <2>2. i > 0 /\ ~FailsAt(rules, i) /\ rule' = RuleNow(i)
      BY <1>4
  <2>3. rule'.build = served[BaseRef].build /\ rule'.index = i
      BY <2>2 DEF RuleNow
  <2> QED
      BY <1>7, <2>1, <2>2, <2>3 DEF i
<1>9. CopySound' /\ OfSnapshot'
    BY <1>1, <1>4 DEF CopySound, OfSnapshot
<1>10. DefaultReferenceKept'
  <2> SUFFICES ASSUME Answered', ref' = BaseRef PROVE response' \in Promise(Asked, entity)'
      BY DEF DefaultReferenceKept
  <2>1. Promise(Asked, entity)' = Promise(Asked, entity)
      BY <1>1
  <2>2. /\ pc' = "done" /\ settled /\ ref = BaseRef /\ ~Broken(Asked)
        /\ Asked.type = "variant" /\ Asked.enabled
      BY <1>1, <1>7 DEF Answered
  <2>3. rules = Asked.rules /\ TypeOf(BaseRef) = Asked.type
      BY <2>2 DEF Asked, TypeOf
  <2>4. ~SomeFails(rules)
      BY <2>2, <2>3 DEF Broken
  <2>5. ~(i > 0 /\ FailsAt(rules, i)) /\ (i = 0 => RuleHits(rules, entity) = {})
      BY <1>2, <2>4, DecidingIsFirst DEF i
  <2>6. i = 0 /\ response' = NoMatch
      BY <1>4, <2>2, <2>3, <2>5
  <2>7. Promise(Asked, entity) = {NoMatch}
      BY <2>2, <2>3, <2>5, <2>6, PromiseIs
  <2> QED
      BY <2>1, <2>6, <2>7
<1> QED
    BY <1>5, <1>6, <1>8, <1>9, <1>10 DEF EvalInv

LEMMA InvGetEvaluationDistributions ==
    ASSUME EvalInv, GetEvaluationDistributions
    PROVE  EvalInv'
<1> USE DEF GetEvaluationDistributions, Respond
<1>1. Asked' = Asked /\ method # "Snapshot" /\ method' = method /\ pc' = "done"
    BY DEF Asked, EvalInv, OfSnapshot
<1>2. RequestType' /\ ReadMeanwhile' /\ ReadNow' /\ CopySound' /\ OfSnapshot'
    BY <1>1 DEF EvalInv, RequestType, ReadMeanwhile, ReadNow, CopySound, OfSnapshot
<1>3. DefaultReferenceKept'
  <2> SUFFICES ASSUME Answered', ref' = BaseRef PROVE response' \in Promise(Asked, entity)'
      BY DEF DefaultReferenceKept
  <2>1. Promise(Asked, entity)' = Promise(Asked, entity)
      BY <1>1
  <2>2. settled /\ ref = BaseRef
      BY DEF Answered
  <2>3. /\ Asked.type = "variant" /\ Asked.enabled
        /\ rule.build = served[BaseRef].build
        /\ rule.index = DecidingRule(Asked.rules, entity)
        /\ rule.index > 0 /\ ~FailsAt(Asked.rules, rule.index)
      BY <2>2 DEF EvalInv, ReadNow
  <2> DEFINE d == Asked.rules[rule.index].distributions
  <2>4. response' = DistributionResponse(d, entity)
      BY <2>2, <2>3 DEF Asked
  <2>5. IsFlag(Asked) /\ AreRanked(Asked.rules) /\ entity \in Entity
      BY AskedIsFlag DEF EvalInv, RequestType
  <2>6. rule.index \in DOMAIN Asked.rules
      BY <2>3, <2>5, DecidingIsFirst
  <2>7. d \in Seq(Allotted)
      BY <2>5, <2>6 DEF IsFlag
  <2>8. Repeats(d, d)
      BY <2>7, RepeatsItself
  <2>9. DistributionResponse(d, entity) \in Promise(Asked, entity)
      BY <2>3, <2>5, <2>8, RulePromised
  <2> QED
      BY <2>1, <2>4, <2>9
<1> QED
    BY <1>2, <1>3 DEF EvalInv

LEMMA InvGetEvaluationRollouts ==
    ASSUME EvalInv, GetEvaluationRollouts
    PROVE  EvalInv'
<1> USE DEF GetEvaluationRollouts, Respond
<1>1. Asked' = Asked /\ method # "Snapshot" /\ method' = method /\ pc' = "done"
    BY DEF Asked, EvalInv, OfSnapshot
<1>2. RequestType' /\ ReadMeanwhile' /\ ReadNow' /\ CopySound' /\ OfSnapshot'
    BY <1>1 DEF EvalInv, RequestType, ReadMeanwhile, ReadNow, CopySound, OfSnapshot
<1>3. DefaultReferenceKept'
  <2> SUFFICES ASSUME Answered' PROVE response' \in Promise(Asked, entity)'
      BY DEF DefaultReferenceKept
  <2>1. Promise(Asked, entity)' = Promise(Asked, entity)
      BY <1>1
  <2>2. settled /\ inner = ref /\ ~Broken(Asked)
      BY <1>1 DEF Answered
  <2>3. Asked.type = "boolean" /\ enabled = Asked.enabled
      BY <2>2 DEF EvalInv, ReadNow
  <2>4. response' = BooleanResponse(Asked.enabled, Asked.rollouts, entity)
      BY <2>2, <2>3 DEF Asked, TypeOf
  <2>5. /\ AreRanked(Asked.rollouts) /\ entity \in Entity
        /\ \A i \in DOMAIN Asked.rollouts : Asked.rollouts[i].percentage \in Int
      BY AskedIsFlag DEF EvalInv, RequestType, IsFlag
  <2>6. ~SomeFails(Asked.rollouts)
      BY <2>2 DEF Broken
  <2>7. response' = BooleanPromise(Asked.enabled, Asked.rollouts, entity)
      BY <2>4, <2>5, <2>6, BooleanIsFirst
  <2>8. Promise(Asked, entity) = {BooleanPromise(Asked.enabled, Asked.rollouts, entity)}
      BY <2>3, PromiseIs
  <2> QED
      BY <2>1, <2>7, <2>8
<1> QED
    BY <1>2, <1>3 DEF EvalInv

\* The steps of a snapshot request have nothing to do with the answers.
LEMMA InvCopying ==
    ASSUME EvalInv, CopySound', method = "Snapshot",
           UNCHANGED <<served, builds, method, ref, inner, entity, settled, seen>>,
           pc' \in {"copyRules", "copyDistributions", "copyRollouts", "done"}
    PROVE  EvalInv'
<1>1. RequestType' /\ ReadMeanwhile' /\ ReadNow' /\ OfSnapshot'
    BY DEF EvalInv, RequestType, ReadMeanwhile, ReadNow, OfSnapshot
<1>2. DefaultReferenceKept'
    BY DEF DefaultReferenceKept, Answered
<1> QED
    BY <1>1, <1>2 DEF EvalInv

LEMMA InvCopyFlag ==
    ASSUME EvalInv, CopyFlag
    PROVE  EvalInv'
<1> USE DEF CopyFlag
<1>1. Asked' = Asked /\ Fresh' = Fresh /\ copy' = Fresh
    BY DEF Asked, Fresh
<1>2. Asked.type \in {"none", "boolean", "variant"}
    BY AskedIsFlag DEF EvalInv
<1>3. /\ Asked.type = "none" => pc' = "done"
      /\ Asked.type = "boolean" => pc' = "copyRollouts"
      /\ Asked.type = "variant" => pc' = "copyRules"
    BY DEF Asked
<1>4. CopySound'
    BY <1>1, <1>2, <1>3 DEF CopySound
<1> QED
    BY <1>2, <1>3, <1>4, InvCopying

LEMMA InvCopyRules ==
    ASSUME EvalInv, CopyRules
    PROVE  EvalInv'
<1> USE DEF CopyRules, Respond
<1>1. Asked' = Asked /\ method = "Snapshot" /\ method' = "Snapshot" /\ served' = served /\ ref' = ref
    BY DEF Asked, EvalInv, OfSnapshot
<1>2. pc' \in {"done", "copyDistributions"}
    OBVIOUS
<1>3. CopySound'
  <2> SUFFICES ASSUME settled
               PROVE  pc' = "copyDistributions" /\ Asked.type = "variant" /\ PartlyCopied'
      BY <1>1, <1>2 DEF CopySound
  <2>1. Asked.type = "variant" /\ copy = Fresh
      BY <1>1 DEF EvalInv, CopySound
  <2> DEFINE rules == Asked.rules
             none == [i \in DOMAIN rules |-> <<>>]
  <2>2. /\ pc' = "copyDistributions"
        /\ copy' = [copy EXCEPT !.rules = rules, !.given = none]
        /\ todo' = Pairs(rules)
        /\ rule'.build = served[ref].build
      BY <2>1 DEF Asked, TypeOf, Pairs, NoRule
  <2>3. AreRanked(rules)
      BY AskedIsFlag DEF EvalInv
  <2>4. Progress(rules, none, <<>>, Pairs(rules))
      BY <2>3, ProgressStarts
  <2> HIDE DEF none
  <2>5. copy' = [type |-> Asked.type, enabled |-> Asked.enabled, rules |-> rules,
                 rollouts |-> <<>>, given |-> none, listed |-> <<>>]
      BY <2>1, <2>2 DEF Fresh
  <2>6. copy'.given = none /\ copy'.listed = <<>>
      BY <2>5
  <2> QED
      BY <1>1, <2>1, <2>2, <2>4, <2>5, <2>6 DEF PartlyCopied
<1> QED
    BY <1>1, <1>2, <1>3, InvCopying

CopyOf(type, on, rules, given, listed) ==
    [type |-> type, enabled |-> on, rules |-> rules, rollouts |-> <<>>,
     given |-> given, listed |-> listed]
CopyWith(c, i, d) == [c EXCEPT !.given[i] = @ \o d, !.listed = Append(@, i)]

LEMMA CopyWithIs ==
    ASSUME NEW type, NEW on, NEW rules, NEW given, NEW listed, NEW i, NEW d, NEW c,
           c = CopyOf(type, on, rules, given, listed)
    PROVE  CopyWith(c, i, d) =
             CopyOf(type, on, rules, [given EXCEPT ![i] = @ \o d], Append(listed, i))
<1> USE DEF CopyOf
<1> DEFINE x == given[i] \o d
           y == Append(listed, i)
           h == [given EXCEPT ![i] = x]
<1>1. c.given = given /\ c.listed = listed
    OBVIOUS
<1>2. CopyWith(c, i, d) = [c EXCEPT !.given[i] = x, !.listed = y]
    BY <1>1 DEF CopyWith
<1> HIDE DEF x, y
<1>3. CopyWith(c, i, d) = [c EXCEPT !.given = h, !.listed = y]
    BY <1>2
<1> HIDE DEF h
<1>4. CopyWith(c, i, d) = [type |-> type, enabled |-> on, rules |-> rules, rollouts |-> <<>>,
                           given |-> h, listed |-> y]
    BY <1>3
<1> QED
    BY <1>4 DEF h, x, y

LEMMA InvCopyDistributions ==
    ASSUME EvalInv, CopyDistributions
    PROVE  EvalInv'
<1> USE DEF CopyDistributions
<1>1. /\ Asked' = Asked /\ method = "Snapshot" /\ method' = "Snapshot" /\ served' = served
      /\ ref' = ref /\ rule' = rule /\ pc' = "copyDistributions"
    BY DEF Asked, EvalInv, OfSnapshot
<1>2. CopySound'
  <2> SUFFICES ASSUME settled PROVE Asked.type = "variant" /\ PartlyCopied'
      BY <1>1 DEF CopySound
  <2>1. Asked.type = "variant" /\ PartlyCopied
      BY <1>1 DEF EvalInv, CopySound
  <2>2. PICK next \in todo :
          /\ \A other \in todo : next[1] <= other[1]
          /\ copy' = [copy EXCEPT !.given[next[1]] = @ \o ReadDistributions(next[1]),
                                  !.listed = Append(@, next[1])]
          /\ todo' = todo \ {next}
      OBVIOUS
  <2> DEFINE rules == Asked.rules
             i == next[1]
             given == copy.given
             listed == copy.listed
             given1 == [given EXCEPT ![i] = @ \o rules[i].distributions]
             listed1 == Append(listed, i)
  <2>3. ReadDistributions(i) = rules[i].distributions
      BY <2>1 DEF ReadDistributions, PartlyCopied, Asked
  <2>4. AreRanked(rules) /\ \A k \in DOMAIN rules : rules[k].distributions \in Seq(Allotted)
      BY AskedIsFlag DEF EvalInv, IsFlag
  <2>5. Progress(rules, given, listed, todo)
      BY <2>1 DEF PartlyCopied
  <2>6. Progress(rules, given1, listed1, todo \ {next})
      BY <2>2, <2>4, <2>5, ProgressNext
  <2>7. copy = [type |-> Asked.type, enabled |-> Asked.enabled, rules |-> rules,
                rollouts |-> <<>>, given |-> given, listed |-> listed]
      BY <2>1 DEF PartlyCopied
  <2>8. copy' = CopyWith(copy, i, rules[i].distributions)
      BY <2>2, <2>3 DEF CopyWith
  <2>9. copy' = [type |-> Asked.type, enabled |-> Asked.enabled, rules |-> rules,
                 rollouts |-> <<>>, given |-> given1, listed |-> listed1]
    <3> DEFINE type == Asked.type
               on == Asked.enabled
               d == rules[i].distributions
    <3>1. copy = CopyOf(type, on, rules, given, listed)
        BY <2>7 DEF CopyOf
    <3> HIDE DEF given, listed, rules, i, type, on, d
    <3>2. CopyWith(copy, i, d) =
            CopyOf(type, on, rules, [given EXCEPT ![i] = @ \o d], Append(listed, i))
        BY <3>1, CopyWithIs
    <3> QED
        BY <2>8, <3>2 DEF type, on, d, CopyOf
  <2> HIDE DEF given1, listed1, given, listed
  <2>10. copy'.given = given1 /\ copy'.listed = listed1
      BY <2>9
  <2>11. rule.build = served[ref].build
      BY <2>1 DEF PartlyCopied
  <2> QED
      BY <1>1, <2>1, <2>2, <2>6, <2>9, <2>10, <2>11 DEF PartlyCopied
<1> QED
    BY <1>1, <1>2, InvCopying

LEMMA InvCopyEnds ==
    ASSUME EvalInv, CopyEnds
    PROVE  EvalInv'
<1> USE DEF CopyEnds
<1>1. /\ Asked' = Asked /\ method = "Snapshot" /\ pc' = "done" /\ Fresh' = Fresh
    BY DEF Asked, EvalInv, OfSnapshot, Fresh
<1>2. PartlyCopied' <=> PartlyCopied
    BY <1>1 DEF PartlyCopied
<1>3. CopySound'
    BY <1>1, <1>2 DEF EvalInv, CopySound
<1> QED
    BY <1>1, <1>3, InvCopying

LEMMA InvCopyRollouts ==
    ASSUME EvalInv, CopyRollouts
    PROVE  EvalInv'
<1> USE DEF CopyRollouts, Respond
<1>1. /\ Asked' = Asked /\ method = "Snapshot" /\ pc' = "done" /\ Fresh' = Fresh
    BY DEF Asked, EvalInv, OfSnapshot, Fresh
<1>2. CopySound'
  <2> SUFFICES ASSUME settled
               PROVE  Asked.type = "boolean" /\ copy' = [Fresh EXCEPT !.rollouts = Asked.rollouts]
      BY <1>1 DEF CopySound
  <2>1. Asked.type = "boolean" /\ copy = Fresh
      BY <1>1 DEF EvalInv, CopySound
  <2> QED
      BY <2>1 DEF TypeOf, Asked
<1> QED
    BY <1>1, <1>2, InvCopying

LEMMA InvNext == EvalInv /\ [Next]_vars => EvalInv'
<1> SUFFICES ASSUME EvalInv, [Next]_vars PROVE EvalInv'
    OBVIOUS
<1>1. CASE \E r \in Ref, content \in Content : Rebuild(r, content)
    BY <1>1, InvRebuild
<1>2. CASE \E m \in Method, r, i \in Ref, e \in Entity : Request(m, r, i, e)
    BY <1>2, InvRequest
<1>3. CASE GetFlag
    BY <1>3, InvGetFlag
<1>4. CASE GetEvaluationRules
    BY <1>4, InvGetEvaluationRules
<1>5. CASE GetEvaluationDistributions
    BY <1>5, InvGetEvaluationDistributions
<1>6. CASE GetEvaluationRollouts
    BY <1>6, InvGetEvaluationRollouts
<1>7. CASE CopyFlag
    BY <1>7, InvCopyFlag
<1>8. CASE CopyRules
    BY <1>8, InvCopyRules
<1>9. CASE CopyDistributions
    BY <1>9, InvCopyDistributions
<1>10. CASE CopyEnds
    BY <1>10, InvCopyEnds
<1>11. CASE CopyRollouts
    BY <1>11, InvCopyRollouts
<1>12. CASE UNCHANGED vars
    BY <1>12, InvStutter
<1> QED
    BY <1>1, <1>2, <1>3, <1>4, <1>5, <1>6, <1>7, <1>8, <1>9, <1>10, <1>11, <1>12
    DEF Next, RequestStep

----------------------------------------------------------------------------
(* A client that has the whole copy.                                       *)

LEMMA ClientPromised ==
    ASSUME EvalInv, Copied, NEW e \in Entity
    PROVE  \/ LocalResponse(e) \in Promise(Asked, e)
           \/ /\ Asked.type = "variant"
              /\ LET r == Asked.rules[DecidingRule(Asked.rules, e)]
                 IN  \/ r.segments = {}
                     \/ /\ Cardinality(r.segments) > 1
                        /\ Share(r.distributions, Len(r.distributions)) < 10000
<1>1. IsFlag(Asked) /\ AreRanked(Asked.rules) /\ AreRanked(Asked.rollouts)
    BY AskedIsFlag DEF EvalInv
<1>2. /\ Asked.type \in {"none", "boolean", "variant"}
      /\ \A i \in DOMAIN Asked.rules : Asked.rules[i].distributions \in Seq(Allotted)
      /\ \A i \in DOMAIN Asked.rollouts : Asked.rollouts[i].percentage \in Int
    BY <1>1 DEF IsFlag
<1>3. ~SomeFails(Asked.rules) /\ ~SomeFails(Asked.rollouts)
    BY DEF Copied, Broken
<1>4. /\ Asked.type = "none" => copy = Fresh
      /\ Asked.type = "boolean" => copy = [Fresh EXCEPT !.rollouts = Asked.rollouts]
      /\ Asked.type = "variant" => PartlyCopied /\ todo = {}
    BY DEF EvalInv, CopySound, Copied
<1> DEFINE f == LocalFlag
           j == DecidingRule(f.rules, e)
<1>5. LocalResponse(e) =
        CASE f.type = "none" -> Failed
          [] f.type = "boolean" -> BooleanResponse(f.enabled, f.rollouts, e)
          [] f.type = "variant" /\ ~f.enabled -> Disabled
          [] f.type = "variant" /\ f.enabled /\ j = 0 -> NoMatch
          [] OTHER -> DistributionResponse(f.rules[j].distributions, e)
    BY DEF LocalResponse
<1> HIDE DEF f, j
<1>6. CASE Asked.type = "none"
  <2>1. f.type = "none"
      BY <1>4, <1>6 DEF f, LocalFlag, Fresh
  <2> QED
      BY <1>5, <1>6, <2>1, PromiseIs
<1>7. CASE Asked.type = "boolean"
  <2>1. f.type = "boolean" /\ f.enabled = Asked.enabled /\ f.rollouts = Asked.rollouts
      BY <1>4, <1>7 DEF f, LocalFlag, Fresh
  <2>2. LocalResponse(e) = BooleanResponse(Asked.enabled, Asked.rollouts, e)
      BY <1>5, <2>1
  <2>3. LocalResponse(e) = BooleanPromise(Asked.enabled, Asked.rollouts, e)
      BY <1>1, <1>2, <1>3, <2>2, BooleanIsFirst
  <2> QED
      BY <1>7, <2>3, PromiseIs
<1>8. CASE Asked.type = "variant"
  <2> DEFINE rules == Asked.rules
             given == copy.given
             listed == copy.listed
             i == DecidingRule(rules, e)
  <2>1. copy = [type |-> Asked.type, enabled |-> Asked.enabled, rules |-> rules,
                rollouts |-> <<>>, given |-> given, listed |-> listed]
      BY <1>4, <1>8 DEF PartlyCopied
  <2>2. Progress(rules, given, listed, {})
      BY <1>4, <1>8 DEF PartlyCopied
  <2>3. /\ f.type = "variant" /\ f.enabled = Asked.enabled
        /\ f.rules = [k \in DOMAIN listed |-> LocalRule(listed[k])]
      BY <1>8, <2>1 DEF f, LocalFlag
  <2>4. copy.rules = rules
      BY <2>1
  <2>5. f.rules = Listing(rules, given, listed)
      BY <2>3, <2>4 DEF Listing, LocalRule
  <2>6. CASE ~Asked.enabled
    <3>1. LocalResponse(e) = Disabled
        BY <1>5, <2>3, <2>6
    <3> QED
        BY <1>8, <2>6, <3>1, PromiseIs
  <2>7. CASE Asked.enabled
    <3>1. /\ i = 0 => j = 0
          /\ i > 0 /\ rules[i].segments # {} =>
               j \in Nat /\ j > 0 /\ j \in DOMAIN listed /\ listed[j] = i
        BY <1>1, <1>3, <2>2, <2>5, ClientDecides DEF j
    <3>2. /\ i \in {0} \cup DOMAIN rules /\ i \in Nat
          /\ i = 0 => RuleHits(rules, e) = {}
          /\ i > 0 => ~FailsAt(rules, i)
        BY <1>1, <1>3, DecidingIsFirst
    <3>3. CASE i = 0
      <4>1. LocalResponse(e) = NoMatch
          BY <1>5, <2>3, <2>7, <3>1, <3>3
      <4> QED
          BY <1>8, <2>7, <3>2, <3>3, <4>1, PromiseIs
    <3>4. CASE i > 0 /\ rules[i].segments # {}
      <4>1. i \in DOMAIN rules
          BY <3>2, <3>4
      <4>2. j \in Nat /\ j > 0 /\ j \in DOMAIN listed /\ listed[j] = i
          BY <3>1, <3>4
      <4>3. f.rules[j].distributions = given[i]
        <5>1. f.rules[j] = [rank |-> rules[listed[j]].rank, operator |-> rules[listed[j]].operator,
                            segments |-> rules[listed[j]].segments,
                            distributions |-> given[listed[j]]]
            BY <2>5, <4>2 DEF Listing
        <5> QED
            BY <4>2, <5>1
      <4>4. LocalResponse(e) = DistributionResponse(given[i], e)
        <5>1. /\ f.type # "none" /\ f.type # "boolean" /\ f.type = "variant" /\ f.enabled
              /\ j # 0
            BY <2>3, <2>7, <4>2
        <5> QED
            BY <1>5, <4>3, <5>1
      <4>5. GoneThrough(rules, {}, i)
          BY <3>4 DEF GoneThrough
      <4>6. Given(given[i], rules[i]) /\ rules[i].distributions \in Seq(Allotted)
          BY <1>2, <2>2, <4>1, <4>5 DEF Progress
      <4>7. CASE \/ Cardinality(rules[i].segments) <= 1
                 \/ Share(rules[i].distributions, Len(rules[i].distributions)) >= 10000
        <5>1. Repeats(given[i], rules[i].distributions)
            BY <4>6, <4>7, GivenRepeats
        <5>2. DistributionResponse(given[i], e) \in Promise(Asked, e)
            BY <1>1, <1>8, <2>7, <3>2, <3>4, <5>1, RulePromised
        <5> QED
            BY <4>4, <5>2
      <4>8. CASE /\ ~(Cardinality(rules[i].segments) <= 1)
                 /\ ~(Share(rules[i].distributions, Len(rules[i].distributions)) >= 10000)
        <5>1. Cardinality(rules[i].segments) \in Nat
            BY <1>1, <4>1, FS_CardinalityType DEF AreRanked
        <5>2. Share(rules[i].distributions, Len(rules[i].distributions)) \in Nat
          <6>1. Len(rules[i].distributions) \in 0..Len(rules[i].distributions)
              BY <4>6
          <6> QED
              BY <4>6, <6>1, ShareFacts
        <5> QED
            BY <1>8, <4>8, <5>1, <5>2
      <4> QED
          BY <4>7, <4>8
    <3>5. CASE i > 0 /\ rules[i].segments = {}
        BY <1>8, <3>5
    <3> QED
        BY <3>2, <3>3, <3>4, <3>5
  <2> QED
      BY <1>2, <2>6, <2>7
<1> QED
    BY <1>2, <1>6, <1>7, <1>8

----------------------------------------------------------------------------
(* The theorems.                                                           *)

\* The invariant: what a request has read, while nothing was replaced, is still
\* what is served, and a client's copy is complete up to where the loop has come
\* (GetFlag, GetEvaluationRules, EvaluationSnapshotNamespace).
THEOREM EvaluationInvariant == Spec => []EvalInv
BY InvInit, InvNext, PTL DEF Spec

\* Every constraint matches the entities it says, whatever its type, operator and
\* value and whatever the text (matchesString, matchesNumber, matchesBool,
\* matchesDateTime).
THEOREM ConstraintsMeanWhatTheySay == Spec => []OperatorsAgree
<1>1. EvalInv => OperatorsAgree
  <2> SUFFICES ASSUME EvalInv, NEW c \in Trial
               PROVE  Matches(c, TextOf(c, entity)) <=> Satisfies(entity, c)
      BY DEF OperatorsAgree
  <2>1. Known(c) /\ entity \in Entity
      BY DataAssumption DEF Known, EvalInv, RequestType
  <2> QED
      BY <2>1, MatchesSatisfies
<1> QED
    BY <1>1, EvaluationInvariant, PTL

\* Distributions of any number and size: a variant's buckets are its share of the
\* thousand to within one bucket (Evaluate).
THEOREM SharesAreFair == Spec => []FairShares
<1>1. EvalInv => FairShares
  <2> SUFFICES ASSUME EvalInv, pc = "distributions" PROVE FairShares
      BY DEF FairShares
  <2> DEFINE v == ValidDistributions(rule.distributions)
  <2>1. rule.distributions \in Seq(Allotted)
      BY DEF EvalInv, ReadMeanwhile
  <2>2. v \in Seq(Allotted)
      BY <2>1, ValidKept
  <2> HIDE DEF v
  <2>3. ASSUME NEW k \in DOMAIN v, Share(v, k) <= 10000
        PROVE  LET Mine == {b \in 0..(TotalBucketNum - 1) : Distribution(v, b) = k}
                   off == v[k].rollout - 10 * Cardinality(Mine)
               IN  0 <= off /\ off < 10
      BY <2>2, <2>3, FairSharesOf
  <2> QED
      BY <2>3 DEF FairShares, v
<1> QED
    BY <1>1, EvaluationInvariant, PTL

\* At the default reference, and while no snapshot is replaced, the four reads of an
\* evaluation answer what the flag promises (Variant, Boolean, Batch).
THEOREM DefaultReferencePromised == Spec => []DefaultReferenceKept
<1>1. EvalInv => DefaultReferenceKept
    BY DEF EvalInv
<1> QED
    BY <1>1, EvaluationInvariant, PTL

\* A client that evaluates a copy answers as the flag promises, whatever the order
\* of the segments in the server's maps, but for the two kinds of rules named there
\* (EvaluationSnapshotNamespace).
THEOREM LocalEvaluationPromised == Spec => []LocalEvaluationAgrees
<1>1. EvalInv => LocalEvaluationAgrees
    BY ClientPromised DEF LocalEvaluationAgrees
<1> QED
    BY <1>1, EvaluationInvariant, PTL

\* However often snapshots are replaced under a request, only the default value of a
\* boolean flag can be older than its rollouts (Server.boolean).
THEOREM BooleanIsNotTorn == Spec => BooleanTornOnlyInDefault
<1> DEFINE Torn == pc = "rollouts" /\ pc' = "done" /\ inner = ref /\ response'.reason # "ERROR" =>
                     \E content \in seen :
                        response' \in Promise([Flag[served[ref].content] EXCEPT
                                                 !.type = "boolean", !.enabled = Flag[content].enabled],
                                              entity)
<1>1. EvalInv /\ [Next]_vars => [Torn]_vars
  <2> SUFFICES ASSUME EvalInv, Next, pc = "rollouts", pc' = "done", inner = ref,
                      response'.reason # "ERROR"
               PROVE  \E content \in seen :
                        response' \in Promise([Flag[served[ref].content] EXCEPT
                                                 !.type = "boolean", !.enabled = Flag[content].enabled],
                                              entity)
      OBVIOUS
  <2>1. GetEvaluationRollouts
      BY DEF Next, RequestStep, Rebuild, Request, GetFlag, GetEvaluationRules,
             GetEvaluationDistributions, CopyFlag, CopyRules, CopyDistributions, CopyEnds,
             CopyRollouts
  <2> DEFINE F == Flag[served[ref].content]
  <2>2. Failed.reason = "ERROR"
      BY DEF Failed, Response
  <2>3. response' = BooleanResponse(enabled, F.rollouts, entity)
      BY <2>1, <2>2 DEF GetEvaluationRollouts, Respond, TypeOf
  <2>4. PICK content \in seen : enabled = Flag[content].enabled
      BY DEF EvalInv, ReadMeanwhile
  <2>5. IsFlag(F) /\ entity \in Entity
      BY AskedIsFlag DEF EvalInv, RequestType
  <2>6. response' = BooleanPromise(enabled, F.rollouts, entity)
    <3>1. AreRanked(F.rollouts) /\ \A i \in DOMAIN F.rollouts : F.rollouts[i].percentage \in Int
        BY <2>5 DEF IsFlag
    <3>2. response' # Failed
        BY <2>2
    <3> QED
        BY <2>3, <2>5, <3>1, <3>2, BooleanIsFirst
  <2> DEFINE G == [F EXCEPT !.type = "boolean", !.enabled = Flag[content].enabled]
  <2>7. G.type = "boolean" /\ G.enabled = enabled /\ G.rollouts = F.rollouts
      BY <2>4, <2>5 DEF IsFlag
  <2>8. Promise(G, entity) = {BooleanPromise(enabled, F.rollouts, entity)}
    <3> HIDE DEF G
    <3> QED
        BY <2>7, PromiseIs
  <2>9. response' \in Promise(G, entity)
      BY <2>6, <2>8
  <2> QED
      BY <2>9
<1>2. Spec => []EvalInv
    BY EvaluationInvariant
<1> QED
    BY <1>1, <1>2, PTL DEF Spec, BooleanTornOnlyInDefault

==============================================================================
