--------------------------- MODULE SqlRanks_proofs ---------------------------
(***************************************************************************)
(* Proofs about the order of rules and rollouts, for any clients, items,   *)
(* ranks, lists and page size.                                             *)
(***************************************************************************)
EXTENDS SqlRanks, FiniteSetTheorems, SequenceTheorems, TLAPS

PartialRanks == UNION {[S -> Int] : S \in SUBSET Item}

RankTypeOK ==
    /\ rank \in [Item -> Int]
    /\ unused \subseteq Item
    /\ pc \in [Client -> {"idle", "count", "insert", "commit", "delete", "select", "update",
                          "page", "listed"}]
    /\ op \in [Client -> {"none", "create", "delete", "order", "list"}]
    /\ arg \in [Client -> Item \cup Int]
    /\ ids \in [Client -> Seq(Item)]
    /\ pos \in [Client -> Nat \ {0}]
    /\ writes \in [Client -> PartialRanks]
    /\ mixed \in BOOLEAN
    /\ undisturbed \in [Client -> BOOLEAN]

\* What a request does, and has written, from its place.
PlaceOf(c) ==
    /\ pc[c] = "idle" => op[c] = "none"
    /\ pc[c] \in {"count", "insert", "commit"} =>
         op[c] = "create" /\ arg[c] \in Int /\ Len(ids[c]) = 1
    /\ pc[c] \in {"delete", "select", "update"} =>
         \/ op[c] = "delete" /\ arg[c] \in Item
         \/ op[c] = "order" /\ pc[c] = "update"
    /\ pc[c] \in {"page", "listed"} => op[c] = "list"
    /\ pc[c] \in {"idle", "count", "insert", "delete", "page", "listed"} =>
         DOMAIN writes[c] = {}
    /\ pc[c] = "commit" =>
         DOMAIN writes[c] = {ids[c][1]} /\ writes[c][ids[c][1]] = arg[c]
    /\ pc[c] \in {"delete", "select"} => pos[c] = 1
    /\ pc[c] = "select" =>
         \A i \in DOMAIN writes[c] : i = arg[c] /\ writes[c][i] = Absent

Places == \A c \in Client : PlaceOf(c)

(***************************************************************************)
(* The inductive invariant, while nothing has been started that may make   *)
(* ranks collide.  A creation runs alone and at a rank nobody has.  The    *)
(* rows a deletion or an ordering has written exist, and are its own: so   *)
(* rows only disappear.  A renumbering has every row it can see in its     *)
(* list, once, and has given those it has passed their positions.          *)
(***************************************************************************)
CreatesAlone ==
    \A c, d \in Client : c # d /\ op[c] = "create" => ~Changing(d)

CreatesAtFreeRank ==
    \A c \in Client : pc[c] \in {"insert", "commit"} => \A i \in Item : rank[i] # arg[c]

WritesExistingRows ==
    \A c \in Client : op[c] # "create" => \A i \in DOMAIN writes[c] : rank[i] # Absent

WritesOwnRows ==
    \A c, d \in Client : c # d => DOMAIN writes[c] \cap DOMAIN writes[d] = {}

Renumbers(c) ==
    /\ \A k, l \in DOMAIN ids[c] : ids[c][k] = ids[c][l] => k = l
    /\ \A i \in Item : Visible(c)[i] # Absent =>
         \E k \in DOMAIN ids[c] :
           /\ ids[c][k] = i
           /\ k < pos[c] => i \in DOMAIN writes[c] /\ writes[c][i] = k

RenumbersAll == \A c \in Client : pc[c] = "update" => Renumbers(c)

CleanInv ==
    /\ CreatesAlone /\ CreatesAtFreeRank
    /\ WritesExistingRows /\ WritesOwnRows
    /\ RenumbersAll
    /\ Distinct(rank)

\* A deletion has written its row, or the row was gone and stays so.
DeletedIsGone ==
    \A c \in Client :
      op[c] = "delete" /\ pc[c] \in {"select", "update"} /\ arg[c] \notin DOMAIN writes[c] =>
        rank[arg[c]] = Absent

\* A deletion that holds the lock of its row renumbers in the order of the
\* ranks: nobody else commits before it does.
DeletesInOrder ==
    \A c \in Client :
      op[c] = "delete" /\ pc[c] = "update" /\ arg[c] \in DOMAIN writes[c] =>
        \A k, l \in DOMAIN ids[c] : k < l => rank[ids[c][k]] <= rank[ids[c][l]]

RankInv == RankTypeOK /\ Places /\ (~mixed => CleanInv /\ DeletedIsGone /\ DeletesInOrder)

-----------------------------------------------------------------------------
\* The operators the model is built from.

LEMMA AbsentType == Absent \in Int
BY DEF Absent

LEMMA NoWritesProperties == NoWrites \in PartialRanks /\ DOMAIN NoWrites = {}
<1>1. NoWrites \in [{} -> Int]
    BY DEF NoWrites
<1> QED
    BY <1>1 DEF PartialRanks

LEMMA WriteType ==
    ASSUME NEW w \in PartialRanks, NEW i \in Item, NEW r \in Int
    PROVE  Write(w, i, r) \in PartialRanks
<1>1. PICK S \in SUBSET Item : w \in [S -> Int]
    BY DEF PartialRanks
<1>2. Write(w, i, r) \in [S \cup {i} -> Int]
    BY <1>1 DEF Write
<1>3. S \cup {i} \in SUBSET Item
    BY <1>1
<1> QED
    BY <1>2, <1>3 DEF PartialRanks

LEMMA PartialType ==
    ASSUME NEW w \in PartialRanks
    PROVE  DOMAIN w \subseteq Item /\ \A i \in DOMAIN w : w[i] \in Int
BY DEF PartialRanks

LEMMA VisibleType ==
    ASSUME RankTypeOK, NEW c \in Client
    PROVE  /\ Visible(c) \in [Item -> Int]
           /\ \A i \in Item :
                /\ i \in DOMAIN writes[c] => Visible(c)[i] = writes[c][i]
                /\ i \notin DOMAIN writes[c] => Visible(c)[i] = rank[i]
BY PartialType DEF Visible, RankTypeOK

\* A result of ORDER BY lists every row once.
LEMMA InOrderProperties ==
    ASSUME NEW r \in [Item -> Int], NEW s \in InRankOrder(r)
    PROVE  /\ s \in Seq(Item) /\ DOMAIN s = 1..Len(s)
           /\ \A k \in DOMAIN s : r[s[k]] # Absent
           /\ \A j, k \in DOMAIN s : s[j] = s[k] => j = k
           /\ \A j, k \in DOMAIN s : j < k => r[s[j]] <= r[s[k]]
           /\ \A i \in Item : r[i] # Absent => \E k \in DOMAIN s : s[k] = i
<1> DEFINE S == {i \in Item : r[i] # Absent}
           n == Cardinality(S)
<1>1. IsFiniteSet(S) /\ n \in Nat
    BY FS_Subset, FS_CardinalityType, ListsAssumption
<1>2. /\ s \in [1..n -> S]
      /\ \A j, k \in DOMAIN s : s[j] = s[k] => j = k
      /\ \A j, k \in DOMAIN s : j < k => r[s[j]] <= r[s[k]]
    BY DEF InRankOrder
<1> HIDE DEF S, n
<1>3. s \in Seq(S) /\ Len(s) = n
    BY <1>1, <1>2
<1>4. s \in Injection(1..n, S)
    BY <1>2 DEF Injection, IsInjective
<1>5. Cardinality(1..n) = n
    BY <1>1, FS_Interval
<1>6. s \in Surjection(1..n, S)
    BY <1>1, <1>4, <1>5, FS_Injection DEF n
<1>7. \A i \in S : \E k \in 1..n : s[k] = i
    BY <1>6 DEF Surjection
<1>8. S \subseteq Item /\ \A i \in Item : i \in S <=> r[i] # Absent
    BY DEF S
<1> QED
    BY <1>2, <1>3, <1>7, <1>8

LEMMA InOrderLength ==
    ASSUME NEW r \in [Item -> Int], NEW s \in InRankOrder(r)
    PROVE  Len(s) = Cardinality({i \in Item : r[i] # Absent})
<1> DEFINE S == {i \in Item : r[i] # Absent}
<1>1. IsFiniteSet(S) /\ Cardinality(S) \in Nat
    BY FS_Subset, FS_CardinalityType, ListsAssumption
<1>2. s \in [1..Cardinality(S) -> S]
    BY DEF InRankOrder
<1> HIDE DEF S
<1>3. Len(s) = Cardinality(S)
    BY <1>1, <1>2
<1> QED
    BY <1>3 DEF S

-----------------------------------------------------------------------------
\* A step of client c's request, as a disjunct of Next.
RequestStep(c) ==
    \/ StartCreate(c) \/ StartDelete(c) \/ StartOrder(c) \/ StartList(c)
    \/ Step(c) \/ Abort(c) \/ BreakDeadlock(c)

\* How the requests begin.
LEMMA Started ==
    ASSUME RankTypeOK, NEW c \in Client,
           StartCreate(c) \/ StartDelete(c) \/ StartOrder(c) \/ StartList(c)
    PROVE  \E o \in {"create", "delete", "order", "list"}, a \in Item \cup Int, s \in Seq(Item),
              at \in {"count", "insert", "delete", "update", "page"}, hazard \in BOOLEAN :
             /\ Start(c, o, a, s, at, hazard)
             /\ unused' \subseteq unused
             /\ at \in {"count", "insert"} => o = "create" /\ a \in Int /\ Len(s) = 1
             /\ at = "insert" /\ ~hazard => \A i \in Item : rank[i] # a
             /\ at = "delete" => o = "delete" /\ a \in Item
             /\ at = "update" => o = "order" /\ (~hazard => Permutes(s, Present))
             /\ at = "page" => o = "list" /\ s = <<>>
<1>1. CASE StartCreate(c)
    <2>1. PICK i \in unused :
            /\ unused' = unused \ {i}
            /\ \/ \E r \in Ranks \ {0} :
                    Start(c, "create", r, <<i>>, "insert", \E j \in Item : rank[j] = r)
               \/ \E r \in Ranks : Start(c, "create", r, <<i>>, "count", FALSE)
        BY <1>1 DEF StartCreate
    <2> i \in Item /\ <<i>> \in Seq(Item) /\ Len(<<i>>) = 1
        BY DEF RankTypeOK
    <2>3. \A r \in Ranks : r \in Int
        BY DEF Ranks
    <2>4. \A r : (\E j \in Item : rank[j] = r) \in BOOLEAN
        OBVIOUS
    <2>5. CASE \E r \in Ranks \ {0} :
                 Start(c, "create", r, <<i>>, "insert", \E j \in Item : rank[j] = r)
        <3>1. PICK r \in Ranks \ {0} :
                Start(c, "create", r, <<i>>, "insert", \E j \in Item : rank[j] = r)
            BY <2>5
        <3> WITNESS "create" \in {"create", "delete", "order", "list"}
        <3> r \in Item \cup Int
            BY <2>3
        <3> WITNESS r \in Item \cup Int
        <3> WITNESS <<i>> \in Seq(Item)
        <3> WITNESS "insert" \in {"count", "insert", "delete", "update", "page"}
        <3> WITNESS (\E j \in Item : rank[j] = r) \in BOOLEAN
        <3> QED
            BY <3>1, <2>1, <2>3
    <2>6. CASE \E r \in Ranks : Start(c, "create", r, <<i>>, "count", FALSE)
        <3>1. PICK r \in Ranks : Start(c, "create", r, <<i>>, "count", FALSE)
            BY <2>6
        <3> WITNESS "create" \in {"create", "delete", "order", "list"}
        <3> r \in Item \cup Int
            BY <2>3
        <3> WITNESS r \in Item \cup Int
        <3> WITNESS <<i>> \in Seq(Item)
        <3> WITNESS "count" \in {"count", "insert", "delete", "update", "page"}
        <3> WITNESS FALSE \in BOOLEAN
        <3> QED
            BY <3>1, <2>1, <2>3
    <2> QED
        BY <2>1, <2>5, <2>6
<1>2. CASE StartDelete(c)
    <2>1. PICK i \in Item : Start(c, "delete", i, <<>>, "delete", FALSE)
        BY <1>2 DEF StartDelete
    <2> WITNESS "delete" \in {"create", "delete", "order", "list"}
    <2> WITNESS i \in Item \cup Int
    <2> WITNESS <<>> \in Seq(Item)
    <2> WITNESS "delete" \in {"count", "insert", "delete", "update", "page"}
    <2> WITNESS FALSE \in BOOLEAN
    <2> QED
        BY <2>1, <1>2 DEF StartDelete
<1>3. CASE StartOrder(c)
    <2>n. PICK n \in 2..MaxList : \E s \in [1..n -> Item \ unused] :
            Start(c, "order", Absent, s, "update", ~Permutes(s, Present))
        BY <1>3 DEF StartOrder
    <2>1. PICK s \in [1..n -> Item \ unused] :
            Start(c, "order", Absent, s, "update", ~Permutes(s, Present))
        BY <2>n
    <2> s \in Seq(Item) /\ Absent \in Item \cup Int
        BY <2>1, ListsAssumption DEF Absent
    <2> WITNESS "order" \in {"create", "delete", "order", "list"}
    <2> WITNESS Absent \in Item \cup Int
    <2> WITNESS s \in Seq(Item)
    <2> WITNESS "update" \in {"count", "insert", "delete", "update", "page"}
    <2> WITNESS (~Permutes(s, Present)) \in BOOLEAN
    <2> QED
        BY <2>1, <1>3 DEF StartOrder
<1>4. CASE StartList(c)
    <2> <<>> \in Seq(Item) /\ Absent \in Item \cup Int
        BY DEF Absent
    <2> WITNESS "list" \in {"create", "delete", "order", "list"}
    <2> WITNESS Absent \in Item \cup Int
    <2> WITNESS <<>> \in Seq(Item)
    <2> WITNESS "page" \in {"count", "insert", "delete", "update", "page"}
    <2> WITNESS FALSE \in BOOLEAN
    <2> QED
        BY <1>4 DEF StartList
<1> QED
    BY <1>1, <1>2, <1>3, <1>4

\* A step of one client leaves the requests of the others where they are.
LEMMA OthersWait ==
    ASSUME RankTypeOK, NEW c \in Client, RequestStep(c), NEW d \in Client \ {c}
    PROVE  /\ pc'[d] = pc[d] /\ op'[d] = op[d] /\ arg'[d] = arg[d]
           /\ ids'[d] = ids[d] /\ pos'[d] = pos[d] /\ writes'[d] = writes[d]
<1>1. ASSUME NEW o, NEW a, NEW s, NEW at, NEW hazard, Start(c, o, a, s, at, hazard)
      PROVE  /\ pc'[d] = pc[d] /\ op'[d] = op[d] /\ arg'[d] = arg[d]
             /\ ids'[d] = ids[d] /\ pos'[d] = pos[d] /\ writes'[d] = writes[d]
    BY <1>1 DEF Start, RankTypeOK
<1>2. ASSUME End(c)
      PROVE  /\ pc'[d] = pc[d] /\ op'[d] = op[d] /\ arg'[d] = arg[d]
             /\ ids'[d] = ids[d] /\ pos'[d] = pos[d] /\ writes'[d] = writes[d]
    BY <1>2 DEF End, RankTypeOK
<1>3. CASE StartCreate(c) \/ StartDelete(c) \/ StartOrder(c) \/ StartList(c)
    BY <1>1, <1>3, Started
<1>4. CASE CountRank(c) \/ Insert(c) \/ DeleteRow(c)
    BY <1>4, <1>2 DEF CountRank, Fail, Insert, DeleteRow, RankTypeOK
<1>5. CASE SelectIds(c) \/ UpdateRank(c) \/ ReadPage(c)
    BY <1>5 DEF SelectIds, UpdateRank, ReadPage, RankTypeOK
<1> QED
    BY <1>2, <1>3, <1>4, <1>5
       DEF RequestStep, Step, CommitCreate, CommitOrder, Listed, Abort, BreakDeadlock, Commit,
           Fail

\* Rows of a sequence of items are items.
LEMMA RowsType ==
    ASSUME NEW s \in Seq(Item), NEW from \in Nat \ {0}, NEW n \in Nat
    PROVE  /\ Rows(s, from, n) \in Seq(Item)
           /\ Len(Rows(s, from, n)) =
                IF from + n - 1 < Len(s) THEN n
                ELSE IF from <= Len(s) THEN Len(s) - from + 1 ELSE 0
           /\ \A k \in 1..Len(Rows(s, from, n)) : Rows(s, from, n)[k] = s[from + k - 1]
<1> DEFINE to == IF from + n - 1 < Len(s) THEN from + n - 1 ELSE Len(s)
<1>1. Len(s) \in Nat /\ to \in Int /\ to <= Len(s)
    OBVIOUS
<1>2. \A k \in from..to : s[k] \in Item
    BY <1>1
<1> HIDE DEF to
<1>3. /\ SubSeq(s, from, to) \in Seq(Item)
      /\ Len(SubSeq(s, from, to)) = IF from <= to THEN to - from + 1 ELSE 0
      /\ \A k \in 1..to - from + 1 : SubSeq(s, from, to)[k] = s[from + k - 1]
    BY <1>1, <1>2, SubSeqProperties
<1>4. Rows(s, from, n) = SubSeq(s, from, to)
    BY DEF Rows, to
<1> QED
    BY <1>1, <1>3, <1>4 DEF to

LEMMA RankTypeStep ==
    ASSUME RankTypeOK, Places, NEW c \in Client, RequestStep(c)
    PROVE  RankTypeOK'
<1> USE DEF RankTypeOK
<1>1. CASE StartCreate(c) \/ StartDelete(c) \/ StartOrder(c) \/ StartList(c)
    <2>1. PICK o \in {"create", "delete", "order", "list"}, a \in Item \cup Int, s \in Seq(Item),
               at \in {"count", "insert", "delete", "update", "page"}, hazard \in BOOLEAN :
            Start(c, o, a, s, at, hazard) /\ unused' \subseteq unused
        <3> HIDE DEF RankTypeOK
        <3> QED
            BY <1>1, Started
    <2> QED
        BY <2>1 DEF Start
<1>2. ASSUME End(c), rank' \in [Item -> Int], undisturbed' \in [Client -> BOOLEAN]
      PROVE  RankTypeOK'
    BY <1>2, NoWritesProperties DEF End, Absent
<1>3. ASSUME Fail(c) PROVE RankTypeOK'
    BY <1>3, <1>2 DEF Fail
<1>4. ASSUME Commit(c) PROVE RankTypeOK'
    BY <1>4, <1>2, VisibleType DEF Commit
<1>5. CASE CountRank(c)
    BY <1>5, <1>3 DEF CountRank
<1>6. CASE Insert(c)
    <2>1. arg[c] \in Int /\ ids[c][1] \in Item
        BY <1>6 DEF Insert, Places, PlaceOf
    <2>2. Write(writes[c], ids[c][1], arg[c]) \in PartialRanks
        BY <2>1, WriteType
    <2> QED
        BY <1>6, <2>2 DEF Insert
<1>7. CASE DeleteRow(c)
    <2>1. arg[c] \in Item
        BY <1>7 DEF DeleteRow, Places, PlaceOf
    <2>w. writes[c] \in PartialRanks
        OBVIOUS
    <2>2. Write(writes[c], arg[c], Absent) \in PartialRanks
        BY <2>1, <2>w, WriteType, AbsentType
    <2> QED
        BY <1>7, <2>2 DEF DeleteRow
<1>8. CASE SelectIds(c)
    BY <1>8, VisibleType, InOrderProperties DEF SelectIds
<1>9. CASE UpdateRank(c)
    <2>1. ids[c][pos[c]] \in Item /\ pos[c] \in Int
        BY <1>9 DEF UpdateRank
    <2>2. Write(writes[c], ids[c][pos[c]], pos[c]) \in PartialRanks
        BY <2>1, WriteType
    <2> QED
        BY <1>9, <2>2 DEF UpdateRank
<1>10. CASE ReadPage(c)
    <2>1. PICK s \in InRankOrder(rank) :
            LET rows == Rows(s, pos[c], Limit + 1)
                page == Rows(rows, 1, Limit)
            IN  /\ ids' = [ids EXCEPT ![c] = @ \o page]
                /\ pos' = [pos EXCEPT ![c] = @ + Len(page)]
                /\ pc' = [pc EXCEPT ![c] = IF Len(rows) > Limit THEN "page" ELSE "listed"]
        BY <1>10 DEF ReadPage
    <2>2. s \in Seq(Item) /\ Limit \in Nat /\ Limit + 1 \in Nat /\ pos[c] \in Nat \ {0}
        <3>1. rank \in [Item -> Int] /\ pos[c] \in Nat \ {0}
            OBVIOUS
        <3>2. s \in Seq(Item)
            BY <3>1, InOrderProperties
        <3> QED
            BY <3>1, <3>2, ListsAssumption
    <2> DEFINE rows == Rows(s, pos[c], Limit + 1)
               page == Rows(rows, 1, Limit)
    <2>3. rows \in Seq(Item)
        BY <2>2, RowsType
    <2> HIDE DEF rows
    <2>4. page \in Seq(Item) /\ Len(page) \in Nat
        <3>1. 1 \in Nat \ {0}
            OBVIOUS
        <3>2. page \in Seq(Item)
            BY <2>2, <2>3, <3>1, RowsType
        <3> HIDE DEF page
        <3> QED
            BY <3>2
    <2>5. ids[c] \o page \in Seq(Item)
        <3> HIDE DEF page
        <3> QED
            BY <2>4
    <2>6. /\ ids' = [ids EXCEPT ![c] = @ \o page]
          /\ pos' = [pos EXCEPT ![c] = @ + Len(page)]
          /\ pc' = [pc EXCEPT ![c] = IF Len(rows) > Limit THEN "page" ELSE "listed"]
        BY <2>1 DEF rows
    <2> HIDE DEF page
    <2>7. ids' \in [Client -> Seq(Item)]
        BY <2>5, <2>6
    <2>8. pos' \in [Client -> Nat \ {0}]
        BY <2>4, <2>6
    <2>9. pc' \in [Client -> {"idle", "count", "insert", "commit", "delete", "select", "update",
                              "page", "listed"}]
        BY <2>6
    <2> QED
        BY <1>10, <2>7, <2>8, <2>9 DEF ReadPage
<1> HIDE DEF RankTypeOK
<1> QED
    BY <1>1, <1>3, <1>4, <1>5, <1>6, <1>7, <1>8, <1>9, <1>10
       DEF RequestStep, Step, CommitCreate, CommitOrder, Listed, Abort, BreakDeadlock

LEMMA PlacesStep ==
    ASSUME RankTypeOK, Places, NEW c \in Client, RequestStep(c)
    PROVE  Places'
<1>1. ASSUME NEW d \in Client \ {c} PROVE PlaceOf(d)'
    BY OthersWait DEF Places, PlaceOf
<1> SUFFICES PlaceOf(c)'
    BY <1>1 DEF Places
<1>p. PlaceOf(c)
    BY DEF Places
<1>2. CASE StartCreate(c) \/ StartDelete(c) \/ StartOrder(c) \/ StartList(c)
    <2>1. PICK o \in {"create", "delete", "order", "list"}, a \in Item \cup Int, s \in Seq(Item),
               at \in {"count", "insert", "delete", "update", "page"}, hazard \in BOOLEAN :
            /\ Start(c, o, a, s, at, hazard)
            /\ at \in {"count", "insert"} => o = "create" /\ a \in Int /\ Len(s) = 1
            /\ at = "delete" => o = "delete" /\ a \in Item
            /\ at = "update" => o = "order"
            /\ at = "page" => o = "list"
        BY <1>2, Started
    <2>2. /\ pc'[c] = at /\ op'[c] = o /\ arg'[c] = a /\ ids'[c] = s /\ pos'[c] = 1
          /\ DOMAIN writes'[c] = {}
        BY <2>1, <1>p DEF Start, RankTypeOK, PlaceOf
    <2> QED
        BY <2>1, <2>2 DEF PlaceOf
<1>3. ASSUME End(c) PROVE PlaceOf(c)'
    <2>1. pc'[c] = "idle" /\ op'[c] = "none" /\ DOMAIN writes'[c] = {}
        BY <1>3, NoWritesProperties DEF End, RankTypeOK
    <2> QED
        BY <2>1 DEF PlaceOf
<1>4. CASE CountRank(c)
    <2>1. CASE Fail(c)
        BY <2>1, <1>3 DEF Fail
    <2>2. CASE pc' = [pc EXCEPT ![c] = "insert"] /\ UNCHANGED <<op, arg, ids, writes>>
        BY <2>2, <1>4, <1>p DEF CountRank, PlaceOf, RankTypeOK
    <2> QED
        BY <2>1, <2>2, <1>4 DEF CountRank
<1>5. CASE Insert(c)
    <2>1. /\ pc[c] = "insert" /\ op[c] = "create" /\ arg[c] \in Int /\ Len(ids[c]) = 1
          /\ DOMAIN writes[c] = {} /\ ids[c] \in Seq(Item) /\ writes[c] \in PartialRanks
        BY <1>5, <1>p DEF Insert, PlaceOf, RankTypeOK
    <2>i. ids[c][1] \in Item
        BY <2>1
    <2>2. /\ pc'[c] = "commit" /\ writes'[c] = Write(writes[c], ids[c][1], arg[c])
          /\ UNCHANGED <<op, arg, ids>>
        BY <1>5 DEF Insert, RankTypeOK
    <2>3. DOMAIN writes'[c] = {ids[c][1]} /\ writes'[c][ids[c][1]] = arg[c]
        <3>1. /\ DOMAIN Write(writes[c], ids[c][1], arg[c]) = DOMAIN writes[c] \cup {ids[c][1]}
              /\ Write(writes[c], ids[c][1], arg[c])[ids[c][1]] = arg[c]
            BY DEF Write
        <3> QED
            BY <2>1, <2>2, <3>1
    <2> QED
        BY <2>1, <2>2, <2>3 DEF PlaceOf
<1>6. CASE DeleteRow(c)
    <2>1. /\ op[c] = "delete" /\ arg[c] \in Item /\ DOMAIN writes[c] = {} /\ pos[c] = 1
        BY <1>6, <1>p DEF DeleteRow, PlaceOf, RankTypeOK
    <2>2. /\ pc'[c] = "select" /\ UNCHANGED <<op, arg, ids, pos>>
          /\ writes'[c] \in {writes[c], Write(writes[c], arg[c], Absent)}
        BY <1>6 DEF DeleteRow, RankTypeOK
    <2>3. \A i \in DOMAIN writes'[c] : i = arg[c] /\ writes'[c][i] = Absent
        <3>1. /\ DOMAIN Write(writes[c], arg[c], Absent) = DOMAIN writes[c] \cup {arg[c]}
              /\ Write(writes[c], arg[c], Absent)[arg[c]] = Absent
            BY DEF Write
        <3> QED
            BY <2>1, <2>2, <3>1
    <2> QED
        BY <2>1, <2>2, <2>3 DEF PlaceOf
<1>7. CASE SelectIds(c)
    BY <1>7, <1>p DEF SelectIds, PlaceOf, RankTypeOK
<1>8. CASE UpdateRank(c)
    BY <1>8, <1>p DEF UpdateRank, PlaceOf, RankTypeOK
<1>9. CASE ReadPage(c)
    <2>1. pc'[c] \in {"page", "listed"} /\ UNCHANGED <<op, arg, writes>>
        BY <1>9 DEF ReadPage, RankTypeOK
    <2>2. pc[c] = "page"
        BY <1>9 DEF ReadPage
    <2> QED
        BY <2>1, <2>2, <1>p DEF PlaceOf
<1> QED
    BY <1>2, <1>3, <1>4, <1>5, <1>6, <1>7, <1>8, <1>9
       DEF RequestStep, Step, CommitCreate, CommitOrder, Listed, Abort, BreakDeadlock, Commit,
           Fail

-----------------------------------------------------------------------------
\* What can happen to the committed rows, to the kind of a request and to the
\* history of collisions.
LEMMA RankChanges ==
    ASSUME RankTypeOK, NEW c \in Client, RequestStep(c)
    PROVE  \/ rank' = rank
           \/ /\ Commit(c)
              /\ pc[c] = "commit" \/ (pc[c] = "update" /\ pos[c] \notin DOMAIN ids[c])
<1>1. CASE StartCreate(c) \/ StartDelete(c) \/ StartOrder(c) \/ StartList(c)
    BY <1>1, Started DEF Start
<1>2. CASE CountRank(c) \/ Insert(c) \/ DeleteRow(c)
    BY <1>2 DEF CountRank, Insert, DeleteRow, Fail
<1>3. CASE SelectIds(c) \/ UpdateRank(c) \/ ReadPage(c)
    BY <1>3 DEF SelectIds, UpdateRank, ReadPage
<1>4. CASE Listed(c) \/ Abort(c) \/ BreakDeadlock(c)
    BY <1>4 DEF Listed, Abort, BreakDeadlock, Fail
<1>5. CASE CommitCreate(c) \/ CommitOrder(c)
    BY <1>5 DEF CommitCreate, CommitOrder
<1> QED
    BY <1>1, <1>2, <1>3, <1>4, <1>5 DEF RequestStep, Step

LEMMA EndEffect ==
    ASSUME RankTypeOK, NEW c \in Client, End(c)
    PROVE  /\ pc'[c] = "idle" /\ op'[c] = "none" /\ DOMAIN writes'[c] = {}
           /\ mixed' = mixed
BY NoWritesProperties DEF End, RankTypeOK

LEMMA CommitEffect ==
    ASSUME RankTypeOK, NEW c \in Client, Commit(c)
    PROVE  /\ End(c)
           /\ \A i \in Item : /\ i \in DOMAIN writes[c] => rank'[i] = writes[c][i]
                              /\ i \notin DOMAIN writes[c] => rank'[i] = rank[i]
BY VisibleType DEF Commit

\* A request that has started and not brought about a collision.
CleanStart(c, o, a, s, at) ==
    /\ pc'[c] = at /\ op'[c] = o /\ arg'[c] = a /\ ids'[c] = s /\ pos'[c] = 1
    /\ pc[c] = "idle" /\ UNCHANGED <<rank, writes>>
    /\ \A d \in Client \ {c} : /\ o # "list" => op[d] # "create"
                               /\ o = "create" => ~Changing(d)
    /\ at \in {"count", "insert"} => o = "create"
    /\ at = "insert" => \A i \in Item : rank[i] # a
    /\ at = "update" => o = "order" /\ Permutes(s, Present)

LEMMA StartsClean ==
    ASSUME RankTypeOK, NEW c \in Client, ~mixed',
           StartCreate(c) \/ StartDelete(c) \/ StartOrder(c) \/ StartList(c)
    PROVE  /\ ~mixed
           /\ \E o \in {"create", "delete", "order", "list"}, a \in Item \cup Int,
                 s \in Seq(Item), at \in {"count", "insert", "delete", "update", "page"} :
                CleanStart(c, o, a, s, at)
<1>1. PICK o \in {"create", "delete", "order", "list"}, a \in Item \cup Int, s \in Seq(Item),
           at \in {"count", "insert", "delete", "update", "page"}, hazard \in BOOLEAN :
        /\ Start(c, o, a, s, at, hazard)
        /\ at \in {"count", "insert"} => o = "create" /\ a \in Int /\ Len(s) = 1
        /\ at = "insert" /\ ~hazard => \A i \in Item : rank[i] # a
        /\ at = "delete" => o = "delete" /\ a \in Item
        /\ at = "update" => o = "order" /\ (~hazard => Permutes(s, Present))
    BY Started
<1>2. /\ ~mixed /\ ~hazard
      /\ ~\E d \in Client \ {c} : \/ op[d] = "create" /\ o # "list"
                                  \/ Changing(d) /\ o = "create"
    BY <1>1 DEF Start, RankTypeOK
<1>3. /\ pc'[c] = at /\ op'[c] = o /\ arg'[c] = a /\ ids'[c] = s /\ pos'[c] = 1
      /\ pc[c] = "idle" /\ UNCHANGED <<rank, writes>>
    BY <1>1 DEF Start, RankTypeOK
<1>4. CleanStart(c, o, a, s, at)
    BY <1>1, <1>2, <1>3 DEF CleanStart
<1> QED
    BY <1>2, <1>4

LEMMA CleanSteps ==
    ASSUME RankTypeOK, NEW c \in Client, RequestStep(c), ~mixed'
    PROVE  /\ ~mixed
           /\ \/ op' = op
              \/ End(c)
              \/ \E o \in {"create", "delete", "order", "list"}, a \in Item \cup Int,
                    s \in Seq(Item), at \in {"count", "insert", "delete", "update", "page"} :
                   CleanStart(c, o, a, s, at)
<1>1. CASE StartCreate(c) \/ StartDelete(c) \/ StartOrder(c) \/ StartList(c)
    BY <1>1, StartsClean
<1>2. CASE End(c)
    BY <1>2 DEF End
<1>3. CASE CountRank(c) \/ Insert(c) \/ DeleteRow(c)
    BY <1>2, <1>3 DEF CountRank, Insert, DeleteRow, Fail
<1>4. CASE SelectIds(c) \/ UpdateRank(c) \/ ReadPage(c)
    <2>1. op' = op /\ mixed' = mixed
        BY <1>4 DEF SelectIds, UpdateRank, ReadPage
    <2> QED
        BY <2>1
<1> QED
    BY <1>1, <1>2, <1>3, <1>4 DEF RequestStep, Step, CommitCreate, CommitOrder, Listed, Abort,
                                  BreakDeadlock, Fail, Commit

\* Who has written a row is changing something.
LEMMA WritersChange ==
    ASSUME RankTypeOK, Places, NEW c \in Client
    PROVE  /\ ~Changing(c) => DOMAIN writes[c] = {} /\ pc[c] \notin {"update", "commit"}
           /\ op[c] = "create" => pc[c] # "update"
           /\ pc[c] \in {"insert", "commit"} => op[c] = "create"
           /\ pc[c] = "update" => op[c] \in {"delete", "order"}
<1>1. PlaceOf(c)
    BY DEF Places
<1>2. pc[c] \in {"idle", "count", "insert", "commit", "delete", "select", "update", "page",
                 "listed"}
    BY DEF RankTypeOK
<1> QED
    BY <1>1, <1>2 DEF PlaceOf, Changing

LEMMA CreatesAloneStep ==
    ASSUME RankInv, NEW c \in Client, RequestStep(c), ~mixed'
    PROVE  CreatesAlone'
<1>t. RankTypeOK /\ ~mixed
    BY CleanSteps DEF RankInv
<1>a. CreatesAlone
    BY <1>t DEF RankInv, CleanInv
<1>o. \A d \in Client \ {c} : op'[d] = op[d]
    BY <1>t, OthersWait
<1>1. CASE op' = op
    BY <1>1, <1>a DEF CreatesAlone, Changing
<1>2. CASE End(c)
    <2>1. op'[c] = "none"
        BY <1>2, <1>t, EndEffect
    <2> QED
        BY <2>1, <1>a, <1>o DEF CreatesAlone, Changing
<1>3. ASSUME NEW o, NEW a, NEW s, NEW at, CleanStart(c, o, a, s, at) PROVE CreatesAlone'
    BY <1>3, <1>a, <1>o DEF CreatesAlone, Changing, CleanStart
<1> QED
    BY <1>1, <1>2, <1>3, <1>t, CleanSteps

LEMMA FreeRankStep ==
    ASSUME RankInv, NEW c \in Client, RequestStep(c), ~mixed'
    PROVE  CreatesAtFreeRank'
<1>t. RankTypeOK /\ ~mixed /\ Places
    BY CleanSteps DEF RankInv
<1>a. CreatesAlone /\ CreatesAtFreeRank
    BY <1>t DEF RankInv, CleanInv
<1>1. ASSUME NEW d \in Client \ {c}, pc'[d] \in {"insert", "commit"}
      PROVE  \A i \in Item : rank'[i] # arg'[d]
    <2>1. pc[d] \in {"insert", "commit"} /\ arg'[d] = arg[d]
        BY <1>1, <1>t, OthersWait
    <2>2. ~Changing(c)
        BY <2>1, <1>a, <1>t, WritersChange DEF CreatesAlone
    <2>3. rank' = rank
        BY <2>2, <1>t, RankChanges, WritersChange
    <2> QED
        BY <2>1, <2>3, <1>a DEF CreatesAtFreeRank
<1>2. ASSUME pc'[c] \in {"insert", "commit"}
      PROVE  \A i \in Item : rank'[i] # arg'[c]
    <2>1. ~End(c)
        BY <1>2, <1>t, EndEffect
    <2>2. ASSUME NEW o, NEW a, NEW s,
                 NEW at \in {"count", "insert", "delete", "update", "page"},
                 CleanStart(c, o, a, s, at)
          PROVE  \A i \in Item : rank'[i] # arg'[c]
        <3>1. pc[c] = "idle" /\ pc'[c] = at /\ rank' = rank /\ arg'[c] = a
            BY <2>2 DEF CleanStart
        <3>2. CASE at = "insert"
            BY <2>2, <3>1, <3>2 DEF CleanStart
        <3> QED
            BY <3>1, <3>2, <2>2, <1>2
    <2>3. CASE CountRank(c)
        BY <2>1, <2>3 DEF CountRank, Fail
    <2>4. CASE Insert(c)
        BY <2>4, <1>a DEF Insert, CreatesAtFreeRank
    <2>5. CASE StartCreate(c) \/ StartDelete(c) \/ StartOrder(c) \/ StartList(c)
        BY <2>5, <2>1, <2>2, <1>t, StartsClean
    <2>6. CASE DeleteRow(c) \/ SelectIds(c) \/ UpdateRank(c) \/ ReadPage(c)
        BY <2>6, <1>2, <1>t DEF DeleteRow, SelectIds, UpdateRank, ReadPage, RankTypeOK
    <2> QED
        BY <2>1, <2>3, <2>4, <2>5, <2>6
           DEF RequestStep, Step, CommitCreate, CommitOrder, Listed, Abort, BreakDeadlock, Fail,
               Commit
<1> QED
    BY <1>1, <1>2 DEF CreatesAtFreeRank

\* How a transaction comes to its writes: by inserting a row that is new, or by
\* writing one that exists and that nobody else has written.
LEMMA WritesChange ==
    ASSUME RankTypeOK, Places, NEW c \in Client, RequestStep(c)
    PROVE  \/ DOMAIN writes'[c] = {}
           \/ writes'[c] = writes[c] /\ op'[c] = op[c]
           \/ op[c] = "create" /\ op'[c] = "create"
           \/ /\ op[c] \in {"delete", "order"} /\ op'[c] = op[c]
              /\ \E i \in Item : /\ DOMAIN writes'[c] = DOMAIN writes[c] \cup {i}
                                 /\ Unlocked(c, i) /\ Visible(c)[i] # Absent
<1>p. PlaceOf(c)
    BY DEF Places
<1>1. CASE StartCreate(c) \/ StartDelete(c) \/ StartOrder(c) \/ StartList(c)
    BY <1>1, <1>p, Started DEF Start, PlaceOf
<1>2. CASE End(c)
    BY <1>2, EndEffect
<1>3. CASE CountRank(c) \/ Insert(c)
    <2>1. (op[c] = "create" /\ op'[c] = "create") \/ End(c)
        BY <1>3, <1>p DEF CountRank, Insert, Fail, PlaceOf
    <2> QED
        BY <2>1, <1>2
<1>4. CASE DeleteRow(c)
    <2>1. /\ op[c] = "delete" /\ op'[c] = op[c] /\ arg[c] \in Item
          /\ Unlocked(c, arg[c]) /\ DOMAIN writes[c] = {}
        BY <1>4, <1>p DEF DeleteRow, PlaceOf
    <2>2. CASE rank[arg[c]] # Absent
        <3>1. writes'[c] = Write(writes[c], arg[c], Absent)
            BY <1>4, <2>2 DEF DeleteRow, RankTypeOK
        <3>2. DOMAIN writes'[c] = DOMAIN writes[c] \cup {arg[c]}
            BY <3>1 DEF Write
        <3>3. Visible(c)[arg[c]] # Absent
            BY <2>1, <2>2, VisibleType
        <3> QED
            BY <2>1, <3>2, <3>3
    <2>3. CASE rank[arg[c]] = Absent
        BY <2>1, <2>3, <1>4 DEF DeleteRow
    <2> QED
        BY <2>2, <2>3
<1>5. CASE SelectIds(c) \/ ReadPage(c)
    BY <1>5 DEF SelectIds, ReadPage
<1>6. CASE UpdateRank(c)
    <2> DEFINE i == ids[c][pos[c]]
    <2>1. /\ op[c] \in {"delete", "order"} /\ op'[c] = op[c] /\ i \in Item /\ Unlocked(c, i)
        BY <1>6, <1>p DEF UpdateRank, PlaceOf, RankTypeOK
    <2>2. CASE Visible(c)[i] # Absent
        <3>1. writes'[c] = Write(writes[c], i, pos[c])
            BY <1>6, <2>2 DEF UpdateRank, RankTypeOK
        <3>2. DOMAIN writes'[c] = DOMAIN writes[c] \cup {i}
            BY <3>1 DEF Write
        <3> QED
            BY <2>1, <2>2, <3>2
    <2>3. CASE Visible(c)[i] = Absent
        BY <2>1, <2>3, <1>6 DEF UpdateRank
    <2> QED
        BY <2>2, <2>3
<1> QED
    BY <1>1, <1>2, <1>3, <1>4, <1>5, <1>6
       DEF RequestStep, Step, CommitCreate, CommitOrder, Listed, Abort, BreakDeadlock, Fail,
           Commit

LEMMA WritesOwnRowsStep ==
    ASSUME RankInv, NEW c \in Client, RequestStep(c), ~mixed'
    PROVE  WritesOwnRows'
<1>t. RankTypeOK /\ Places /\ ~mixed
    BY CleanSteps DEF RankInv
<1>a. CreatesAlone /\ WritesOwnRows
    BY <1>t DEF RankInv, CleanInv
<1>o. \A d \in Client \ {c} : writes'[d] = writes[d]
    BY <1>t, OthersWait
<1> SUFFICES ASSUME NEW d \in Client \ {c}
             PROVE  DOMAIN writes'[c] \cap DOMAIN writes[d] = {}
    BY <1>a, <1>o DEF WritesOwnRows
<1>d. DOMAIN writes[c] \cap DOMAIN writes[d] = {}
    BY <1>a DEF WritesOwnRows
<1>1. CASE DOMAIN writes'[c] = {} \/ writes'[c] = writes[c]
    BY <1>1, <1>d
<1>2. CASE op[c] = "create"
    <2>1. ~Changing(d)
        BY <1>2, <1>a DEF CreatesAlone
    <2> QED
        BY <2>1, <1>t, WritersChange
<1>3. ASSUME NEW i \in Item, DOMAIN writes'[c] = DOMAIN writes[c] \cup {i}, Unlocked(c, i)
      PROVE  DOMAIN writes'[c] \cap DOMAIN writes[d] = {}
    BY <1>3, <1>d DEF Unlocked
<1> QED
    BY <1>1, <1>2, <1>3, <1>t, WritesChange

LEMMA ExistingRowsStep ==
    ASSUME RankInv, NEW c \in Client, RequestStep(c), ~mixed'
    PROVE  WritesExistingRows'
<1>t. RankTypeOK /\ Places /\ ~mixed
    BY CleanSteps DEF RankInv
<1>a. CreatesAlone /\ WritesOwnRows /\ WritesExistingRows
    BY <1>t DEF RankInv, CleanInv
<1>1. ASSUME NEW d \in Client \ {c}, op'[d] # "create", NEW i \in DOMAIN writes'[d]
      PROVE  rank'[i] # Absent
    <2>1. i \in DOMAIN writes[d] /\ op[d] # "create" /\ i \in Item
        BY <1>1, <1>t, OthersWait, PartialType DEF RankTypeOK
    <2>2. rank[i] # Absent /\ i \notin DOMAIN writes[c]
        BY <2>1, <1>a DEF WritesExistingRows, WritesOwnRows
    <2>3. rank'[i] = rank[i]
        BY <2>1, <2>2, <1>t, RankChanges, CommitEffect
    <2> QED
        BY <2>2, <2>3
<1>2. ASSUME op'[c] # "create", NEW i \in DOMAIN writes'[c]
      PROVE  rank'[i] # Absent
    <2>1. rank' = rank
        BY <1>2, <1>t, RankChanges, CommitEffect, EndEffect
    <2>2. CASE writes'[c] = writes[c] /\ op'[c] = op[c]
        BY <1>2, <2>1, <2>2, <1>a DEF WritesExistingRows
    <2>3. ASSUME op[c] \in {"delete", "order"}, NEW j \in Item,
                 DOMAIN writes'[c] = DOMAIN writes[c] \cup {j}, Visible(c)[j] # Absent
          PROVE  rank[i] # Absent
        <3>1. CASE i \in DOMAIN writes[c]
            BY <2>3, <3>1, <1>a DEF WritesExistingRows
        <3>2. CASE i \notin DOMAIN writes[c]
            BY <2>3, <3>2, <1>2, <1>t, VisibleType
        <3> QED
            BY <3>1, <3>2
    <2> QED
        BY <1>2, <2>1, <2>2, <2>3, <1>t, WritesChange
<1> QED
    BY <1>1, <1>2 DEF WritesExistingRows

\* Without creations rows only disappear.
LEMMA RowsDisappear ==
    ASSUME RankInv, ~mixed, NEW c \in Client, RequestStep(c), pc[c] # "commit",
           NEW i \in Item, rank'[i] # Absent
    PROVE  rank[i] # Absent
<1>t. RankTypeOK /\ Places /\ WritesExistingRows
    BY DEF RankInv, CleanInv
<1>1. CASE rank' = rank
    BY <1>1
<1>2. CASE Commit(c) /\ pc[c] = "update"
    <2>1. op[c] # "create"
        BY <1>2, <1>t, WritersChange
    <2>2. i \in DOMAIN writes[c] => rank[i] # Absent
        BY <2>1, <1>t DEF WritesExistingRows
    <2>3. i \notin DOMAIN writes[c] => rank'[i] = rank[i]
        BY <1>2, <1>t, CommitEffect
    <2> QED
        BY <2>2, <2>3
<1> QED
    BY <1>1, <1>2, <1>t, RankChanges

LEMMA RenumbersStep ==
    ASSUME RankInv, NEW c \in Client, RequestStep(c), ~mixed'
    PROVE  RenumbersAll'
<1>t. RankTypeOK /\ Places /\ ~mixed /\ RankTypeOK'
    BY CleanSteps, RankTypeStep DEF RankInv
<1>a. CreatesAlone /\ RenumbersAll
    BY <1>t DEF RankInv, CleanInv
<1>1. ASSUME NEW d \in Client \ {c}, pc'[d] = "update" PROVE Renumbers(d)'
    <2>1. /\ pc[d] = "update" /\ ids'[d] = ids[d] /\ pos'[d] = pos[d]
          /\ writes'[d] = writes[d]
        BY <1>1, <1>t, OthersWait
    <2>2. Renumbers(d)
        BY <2>1, <1>a DEF RenumbersAll
    <2>3. pc[c] # "commit"
        BY <2>1, <1>a, <1>t, WritersChange DEF CreatesAlone, Changing
    <2>4. \A i \in Item : Visible(d)'[i] # Absent => Visible(d)[i] # Absent
        <3> SUFFICES ASSUME NEW i \in Item, Visible(d)'[i] # Absent
                     PROVE  Visible(d)[i] # Absent
            OBVIOUS
        <3>1. CASE i \in DOMAIN writes[d]
            BY <3>1, <2>1 DEF Visible
        <3>2. CASE i \notin DOMAIN writes[d]
            <4>1. rank'[i] # Absent
                BY <3>2, <2>1 DEF Visible
            <4>2. rank[i] # Absent
                BY <4>1, <2>3, <1>t, RowsDisappear
            <4> QED
                BY <3>2, <4>2 DEF Visible
        <3> QED
            BY <3>1, <3>2
    <2> QED
        BY <2>1, <2>2, <2>4 DEF Renumbers
<1>2. ASSUME pc'[c] = "update" PROVE Renumbers(c)'
    <2>e. ~End(c)
        BY <1>2, <1>t, EndEffect
    <2>1. CASE StartCreate(c) \/ StartDelete(c) \/ StartOrder(c) \/ StartList(c)
        <3>1. PICK o \in {"create", "delete", "order", "list"}, a \in Item \cup Int,
                   s \in Seq(Item), at \in {"count", "insert", "delete", "update", "page"} :
                CleanStart(c, o, a, s, at)
            BY <2>1, <1>t, StartsClean
        <3>2. /\ ids'[c] = s /\ pos'[c] = 1 /\ Permutes(s, Present)
              /\ rank' = rank /\ writes' = writes
            BY <3>1, <1>2 DEF CleanStart
        <3>3. DOMAIN writes[c] = {}
            BY <3>1, <1>t DEF CleanStart, Places, PlaceOf
        <3>4. \A i \in Item : Visible(c)'[i] # Absent => i \in Present
            BY <3>2, <3>3 DEF Visible, Present
        <3>5. \A i \in Present : \E k \in DOMAIN s : s[k] = i
            BY <3>2 DEF Permutes
        <3>6. \A k, l \in DOMAIN s : s[k] = s[l] => k = l
            BY <3>2 DEF Permutes
        <3>7. \A k \in DOMAIN s : ~(k < 1)
            BY <3>1
        <3> QED
            BY <3>2, <3>4, <3>5, <3>6, <3>7 DEF Renumbers
    <2>2. CASE SelectIds(c)
        <3>1. PICK s \in InRankOrder(Visible(c)) : ids' = [ids EXCEPT ![c] = s]
            BY <2>2 DEF SelectIds
        <3>2. ids'[c] = s /\ UNCHANGED <<rank, writes, pos>> /\ Visible(c) \in [Item -> Int]
            BY <3>1, <2>2, <1>t, VisibleType DEF SelectIds, RankTypeOK
        <3>3. /\ s \in Seq(Item) /\ DOMAIN s = 1..Len(s)
              /\ \A j, k \in DOMAIN s : s[j] = s[k] => j = k
              /\ \A i \in Item : Visible(c)[i] # Absent => \E k \in DOMAIN s : s[k] = i
            BY <3>2, InOrderProperties
        <3>4. pos[c] = 1
            BY <2>2, <1>t DEF SelectIds, Places, PlaceOf
        <3>5. Visible(c)' = Visible(c)
            BY <3>2 DEF Visible
        <3> QED
            BY <3>2, <3>3, <3>4, <3>5 DEF Renumbers
    <2>3. CASE UpdateRank(c)
        <3> DEFINE i == ids[c][pos[c]]
        <3>1. /\ pc[c] = "update" /\ pos[c] \in DOMAIN ids[c] /\ pos'[c] = pos[c] + 1
              /\ UNCHANGED <<rank, ids>> /\ i \in Item /\ pos[c] \in Nat
              /\ writes'[c] = IF Visible(c)[i] # Absent THEN Write(writes[c], i, pos[c])
                              ELSE writes[c]
            BY <2>3, <1>t DEF UpdateRank, RankTypeOK
        <3>2. Renumbers(c)
            BY <3>1, <1>a DEF RenumbersAll
        <3>3. DOMAIN ids[c] \subseteq Nat
            BY <1>t DEF RankTypeOK
        <3>4. /\ DOMAIN writes[c] \subseteq DOMAIN writes'[c]
              /\ \A j \in DOMAIN writes[c] \ {i} : writes'[c][j] = writes[c][j]
              /\ Visible(c)[i] # Absent => i \in DOMAIN writes'[c] /\ writes'[c][i] = pos[c]
              /\ \A j \in DOMAIN writes'[c] \ {i} : j \in DOMAIN writes[c]
            BY <3>1 DEF Write
        <3>5. ASSUME NEW j \in Item, Visible(c)'[j] # Absent
              PROVE  Visible(c)[j] # Absent
            <4>1. CASE j = i
                BY <3>5, <3>1, <4>1 DEF Visible
            <4>2. CASE j # i
                BY <3>5, <3>1, <3>4, <4>2 DEF Visible
            <4> QED
                BY <4>1, <4>2
        <3>6. ASSUME NEW j \in Item, Visible(c)[j] # Absent
              PROVE  \E k \in DOMAIN ids[c] :
                       /\ ids[c][k] = j
                       /\ k < pos[c] + 1 => j \in DOMAIN writes'[c] /\ writes'[c][j] = k
            <4>1. PICK k \in DOMAIN ids[c] :
                    /\ ids[c][k] = j
                    /\ k < pos[c] => j \in DOMAIN writes[c] /\ writes[c][j] = k
                BY <3>6, <3>2 DEF Renumbers
            <4>2. CASE k = pos[c]
                BY <4>1, <4>2, <3>4, <3>6
            <4>3. CASE k # pos[c]
                <5>1. j # i
                    BY <4>1, <4>3, <3>1, <3>2 DEF Renumbers
                <5>2. k < pos[c] + 1 => k < pos[c]
                    BY <4>3, <3>1, <3>3
                <5> QED
                    BY <4>1, <5>1, <5>2, <3>4
            <4> QED
                BY <4>2, <4>3
        <3>7. \A k, l \in DOMAIN ids[c] : ids[c][k] = ids[c][l] => k = l
            BY <3>2 DEF Renumbers
        <3> QED
            BY <3>1, <3>5, <3>6, <3>7 DEF Renumbers
    <2>4. CASE CountRank(c) \/ Insert(c) \/ DeleteRow(c) \/ ReadPage(c)
        BY <2>4, <2>e, <1>2, <1>t DEF CountRank, Insert, DeleteRow, ReadPage, Fail, RankTypeOK
    <2> QED
        BY <2>e, <2>1, <2>2, <2>3, <2>4
           DEF RequestStep, Step, CommitCreate, CommitOrder, Listed, Abort, BreakDeadlock, Fail,
               Commit
<1> QED
    BY <1>1, <1>2 DEF RenumbersAll

\* A renumbering that has passed all of its list gives different ranks.
LEMMA RenumberedDistinct ==
    ASSUME RankTypeOK, NEW c \in Client, Renumbers(c), pos[c] \notin DOMAIN ids[c]
    PROVE  /\ \A i \in Item : Visible(c)[i] # Absent =>
                \E k \in DOMAIN ids[c] : ids[c][k] = i /\ Visible(c)[i] = k
           /\ Distinct(Visible(c))
<1>1. \A k \in DOMAIN ids[c] : k < pos[c]
    <2>1. ids[c] \in Seq(Item) /\ pos[c] \in Nat \ {0}
        BY DEF RankTypeOK
    <2>2. DOMAIN ids[c] = 1..Len(ids[c]) /\ Len(ids[c]) \in Nat
        BY <2>1
    <2> QED
        BY <2>1, <2>2
<1>2. \A i \in Item : Visible(c)[i] # Absent =>
        \E k \in DOMAIN ids[c] : ids[c][k] = i /\ Visible(c)[i] = k
    <2> SUFFICES ASSUME NEW i \in Item, Visible(c)[i] # Absent
                 PROVE  \E k \in DOMAIN ids[c] : ids[c][k] = i /\ Visible(c)[i] = k
        OBVIOUS
    <2>1. PICK k \in DOMAIN ids[c] :
            /\ ids[c][k] = i
            /\ k < pos[c] => i \in DOMAIN writes[c] /\ writes[c][i] = k
        BY DEF Renumbers
    <2>2. Visible(c)[i] = k
        BY <1>1, <2>1, VisibleType
    <2> QED
        BY <2>1, <2>2
<1> QED
    BY <1>2 DEF Distinct

LEMMA DistinctStep ==
    ASSUME RankInv, NEW c \in Client, RequestStep(c), ~mixed'
    PROVE  Distinct(rank')
<1>t. RankTypeOK /\ Places /\ ~mixed
    BY CleanSteps DEF RankInv
<1>a. Distinct(rank) /\ CreatesAtFreeRank /\ RenumbersAll
    BY <1>t DEF RankInv, CleanInv
<1>1. CASE rank' = rank
    BY <1>1, <1>a
<1>2. CASE Commit(c) /\ pc[c] = "commit"
    <2>1. /\ DOMAIN writes[c] = {ids[c][1]} /\ writes[c][ids[c][1]] = arg[c]
          /\ \A i \in Item : rank[i] # arg[c]
        BY <1>2, <1>a, <1>t DEF Places, PlaceOf, CreatesAtFreeRank
    <2>2. \A i \in Item : /\ i = ids[c][1] => rank'[i] = arg[c]
                          /\ i # ids[c][1] => rank'[i] = rank[i]
        BY <1>2, <2>1, <1>t, CommitEffect
    <2> QED
        BY <2>1, <2>2, <1>a DEF Distinct
<1>3. CASE Commit(c) /\ pc[c] = "update" /\ pos[c] \notin DOMAIN ids[c]
    <2>1. Distinct(Visible(c))
        BY <1>3, <1>a, <1>t, RenumberedDistinct DEF RenumbersAll
    <2> QED
        BY <1>3, <2>1 DEF Commit
<1> QED
    BY <1>1, <1>2, <1>3, <1>t, RankChanges

\* While a deletion holds the lock of its row nobody else commits: who
\* renumbers has the row in its list, and cannot pass it.
LEMMA LockStopsOthers ==
    ASSUME RankInv, ~mixed, NEW c \in Client, NEW d \in Client \ {c},
           op[d] = "delete", arg[d] \in DOMAIN writes[d], RequestStep(c)
    PROVE  rank' = rank
<1>t. RankTypeOK /\ Places
    BY DEF RankInv
<1>a. CreatesAlone /\ WritesExistingRows /\ WritesOwnRows /\ RenumbersAll
    BY DEF RankInv, CleanInv
<1>1. pc[c] # "commit"
    BY <1>a, <1>t, WritersChange DEF CreatesAlone, Changing
<1>2. ASSUME pc[c] = "update", pos[c] \notin DOMAIN ids[c] PROVE FALSE
    <2>1. arg[d] \in Item /\ arg[d] \notin DOMAIN writes[c] /\ rank[arg[d]] # Absent
        BY <1>a, <1>t, PartialType DEF WritesExistingRows, WritesOwnRows, RankTypeOK
    <2>2. Renumbers(c)
        BY <1>2, <1>a DEF RenumbersAll
    <2>3. Visible(c)[arg[d]] # Absent
        BY <2>1, <1>t, VisibleType
    <2>4. PICK k \in DOMAIN ids[c] :
            ids[c][k] = arg[d] /\ (k < pos[c] => arg[d] \in DOMAIN writes[c])
        BY <2>1, <2>2, <2>3 DEF Renumbers
    <2>5. ids[c] \in Seq(Item) /\ pos[c] \in Nat \ {0}
        BY <1>t DEF RankTypeOK
    <2>6. DOMAIN ids[c] = 1..Len(ids[c]) /\ Len(ids[c]) \in Nat
        BY <2>5
    <2>7. k < pos[c]
        BY <1>2, <2>4, <2>5, <2>6
    <2> QED
        BY <2>1, <2>4, <2>7
<1> QED
    BY <1>1, <1>2, <1>t, RankChanges

\* A deletion that has found no row does not write it later.
LEMMA GoneNotWritten ==
    ASSUME RankTypeOK, Places, DeletedIsGone, NEW c \in Client, UpdateRank(c),
           op[c] = "delete", arg[c] \notin DOMAIN writes[c]
    PROVE  arg[c] \notin DOMAIN writes'[c] /\ rank[arg[c]] = Absent
<1> DEFINE i == ids[c][pos[c]]
<1>1. pc[c] = "update" /\ arg[c] \in Item
    BY DEF UpdateRank, Places, PlaceOf
<1>2. rank[arg[c]] = Absent
    BY <1>1 DEF DeletedIsGone
<1>3. Visible(c)[arg[c]] = Absent
    BY <1>1, <1>2, VisibleType
<1>4. writes'[c] = IF Visible(c)[i] # Absent THEN Write(writes[c], i, pos[c]) ELSE writes[c]
    BY DEF UpdateRank, RankTypeOK
<1>5. arg[c] \notin DOMAIN writes'[c]
    BY <1>3, <1>4 DEF Write
<1> QED
    BY <1>2, <1>5

LEMMA DeletedIsGoneStep ==
    ASSUME RankInv, NEW c \in Client, RequestStep(c), ~mixed'
    PROVE  DeletedIsGone'
<1>t. RankTypeOK /\ Places /\ ~mixed
    BY CleanSteps DEF RankInv
<1>a. DeletedIsGone /\ CreatesAlone
    BY <1>t DEF RankInv, CleanInv
<1>1. ASSUME NEW d \in Client \ {c}, op'[d] = "delete", pc'[d] \in {"select", "update"},
             arg'[d] \notin DOMAIN writes'[d]
      PROVE  rank'[arg'[d]] = Absent
    <2>1. /\ op[d] = "delete" /\ pc[d] \in {"select", "update"}
          /\ arg[d] \notin DOMAIN writes[d] /\ arg'[d] = arg[d]
        BY <1>1, <1>t, OthersWait
    <2>2. rank[arg[d]] = Absent /\ arg[d] \in Item
        BY <2>1, <1>a, <1>t DEF DeletedIsGone, Places, PlaceOf
    <2>3. pc[c] # "commit"
        BY <2>1, <1>a, <1>t, WritersChange DEF CreatesAlone, Changing
    <2> QED
        BY <2>1, <2>2, <2>3, <1>t, RowsDisappear
<1>2. ASSUME op'[c] = "delete", pc'[c] \in {"select", "update"},
             arg'[c] \notin DOMAIN writes'[c]
      PROVE  rank'[arg'[c]] = Absent
    <2>e. ~End(c)
        BY <1>2, <1>t, EndEffect
    <2>1. CASE StartCreate(c) \/ StartDelete(c) \/ StartOrder(c) \/ StartList(c)
        BY <2>1, <1>2, <1>t, StartsClean DEF CleanStart
    <2>2. CASE SelectIds(c)
        <3>1. UNCHANGED <<rank, writes, arg, op>> /\ pc[c] = "select"
            BY <2>2 DEF SelectIds
        <3> QED
            BY <3>1, <1>2, <1>a DEF DeletedIsGone
    <2>3. CASE UpdateRank(c)
        <3>1. /\ pc[c] = "update" /\ op[c] = "delete" /\ UNCHANGED <<rank, arg>>
            BY <2>3, <1>2 DEF UpdateRank
        <3>2. DOMAIN writes[c] \subseteq DOMAIN writes'[c]
            BY <2>3, <1>t DEF UpdateRank, Write, RankTypeOK
        <3> QED
            BY <1>2, <3>1, <3>2, <1>a DEF DeletedIsGone
    <2>4. CASE DeleteRow(c)
        <3>1. CASE rank[arg[c]] = Absent
            BY <2>4, <3>1 DEF DeleteRow
        <3>2. CASE rank[arg[c]] # Absent
            <4>1. writes'[c] = Write(writes[c], arg[c], Absent) /\ arg' = arg
                BY <2>4, <3>2, <1>t DEF DeleteRow, RankTypeOK
            <4>2. arg[c] \in DOMAIN writes'[c]
                BY <4>1 DEF Write
            <4> QED
                BY <1>2, <4>1, <4>2
        <3> QED
            BY <3>1, <3>2
    <2>5. CASE CountRank(c) \/ Insert(c) \/ ReadPage(c)
        BY <2>5, <2>e, <1>2, <1>t DEF CountRank, Insert, ReadPage, Fail, RankTypeOK
    <2> QED
        BY <2>e, <2>1, <2>2, <2>3, <2>4, <2>5
           DEF RequestStep, Step, CommitCreate, CommitOrder, Listed, Abort, BreakDeadlock, Fail,
               Commit
<1> QED
    BY <1>1, <1>2 DEF DeletedIsGone

LEMMA DeletesInOrderStep ==
    ASSUME RankInv, NEW c \in Client, RequestStep(c), ~mixed'
    PROVE  DeletesInOrder'
<1>t. RankTypeOK /\ Places /\ ~mixed
    BY CleanSteps DEF RankInv
<1>a. DeletesInOrder
    BY <1>t DEF RankInv
<1>1. ASSUME NEW d \in Client \ {c}, op'[d] = "delete", pc'[d] = "update",
             arg'[d] \in DOMAIN writes'[d], NEW k \in DOMAIN ids'[d], NEW l \in DOMAIN ids'[d],
             k < l
      PROVE  rank'[ids'[d][k]] <= rank'[ids'[d][l]]
    <2>1. /\ op[d] = "delete" /\ pc[d] = "update" /\ arg[d] \in DOMAIN writes[d]
          /\ ids'[d] = ids[d]
        BY <1>1, <1>t, OthersWait
    <2>2. rank' = rank
        BY <2>1, <1>t, LockStopsOthers
    <2> QED
        BY <1>1, <2>1, <2>2, <1>a DEF DeletesInOrder
<1>2. ASSUME op'[c] = "delete", pc'[c] = "update", arg'[c] \in DOMAIN writes'[c],
             NEW k \in DOMAIN ids'[c], NEW l \in DOMAIN ids'[c], k < l
      PROVE  rank'[ids'[c][k]] <= rank'[ids'[c][l]]
    <2>e. ~End(c)
        BY <1>2, <1>t, EndEffect
    <2>1. CASE StartCreate(c) \/ StartDelete(c) \/ StartOrder(c) \/ StartList(c)
        BY <2>1, <1>2, <1>t, StartsClean DEF CleanStart
    <2>2. CASE SelectIds(c)
        <3>1. PICK s \in InRankOrder(Visible(c)) : ids' = [ids EXCEPT ![c] = s]
            BY <2>2 DEF SelectIds
        <3>2. ids'[c] = s /\ UNCHANGED <<rank, writes>> /\ Visible(c) \in [Item -> Int]
            BY <3>1, <2>2, <1>t, VisibleType DEF SelectIds, RankTypeOK
        <3>3. /\ s \in Seq(Item)
              /\ \A j \in DOMAIN s : Visible(c)[s[j]] # Absent
              /\ \A i, j \in DOMAIN s : i < j => Visible(c)[s[i]] <= Visible(c)[s[j]]
            BY <3>2, InOrderProperties
        <3>4. \A i \in DOMAIN writes[c] : writes[c][i] = Absent
            BY <2>2, <1>t DEF SelectIds, Places, PlaceOf
        <3>5. \A j \in DOMAIN s : Visible(c)[s[j]] = rank[s[j]]
            <4> SUFFICES ASSUME NEW j \in DOMAIN s PROVE Visible(c)[s[j]] = rank[s[j]]
                OBVIOUS
            <4>1. s[j] \in Item
                BY <3>3
            <4> QED
                BY <4>1, <3>3, <3>4, <1>t, VisibleType
        <3> QED
            BY <1>2, <3>2, <3>3, <3>5
    <2>3. CASE UpdateRank(c)
        <3>1. /\ pc[c] = "update" /\ op[c] = "delete" /\ UNCHANGED <<rank, ids, arg>>
              /\ pos[c] \in DOMAIN ids[c]
            BY <2>3, <1>2 DEF UpdateRank
        <3>2. CASE arg[c] \in DOMAIN writes[c]
            BY <1>2, <3>1, <3>2, <1>a DEF DeletesInOrder
        <3>3. CASE arg[c] \notin DOMAIN writes[c]
            BY <1>2, <2>3, <3>1, <3>3, <1>t, GoneNotWritten DEF RankInv
        <3> QED
            BY <3>2, <3>3
    <2>4. CASE CountRank(c) \/ Insert(c) \/ DeleteRow(c) \/ ReadPage(c)
        BY <2>4, <2>e, <1>2, <1>t DEF CountRank, Insert, DeleteRow, ReadPage, Fail, RankTypeOK
    <2> QED
        BY <2>e, <2>1, <2>2, <2>3, <2>4
           DEF RequestStep, Step, CommitCreate, CommitOrder, Listed, Abort, BreakDeadlock, Fail,
               Commit
<1> QED
    BY <1>1, <1>2 DEF DeletesInOrder

-----------------------------------------------------------------------------
LEMMA RankInvariance == Spec => []RankInv
<1>1. Init => RankInv
    <2> SUFFICES ASSUME Init PROVE RankInv
        OBVIOUS
    <2>1. \A i \in Item :
            /\ (\E k \in DOMAIN Initial : Initial[k] = i) =>
                 rank[i] \in DOMAIN Initial /\ Initial[rank[i]] = i
            /\ ~(\E k \in DOMAIN Initial : Initial[k] = i) => rank[i] = Absent
        BY DEF Init
    <2>2. DOMAIN Initial \subseteq Int
        BY ListsAssumption
    <2>3. rank \in [Item -> Int]
        BY <2>2, AbsentType DEF Init
    <2>4. Distinct(rank)
        BY <2>1 DEF Distinct
    <2>5. /\ \A c \in Client : /\ pc[c] = "idle" /\ op[c] = "none" /\ writes[c] = NoWrites
                               /\ DOMAIN writes[c] = {}
          /\ \A c \in Client : pos[c] \in Nat \ {0} /\ ids[c] \in Seq(Item)
        BY NoWritesProperties DEF Init
    <2>6. RankTypeOK
        <3>1. unused \subseteq Item /\ mixed \in BOOLEAN /\ undisturbed \in [Client -> BOOLEAN]
            BY DEF Init
        <3>2. arg \in [Client -> Item \cup Int] /\ ids \in [Client -> Seq(Item)]
            BY AbsentType DEF Init
        <3>3. writes \in [Client -> PartialRanks]
            BY NoWritesProperties DEF Init
        <3> QED
            BY <2>3, <3>1, <3>2, <3>3 DEF Init, RankTypeOK
    <2>7. Places
        BY <2>5 DEF Places, PlaceOf
    <2>8. CleanInv /\ DeletedIsGone /\ DeletesInOrder
        BY <2>4, <2>5 DEF CleanInv, CreatesAlone, CreatesAtFreeRank, WritesExistingRows,
                          WritesOwnRows, RenumbersAll, DeletedIsGone, DeletesInOrder
    <2> QED
        BY <2>6, <2>7, <2>8 DEF RankInv
<1>2. RankInv /\ [Next]_vars => RankInv'
    <2> SUFFICES ASSUME RankInv, [Next]_vars PROVE RankInv'
        OBVIOUS
    <2>1. CASE UNCHANGED vars
        BY <2>1 DEF vars, RankInv, RankTypeOK, Places, PlaceOf, CleanInv, CreatesAlone, Changing,
               CreatesAtFreeRank, WritesExistingRows, WritesOwnRows, RenumbersAll, Renumbers,
               Visible, Distinct, DeletedIsGone, DeletesInOrder
    <2>2. ASSUME NEW c \in Client, RequestStep(c) PROVE RankInv'
        <3>1. RankTypeOK' /\ Places'
            BY <2>2, RankTypeStep, PlacesStep DEF RankInv
        <3>2. ASSUME ~mixed' PROVE CleanInv' /\ DeletedIsGone' /\ DeletesInOrder'
            BY <2>2, <3>2, CreatesAloneStep, FreeRankStep, ExistingRowsStep, WritesOwnRowsStep,
               RenumbersStep, DistinctStep, DeletedIsGoneStep, DeletesInOrderStep
               DEF CleanInv
        <3> QED
            BY <3>1, <3>2 DEF RankInv
    <2> QED
        BY <2>1, <2>2 DEF Next, RequestStep
<1> QED
    BY <1>1, <1>2, PTL DEF Spec

\* Deletions and complete orderings, overlapping and failing as they like, and
\* creations that run alone give no two rules or rollouts of a flag one rank.
THEOREM RanksStayDistinct == Spec => []RanksDistinct
<1>1. RankInv => RanksDistinct
    BY DEF RankInv, CleanInv, RanksDistinct
<1> QED
    BY <1>1, RankInvariance, PTL

\* A deletion that found its row commits the order that the remaining rows
\* have at that moment, not the one they had when it read them.
THEOREM OrderKeptByDeletion == Spec => DeletionKeepsOrder
<1> DEFINE Keeps ==
        \A c \in Client :
          op[c] = "delete" /\ CommitOrder(c) /\ arg[c] \in DOMAIN writes[c] /\ ~mixed
            => \A i, j \in Item :
                 rank[i] < rank[j] /\ rank'[i] # Absent /\ rank'[j] # Absent
                   => rank'[i] < rank'[j]
<1>1. RankInv => Keeps
    <2> SUFFICES ASSUME RankInv, NEW c \in Client, op[c] = "delete", CommitOrder(c),
                        arg[c] \in DOMAIN writes[c], ~mixed, NEW i \in Item, NEW j \in Item,
                        rank[i] < rank[j], rank'[i] # Absent, rank'[j] # Absent
                 PROVE  rank'[i] < rank'[j]
        OBVIOUS
    <2>1. /\ pc[c] = "update" /\ pos[c] \notin DOMAIN ids[c] /\ rank' = Visible(c)
          /\ RankTypeOK /\ Renumbers(c) /\ DeletesInOrder
        BY DEF CommitOrder, Commit, RankInv, CleanInv, RenumbersAll
    <2>2. PICK k \in DOMAIN ids[c] : ids[c][k] = i /\ rank'[i] = k
        BY <2>1, RenumberedDistinct
    <2>3. PICK l \in DOMAIN ids[c] : ids[c][l] = j /\ rank'[j] = l
        BY <2>1, RenumberedDistinct
    <2>4. l < k => rank[j] <= rank[i]
        BY <2>1, <2>2, <2>3 DEF DeletesInOrder
    <2>5. rank[i] \in Int /\ rank[j] \in Int
        BY <2>1 DEF RankTypeOK
    <2>6. k \in Nat /\ l \in Nat
        BY <2>1 DEF RankTypeOK
    <2>7. k # l
        BY <2>2, <2>3, <2>5
    <2> QED
        BY <2>2, <2>3, <2>4, <2>5, <2>6, <2>7
<1> QED
    BY <1>1, RankInvariance, PTL DEF DeletionKeepsOrder

-----------------------------------------------------------------------------
\* Listings.  With different ranks there is one order: the place of an item is
\* the number of items up to its rank.
LEMMA PlaceIsCount ==
    ASSUME NEW r \in [Item -> Int], Distinct(r), NEW s \in InRankOrder(r), NEW k \in DOMAIN s
    PROVE  k = Cardinality({i \in Item : r[i] # Absent /\ r[i] <= r[s[k]]})
<1> DEFINE B == {i \in Item : r[i] # Absent /\ r[i] <= r[s[k]]}
           f == [m \in 1..k |-> s[m]]
<1>s. s \in Seq(Item) /\ DOMAIN s = 1..Len(s) /\ \A m \in DOMAIN s : r[s[m]] # Absent
    BY InOrderProperties
<1>1. /\ s \in Seq(Item) /\ DOMAIN s = 1..Len(s) /\ Len(s) \in Nat
      /\ \A m \in DOMAIN s : r[s[m]] # Absent /\ s[m] \in Item /\ r[s[m]] \in Int
    BY <1>s
<1>2. /\ \A j, m \in DOMAIN s : s[j] = s[m] => j = m
      /\ \A j, m \in DOMAIN s : j < m => r[s[j]] <= r[s[m]]
      /\ \A i \in Item : r[i] # Absent => \E m \in DOMAIN s : s[m] = i
    BY InOrderProperties
<1>3. k \in Nat /\ 1..k \subseteq DOMAIN s
    BY <1>1
<1>4. \A m \in 1..k : s[m] \in B
    <2> SUFFICES ASSUME NEW m \in 1..k PROVE r[s[m]] <= r[s[k]]
        BY <1>1, <1>3
    <2>1. CASE m = k
        BY <2>1, <1>1, <1>3
    <2>2. CASE m < k
        BY <2>2, <1>2, <1>3
    <2> QED
        BY <2>1, <2>2, <1>3
<1>5. \A i \in B : \E m \in 1..k : s[m] = i
    <2> SUFFICES ASSUME NEW i \in B PROVE \E m \in 1..k : s[m] = i
        OBVIOUS
    <2>1. PICK m \in DOMAIN s : s[m] = i
        BY <1>2
    <2>2. ASSUME k < m PROVE FALSE
        <3>1. r[s[k]] <= r[i] /\ r[i] <= r[s[k]]
            BY <2>1, <2>2, <1>2
        <3>2. r[i] = r[s[k]]
            BY <3>1, <1>1
        <3>3. i = s[k]
            BY <3>2, <1>1 DEF Distinct
        <3> QED
            BY <2>1, <2>2, <3>3, <1>1, <1>2
    <2>3. m \in 1..k
        BY <2>2, <1>1
    <2> QED
        BY <2>1, <2>3
<1> HIDE DEF B
<1>6. f \in Bijection(1..k, B)
    <2>1. f \in [1..k -> B]
        BY <1>4
    <2>2. f \in Injection(1..k, B)
        BY <2>1, <1>2, <1>3 DEF Injection, IsInjective
    <2>3. f \in Surjection(1..k, B)
        BY <2>1, <1>5 DEF Surjection
    <2> QED
        BY <2>2, <2>3 DEF Bijection
<1>7. ExistsBijection(1..k, B)
    BY <1>6 DEF ExistsBijection
<1>8. IsFiniteSet(1..k) /\ Cardinality(1..k) = k
    BY <1>3, <1>1, FS_Interval
<1>9. Cardinality(B) = k
    BY <1>7, <1>8, FS_Bijection
<1> QED
    BY <1>9 DEF B

LEMMA OneOrder ==
    ASSUME NEW r \in [Item -> Int], Distinct(r), NEW s \in InRankOrder(r),
           NEW t \in InRankOrder(r)
    PROVE  s = t
<1>1. /\ s \in Seq(Item) /\ t \in Seq(Item) /\ Len(s) = Len(t)
      /\ DOMAIN s = 1..Len(s) /\ DOMAIN t = 1..Len(t)
      /\ \A k \in DOMAIN s : r[s[k]] # Absent
    BY InOrderProperties, InOrderLength
<1>2. ASSUME NEW k \in 1..Len(s) PROVE s[k] = t[k]
    <2>1. s[k] \in Item /\ r[s[k]] # Absent
        BY <1>1
    <2>2. PICK l \in DOMAIN t : t[l] = s[k]
        BY <2>1, InOrderProperties
    <2>3. k = Cardinality({i \in Item : r[i] # Absent /\ r[i] <= r[s[k]]})
        BY <1>1, PlaceIsCount
    <2>4. l = Cardinality({i \in Item : r[i] # Absent /\ r[i] <= r[t[l]]})
        BY PlaceIsCount
    <2>5. k = l
        BY <2>2, <2>3, <2>4
    <2> QED
        BY <2>2, <2>5
<1> QED
    BY <1>1, <1>2, SeqEqual

\* The invariant of an undisturbed listing: it has read the rows in front of its
\* offset, and all of them at the end.
ListsInOrder ==
    \A c \in Client :
      undisturbed[c] /\ Distinct(rank) =>
        /\ pc[c] = "page" => \A s \in InRankOrder(rank) :
             pos[c] <= Len(s) + 1 /\ ids[c] = SubSeq(s, 1, pos[c] - 1)
        /\ pc[c] = "listed" => ids[c] \in InRankOrder(rank)

\* One page: the rows from the offset on, and the end of the listing exactly
\* when they reach the last row.
LEMMA PageReads ==
    ASSUME NEW s \in Seq(Item), NEW p \in Nat \ {0}, p <= Len(s) + 1
    PROVE  LET rows == Rows(s, p, Limit + 1)
               page == Rows(rows, 1, Limit)
           IN  /\ SubSeq(s, 1, p - 1) \o page = SubSeq(s, 1, p + Len(page) - 1)
               /\ Len(page) \in Nat /\ p + Len(page) <= Len(s) + 1
               /\ Len(rows) <= Limit => p + Len(page) - 1 = Len(s)
<1> DEFINE rows == Rows(s, p, Limit + 1)
           page == Rows(rows, 1, Limit)
           n    == Len(s)
<1>1. Limit \in Nat /\ Limit # 0 /\ Limit + 1 \in Nat /\ n \in Nat /\ 1 \in Nat \ {0}
    BY ListsAssumption
<1> HIDE DEF n
<1>2. /\ rows \in Seq(Item)
      /\ Len(rows) = IF p + Limit < n THEN Limit + 1
                     ELSE IF p <= n THEN n - p + 1 ELSE 0
      /\ \A k \in 1..Len(rows) : rows[k] = s[p + k - 1]
    <2>1. /\ rows \in Seq(Item)
          /\ Len(rows) = IF p + (Limit + 1) - 1 < Len(s) THEN Limit + 1
                         ELSE IF p <= Len(s) THEN Len(s) - p + 1 ELSE 0
          /\ \A k \in 1..Len(rows) : rows[k] = s[p + k - 1]
        BY <1>1, RowsType
    <2> HIDE DEF rows
    <2> QED
        BY <1>1, <2>1 DEF n
<1> HIDE DEF rows
<1>3. /\ page \in Seq(Item)
      /\ Len(page) = IF Limit < Len(rows) THEN Limit
                     ELSE IF 1 <= Len(rows) THEN Len(rows) ELSE 0
      /\ \A k \in 1..Len(page) : page[k] = rows[k]
    <2>1. /\ page \in Seq(Item)
          /\ Len(page) = IF 1 + Limit - 1 < Len(rows) THEN Limit
                         ELSE IF 1 <= Len(rows) THEN Len(rows) - 1 + 1 ELSE 0
          /\ \A k \in 1..Len(page) : page[k] = rows[1 + k - 1]
        BY <1>1, <1>2, RowsType
    <2> HIDE DEF page
    <2>2. Len(rows) \in Nat /\ Len(page) \in Nat
        BY <1>2, <2>1
    <2> QED
        BY <1>1, <2>1, <2>2
<1> HIDE DEF page
<1>4. /\ Len(page) \in Nat /\ p + Len(page) <= n + 1 /\ Len(page) <= Len(rows)
      /\ Len(rows) <= Limit => p + Len(page) - 1 = n
    BY <1>1, <1>2, <1>3 DEF n
<1>5. \A k \in 1..Len(page) : page[k] = s[p + k - 1]
    BY <1>2, <1>3, <1>4
<1>6. /\ SubSeq(s, 1, p - 1) \in Seq(Item) /\ Len(SubSeq(s, 1, p - 1)) = p - 1
      /\ \A k \in 1..p - 1 : SubSeq(s, 1, p - 1)[k] = s[k]
    <2>1. p - 1 \in Int /\ 1 \in Int /\ \A i \in 1..p - 1 : s[i] \in Item
        BY <1>1 DEF n
    <2> QED
        BY <2>1, SubSeqProperties
<1> DEFINE q == p + Len(page) - 1
<1>7. /\ SubSeq(s, 1, q) \in Seq(Item) /\ Len(SubSeq(s, 1, q)) = q
      /\ \A k \in 1..q : SubSeq(s, 1, q)[k] = s[k]
    <2>1. q \in Nat /\ \A i \in 1..q : s[i] \in Item
        BY <1>1, <1>4 DEF n
    <2> HIDE DEF q
    <2>2. 1 \in Int /\ q \in Int
        BY <2>1
    <2>3. /\ SubSeq(s, 1, q) \in Seq(Item)
          /\ Len(SubSeq(s, 1, q)) = IF 1 <= q THEN q - 1 + 1 ELSE 0
          /\ \A k \in 1..q - 1 + 1 : SubSeq(s, 1, q)[k] = s[1 + k - 1]
        BY <2>1, <2>2, SubSeqProperties
    <2> QED
        BY <2>1, <2>3
<1> DEFINE front == SubSeq(s, 1, p - 1)
           whole == SubSeq(s, 1, q)
<1> HIDE DEF front, whole, q
<1>8. /\ front \o page \in Seq(Item)
      /\ Len(front \o page) = Len(front) + Len(page)
      /\ \A i \in 1..Len(front) + Len(page) :
           (front \o page)[i] = IF i <= Len(front) THEN front[i] ELSE page[i - Len(front)]
    BY <1>3, <1>6, ConcatProperties DEF front
<1>9. front \o page = whole
    <2>1. Len(front) = p - 1 /\ Len(front \o page) = q /\ Len(whole) = q /\ q \in Nat
        BY <1>4, <1>6, <1>7, <1>8 DEF front, whole, q
    <2>2. ASSUME NEW i \in 1..q PROVE (front \o page)[i] = whole[i]
        <3>1. CASE i <= p - 1
            BY <2>1, <2>2, <3>1, <1>6, <1>7, <1>8 DEF front, whole, q
        <3>2. CASE i > p - 1
            <4>1. i - (p - 1) \in 1..Len(page)
                BY <2>2, <3>2, <1>4 DEF q
            <4>2. page[i - (p - 1)] = s[i]
                BY <4>1, <1>5, <2>2
            <4>3. (front \o page)[i] = page[i - (p - 1)]
                BY <2>1, <2>2, <3>2, <1>8
            <4> QED
                BY <4>2, <4>3, <1>7, <2>2 DEF whole
        <3> QED
            BY <3>1, <3>2, <2>1
    <2> QED
        BY <2>1, <2>2, <1>7, <1>8, SeqEqual DEF whole
<1> QED
    BY <1>4, <1>9 DEF front, whole, q, n, rows, page

\* A request that counts as undisturbed after a step saw no rank change in it.
LEMMA UndisturbedStep ==
    ASSUME RankTypeOK, NEW c \in Client, RequestStep(c), NEW d \in Client, undisturbed'[d],
           d # c \/ pc[c] # "idle"
    PROVE  rank' = rank /\ undisturbed[d]
<1>1. ASSUME NEW o, NEW a, NEW s, NEW at, NEW hazard, Start(c, o, a, s, at, hazard)
      PROVE  rank' = rank /\ undisturbed[d]
    BY <1>1 DEF Start, RankTypeOK
<1>2. CASE StartCreate(c) \/ StartDelete(c) \/ StartOrder(c) \/ StartList(c)
    BY <1>1, <1>2, Started
<1>3. ASSUME Commit(c) PROVE rank' = rank /\ undisturbed[d]
    BY <1>3 DEF Commit
<1>4. ASSUME Fail(c) PROVE rank' = rank /\ undisturbed[d]
    BY <1>4 DEF Fail
<1>5. CASE CountRank(c) \/ Insert(c) \/ DeleteRow(c)
    BY <1>4, <1>5 DEF CountRank, Insert, DeleteRow
<1>6. CASE SelectIds(c) \/ UpdateRank(c) \/ ReadPage(c)
    BY <1>6 DEF SelectIds, UpdateRank, ReadPage
<1> QED
    BY <1>2, <1>3, <1>4, <1>5, <1>6
       DEF RequestStep, Step, CommitCreate, CommitOrder, Listed, Abort, BreakDeadlock

\* Where the request of the client that takes a step may be afterwards: it is
\* reading pages only when it has begun to, or has read one.
LEMMA ListingSteps ==
    ASSUME RankTypeOK, NEW c \in Client, RequestStep(c), pc'[c] \in {"page", "listed"}
    PROVE  \/ /\ pc'[c] = "page" /\ ids'[c] = <<>> /\ pos'[c] = 1 /\ rank' = rank
           \/ ReadPage(c)
<1>1. CASE StartCreate(c) \/ StartDelete(c) \/ StartOrder(c) \/ StartList(c)
    <2>1. PICK o \in {"create", "delete", "order", "list"}, a \in Item \cup Int,
               s \in Seq(Item), at \in {"count", "insert", "delete", "update", "page"},
               hazard \in BOOLEAN :
            Start(c, o, a, s, at, hazard) /\ (at = "page" => s = <<>>)
        BY <1>1, Started
    <2>2. pc'[c] = at /\ ids'[c] = s /\ pos'[c] = 1 /\ rank' = rank
        BY <2>1 DEF Start, RankTypeOK
    <2> QED
        BY <2>1, <2>2
<1>2. ASSUME End(c) PROVE FALSE
    BY <1>2 DEF End, RankTypeOK
<1>3. CASE CountRank(c) \/ Insert(c) \/ DeleteRow(c)
    BY <1>2, <1>3 DEF CountRank, Fail, Insert, DeleteRow, RankTypeOK
<1>4. CASE SelectIds(c)
    BY <1>4 DEF SelectIds, RankTypeOK
<1>5. CASE UpdateRank(c)
    BY <1>5 DEF UpdateRank, RankTypeOK
<1> QED
    BY <1>1, <1>2, <1>3, <1>4, <1>5
       DEF RequestStep, Step, CommitCreate, CommitOrder, Listed, Abort, BreakDeadlock, Commit,
           Fail

\* Reading a page keeps the listing at its offset, and ends it at the last row.
LEMMA PageInOrder ==
    ASSUME RankTypeOK, ListsInOrder, NEW c \in Client, ReadPage(c), undisturbed[c],
           Distinct(rank)
    PROVE  /\ pc'[c] = "page" => \A s \in InRankOrder(rank) :
                pos'[c] <= Len(s) + 1 /\ ids'[c] = SubSeq(s, 1, pos'[c] - 1)
           /\ pc'[c] = "listed" => ids'[c] \in InRankOrder(rank)
<1>1. PICK s \in InRankOrder(rank) :
        LET rows == Rows(s, pos[c], Limit + 1)
            page == Rows(rows, 1, Limit)
        IN  /\ ids' = [ids EXCEPT ![c] = @ \o page]
            /\ pos' = [pos EXCEPT ![c] = @ + Len(page)]
            /\ pc' = [pc EXCEPT ![c] = IF Len(rows) > Limit THEN "page" ELSE "listed"]
    BY DEF ReadPage
<1> DEFINE rows == Rows(s, pos[c], Limit + 1)
           page == Rows(rows, 1, Limit)
<1>2. rank \in [Item -> Int] /\ s \in Seq(Item) /\ pos[c] \in Nat \ {0}
    BY InOrderProperties DEF RankTypeOK
<1>3. pos[c] <= Len(s) + 1 /\ ids[c] = SubSeq(s, 1, pos[c] - 1)
    BY DEF ListsInOrder, ReadPage
<1>4. /\ SubSeq(s, 1, pos[c] - 1) \o page = SubSeq(s, 1, pos[c] + Len(page) - 1)
      /\ Len(page) \in Nat /\ pos[c] + Len(page) <= Len(s) + 1
      /\ Len(rows) <= Limit => pos[c] + Len(page) - 1 = Len(s)
    BY <1>2, <1>3, PageReads
<1>5. /\ ids'[c] = ids[c] \o page /\ pos'[c] = pos[c] + Len(page)
      /\ pc'[c] = IF Len(rows) > Limit THEN "page" ELSE "listed"
    BY <1>1 DEF RankTypeOK
<1>6. Len(rows) \in Nat /\ Limit \in Nat
    <2>1. Limit \in Nat /\ Limit + 1 \in Nat
        BY ListsAssumption
    <2>2. rows \in Seq(Item)
        BY <1>2, <2>1, RowsType
    <2> HIDE DEF rows
    <2> QED
        BY <2>1, <2>2
<1> HIDE DEF rows, page
<1>7. /\ ids'[c] = SubSeq(s, 1, pos'[c] - 1)
      /\ pos'[c] <= Len(s) + 1
      /\ pc'[c] = "listed" => pos'[c] - 1 = Len(s)
    <2>1. pos'[c] = pos[c] + Len(page) /\ ids'[c] = SubSeq(s, 1, pos[c] + Len(page) - 1)
        BY <1>3, <1>4, <1>5
    <2>2. pc'[c] = "listed" => Len(rows) <= Limit
        BY <1>5, <1>6
    <2>3. /\ pos[c] + Len(page) <= Len(s) + 1
          /\ Len(rows) <= Limit => pos[c] + Len(page) - 1 = Len(s)
        BY <1>4
    <2>4. pos[c] + Len(page) - 1 = pos'[c] - 1
        <3> DEFINE l == Len(page)
                   p == pos[c]
        <3>1. l \in Nat /\ p \in Nat /\ pos'[c] = p + l
            BY <1>2, <1>4, <2>1
        <3> HIDE DEF l, p
        <3>2. p + l - 1 = pos'[c] - 1
            BY <3>1
        <3> QED
            BY <3>2 DEF l, p
    <2> QED
        BY <2>1, <2>2, <2>3, <2>4, Zenon
<1>8. ASSUME pc'[c] = "listed" PROVE ids'[c] \in InRankOrder(rank)
    <2>1. ids'[c] = SubSeq(s, 1, Len(s))
        BY <1>7, <1>8
    <2>2. SubSeq(s, 1, Len(s)) = s
        BY <1>2, SubSeqFull
    <2> QED
        BY <2>1, <2>2
<1>9. \A t \in InRankOrder(rank) : t = s
    BY <1>2, OneOrder
<1> QED
    BY <1>7, <1>8, <1>9

LEMMA ListsInOrderStep ==
    ASSUME RankTypeOK, RankTypeOK', ListsInOrder, NEW c \in Client, RequestStep(c)
    PROVE  ListsInOrder'
<1> SUFFICES ASSUME NEW d \in Client, undisturbed'[d], Distinct(rank')
             PROVE  /\ pc'[d] = "page" => \A s \in InRankOrder(rank') :
                         pos'[d] <= Len(s) + 1 /\ ids'[d] = SubSeq(s, 1, pos'[d] - 1)
                    /\ pc'[d] = "listed" => ids'[d] \in InRankOrder(rank')
    BY DEF ListsInOrder, Distinct, InRankOrder
<1>1. CASE d # c
    <2>1. rank' = rank /\ undisturbed[d]
        BY <1>1, UndisturbedStep
    <2>2. pc'[d] = pc[d] /\ ids'[d] = ids[d] /\ pos'[d] = pos[d]
        BY <1>1, OthersWait
    <2> QED
        BY <2>1, <2>2 DEF ListsInOrder
<1>2. CASE d = c /\ pc'[c] \in {"page", "listed"}
    <2>1. CASE ReadPage(c)
        <3>1. rank' = rank /\ undisturbed[c]
            BY <1>2, <2>1 DEF ReadPage
        <3> QED
            BY <1>2, <2>1, <3>1, PageInOrder
    <2>2. CASE pc'[c] = "page" /\ ids'[c] = <<>> /\ pos'[c] = 1 /\ rank' = rank
        <3>1. ASSUME NEW s \in InRankOrder(rank')
              PROVE  1 <= Len(s) + 1 /\ SubSeq(s, 1, 1 - 1) = <<>>
            <4>1. s \in Seq(Item)
                BY InOrderProperties DEF RankTypeOK
            <4>2. Len(s) \in Nat
                BY <4>1
            <4> QED
                BY <4>1, <4>2, SubSeqEmpty
        <3> QED
            BY <1>2, <2>2, <3>1
    <2> QED
        BY <1>2, <2>1, <2>2, ListingSteps
<1> QED
    BY <1>1, <1>2

\* A listing during which nothing was committed returns every rule or rollout
\* once, in the order of the ranks, for every page size: the pages meet without
\* a gap or an overlap (ListRules, ListRollouts).
THEOREM ListingsComplete == Spec => []ListingComplete
<1>1. Init => ListsInOrder
    BY DEF Init, ListsInOrder
<1>2. RankInv /\ RankInv' /\ ListsInOrder /\ [Next]_vars => ListsInOrder'
    <2> SUFFICES ASSUME RankInv, RankInv', ListsInOrder, [Next]_vars PROVE ListsInOrder'
        OBVIOUS
    <2>1. CASE UNCHANGED vars
        <3>1. /\ pc' = pc /\ ids' = ids /\ pos' = pos /\ rank' = rank
              /\ undisturbed' = undisturbed
            BY <2>1 DEF vars
        <3>2. Distinct(rank)' = Distinct(rank) /\ InRankOrder(rank)' = InRankOrder(rank)
            BY <3>1 DEF Distinct, InRankOrder
        <3> QED
            BY <3>1, <3>2, Zenon DEF ListsInOrder
    <2>2. CASE Next
        BY <2>2, ListsInOrderStep DEF Next, RequestStep, RankInv
    <2> QED
        BY <2>1, <2>2
<1>3. ListsInOrder => ListingComplete
    BY DEF ListsInOrder, ListingComplete
<1> QED
    BY <1>1, <1>2, <1>3, RankInvariance, PTL DEF Spec

=============================================================================
