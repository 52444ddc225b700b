------------------------- MODULE StorageCache_proofs -------------------------
(***************************************************************************)
(* Proofs about the storage cache, for any items, clients, caches and      *)
(* bounds.                                                                 *)
(***************************************************************************)
EXTENDS StorageCache, TLAPS

\* A request that stores a value in the cache has one.
FillHasValue == \A c \in Client : pc[c] = "fill" => value[c] \in Nat

TypeInv == TypeOK /\ FillHasValue

LEMMA PutEffect ==
    ASSUME TypeOK, NEW h \in Cache, NEW x \in Item,
           NEW v \in Nat \cup {Miss}, Put(h, x, v)
    PROVE  /\ cached' \in [Cache -> [Item -> Nat \cup {Miss}]]
           /\ cached'[h][x] = v
           /\ \A g \in Cache, y \in Item :
                 (g # h \/ y # x) => cached'[g][y] = cached[g][y]
BY DEF TypeOK, Put

LEMMA OverlapEffect ==
    ASSUME TypeOK, NEW h \in Cache, NEW x \in Item, Overlap(h, x)
    PROVE  overlapped' \in [Cache -> SUBSET Item]
BY DEF TypeOK, Overlap

LEMMA TypeStep == TypeInv /\ [Next]_vars => TypeInv'
<1> SUFFICES ASSUME TypeInv, [Next]_vars PROVE TypeInv'
    OBVIOUS
<1> USE CacheAssumption
    DEF TypeInv, TypeOK, FillHasValue, Start, Finish, Fault
<1>1. CASE UNCHANGED vars
    BY <1>1 DEF vars
<1>2. ASSUME NEW c \in Client, NEW x \in Item, GetMiss(c, x) PROVE TypeInv'
    <2>1. overlapped' \in [Cache -> SUBSET Item]
        BY <1>2, OverlapEffect DEF GetMiss
    <2> QED
        BY <1>2, <2>1 DEF GetMiss
<1>3. ASSUME NEW c \in Client, NEW x \in Item, CreateFlag(c, x) PROVE TypeInv'
    <2>1. overlapped' \in [Cache -> SUBSET Item]
        BY <1>3, OverlapEffect DEF CreateFlag
    <2> QED
        BY <1>3, <2>1 DEF CreateFlag
<1>4. ASSUME NEW c \in Client, NEW x \in Item, Invalidate(c, x) PROVE TypeInv'
    <2>1. cached' \in [Cache -> [Item -> Nat \cup {Miss}]]
        BY <1>4, PutEffect DEF Invalidate
    <2>2. overlapped' \in [Cache -> SUBSET Item]
        BY <1>4, OverlapEffect DEF Invalidate
    <2> QED
        BY <1>4, <2>1, <2>2 DEF Invalidate
<1>5. ASSUME NEW c \in Client, Load(c) PROVE TypeInv'
    BY <1>5 DEF Load
<1>6. ASSUME NEW c \in Client, Fill(c) PROVE TypeInv'
    <2>1. cached' \in [Cache -> [Item -> Nat \cup {Miss}]]
        BY <1>6, PutEffect DEF Fill
    <2> QED
        BY <1>6, <2>1 DEF Fill
<1>7. ASSUME NEW c \in Client, FillFails(c) PROVE TypeInv'
    BY <1>7 DEF FillFails
<1>8. ASSUME NEW c \in Client, Write(c) PROVE TypeInv'
    BY <1>8 DEF Write
<1>9. ASSUME NEW c \in Client, WriteFails(c) PROVE TypeInv'
    BY <1>9 DEF WriteFails
<1>10. ASSUME NEW x \in Item, WriteRules(x) PROVE TypeInv'
    BY <1>10 DEF WriteRules
<1>11. ASSUME NEW h \in Cache, NEW x \in Item, Expire(h, x) PROVE TypeInv'
    <2>1. cached' \in [Cache -> [Item -> Nat \cup {Miss}]]
        BY <1>11, PutEffect DEF Expire
    <2> QED
        BY <1>11, <2>1 DEF Expire
<1> QED
    BY <1>1, <1>2, <1>3, <1>4, <1>5, <1>6, <1>7, <1>8, <1>9, <1>10, <1>11
       DEF Next, Step

LEMMA FirstItem == (CHOOSE x \in Item : TRUE) \in Item
BY CacheAssumption, Zenon DEF Item

LEMMA TypeInvariance == Spec => []TypeInv
<1>1. Init => TypeInv
    BY FirstItem, CacheAssumption DEF Init, TypeInv, TypeOK, FillHasValue
<1> QED
    BY <1>1, TypeStep, PTL DEF Spec

\* Type correctness: reads, writes, creations and expiries keep the database,
\* the caches and the requests in their types; in particular nothing that is
\* absent from the database is ever cached.
THEOREM TypeCorrect == Spec => []TypeOK
<1>1. TypeInv => TypeOK
    BY DEF TypeInv
<1> QED
    BY <1>1, TypeInvariance, PTL

----------------------------------------------------------------------------
(***************************************************************************)
(* The inductive invariant, for a cache and a flag without an overlap:     *)
(* what is cached and what is about to be cached is what the database      *)
(* holds, and between the deletion from the cache and the write nothing is *)
(* cached and nobody is about to cache anything.                           *)
(***************************************************************************)
InStep(h, x) ==
    /\ ~Stale(h, x)
    /\ \A c \in Client :
         (Home[c] = h /\ item[c] = x /\ pc[c] = "fill") => value[c] = db[x]
    /\ \A d \in Client : (Home[d] = h /\ item[d] = x /\ pc[d] = "write") =>
         /\ cached[h][x] = Miss
         /\ \A c \in Client :
              (Home[c] = h /\ pc[c] \in {"load", "fill"}) => item[c] # x

OverlapInv ==
    TypeInv /\ \A h \in Cache, x \in Flag : x \notin overlapped[h] => InStep(h, x)

LEMMA OverlapGrows ==
    ASSUME TypeInv, [Next]_vars, NEW h \in Cache
    PROVE  overlapped[h] \subseteq overlapped'[h]
<1> USE CacheAssumption DEF TypeInv, TypeOK
<1>1. ASSUME NEW g \in Cache, NEW x \in Item, Overlap(g, x)
      PROVE  overlapped[h] \subseteq overlapped'[h]
    BY <1>1 DEF Overlap
<1>2. ASSUME NEW c \in Client, Write(c) PROVE overlapped[h] \subseteq overlapped'[h]
    BY <1>2 DEF Write
<1> QED
    BY <1>1, <1>2 DEF Next, Step, vars, GetMiss, CreateFlag, Invalidate, Load, Fill,
       FillFails, WriteFails, WriteRules, Expire

LEMMA InStepStep ==
    ASSUME OverlapInv, [Next]_vars, NEW h \in Cache, NEW x \in Flag,
           x \notin overlapped'[h]
    PROVE  InStep(h, x)'
<1>x. x \in Item /\ TypeInv
    BY DEF Item, OverlapInv
<1>o. InStep(h, x)
    BY OverlapGrows DEF OverlapInv
<1>p. \A g \in Cache, y \in Item : Overlap(g, y) => ~(g = h /\ y = x)
    BY <1>x DEF Overlap, TypeInv, TypeOK
<1> USE CacheAssumption DEF TypeInv, TypeOK, InStep, Stale
<1>1. CASE UNCHANGED vars
    BY <1>1, <1>o DEF vars
<1>2. ASSUME NEW c \in Client, NEW y \in Item, GetMiss(c, y) PROVE InStep(h, x)'
    <2>1. (Home[c] = h /\ y = x) =>
             \A d \in Client : (Home[d] = h /\ pc[d] = "write") => item[d] # x
        BY <1>2, <1>p DEF GetMiss, Writing, Using
    <2> QED
        BY <1>2, <1>x, <1>o, <2>1 DEF GetMiss, Start
<1>3. ASSUME NEW c \in Client, NEW y \in Item, CreateFlag(c, y) PROVE InStep(h, x)'
    <2>1. (Home[c] = h /\ y = x) =>
             \A d \in Client : (Home[d] = h /\ pc[d] = "write") => item[d] # x
        BY <1>3, <1>p DEF CreateFlag, Writing, Using
    <2>2. y = x => cached[h][x] = Miss
        BY <1>3, <1>x, <1>o DEF CreateFlag
    <2>3. y = x => \A d \in Client : (Home[d] = h /\ pc[d] = "fill") => item[d] # x
        BY <1>3, <1>x, <1>o DEF CreateFlag, FillHasValue
    <2> QED
        BY <1>3, <1>x, <1>o, <2>1, <2>2, <2>3 DEF CreateFlag, Start
<1>4. ASSUME NEW c \in Client, NEW y \in Item, Invalidate(c, y) PROVE InStep(h, x)'
    <2>1. CASE y # x \/ Home[c] # h
        <3>1. cached'[h][x] = cached[h][x]
            BY <1>4, <1>x, <2>1 DEF Invalidate, Put
        <3> QED
            BY <1>4, <1>x, <1>o, <2>1, <3>1 DEF Invalidate, Start
    <2>2. CASE y = x /\ Home[c] = h
        <3>1. Put(h, x, Miss) /\ Filling(h, x) = {}
            BY <1>4, <1>p, <2>2 DEF Invalidate
        <3>2. cached'[h][x] = Miss
            BY <3>1, <1>x DEF Put
        <3>3. \A d \in Client : (Home[d] = h /\ pc[d] \in {"load", "fill"}) => item[d] # x
            BY <3>1 DEF Filling, Using
        <3> QED
            BY <1>4, <1>x, <1>o, <2>2, <3>2, <3>3 DEF Invalidate, Start
    <2> QED
        BY <2>1, <2>2
<1>5. ASSUME NEW c \in Client, Load(c) PROVE InStep(h, x)'
    BY <1>5, <1>x, <1>o DEF Load, Finish
<1>6. ASSUME NEW c \in Client, Fill(c) PROVE InStep(h, x)'
    <2>1. value[c] \in Nat \cup {Miss} /\ item[c] \in Item /\ Home[c] \in Cache
        BY <1>6, <1>x DEF Fill, FillHasValue
    <2>2. CASE item[c] # x \/ Home[c] # h
        <3>1. cached'[h][x] = cached[h][x]
            BY <1>6, <1>x, <2>1, <2>2, PutEffect DEF Fill
        <3> QED
            BY <1>6, <1>x, <1>o, <2>2, <3>1 DEF Fill, Finish
    <2>3. CASE item[c] = x /\ Home[c] = h
        <3>1. cached'[h][x] = db[x]
            BY <1>6, <1>x, <1>o, <2>1, <2>3, PutEffect DEF Fill
        <3>2. \A d \in Client : (Home[d] = h /\ pc[d] = "write") => item[d] # x
            BY <1>6, <1>o, <2>3 DEF Fill
        <3> QED
            BY <1>6, <1>x, <1>o, <2>3, <3>1, <3>2 DEF Fill, Finish
    <2> QED
        BY <2>2, <2>3
<1>7. ASSUME NEW c \in Client, FillFails(c) PROVE InStep(h, x)'
    BY <1>7, <1>x, <1>o DEF FillFails, Finish
<1>8. ASSUME NEW c \in Client, Write(c) PROVE InStep(h, x)'
    <2>1. item[c] = x => Home[c] = h
        BY <1>8, <1>x DEF Write
    <2> QED
        BY <1>8, <1>x, <1>o, <2>1 DEF Write, Finish
<1>9. ASSUME NEW c \in Client, WriteFails(c) PROVE InStep(h, x)'
    BY <1>9, <1>x, <1>o DEF WriteFails, Finish
<1>10. ASSUME NEW y \in Item, WriteRules(y) PROVE InStep(h, x)'
    BY <1>10, <1>x, <1>o DEF WriteRules
<1>11. ASSUME NEW g \in Cache, NEW y \in Item, Expire(g, y) PROVE InStep(h, x)'
    <2>1. Put(g, y, Miss)
        BY <1>11 DEF Expire
    <2>2. cached'[h][x] \in {cached[h][x], Miss}
        BY <2>1, <1>x DEF Put
    <2> QED
        BY <1>11, <1>x, <1>o, <2>2 DEF Expire
<1> QED
    BY <1>1, <1>2, <1>3, <1>4, <1>5, <1>6, <1>7, <1>8, <1>9, <1>10, <1>11
       DEF Next, Step

\* Deleting before the write keeps a flag's entry in a cache up to date unless
\* a read or a creation of the flag by way of that cache overlaps a write of it,
\* the deletion fails, or the write goes by way of another cache.
THEOREM StalenessNeedsOverlap == Spec => []StaleOnlyAfterOverlap
<1>1. Init => OverlapInv
    <2>1. Flag \subseteq Item
        BY DEF Item
    <2>2. ASSUME Init, NEW h \in Cache, NEW x \in Flag PROVE InStep(h, x)
        BY <2>1, <2>2 DEF Init, InStep, Stale
    <2> QED
        BY <2>2, FirstItem, CacheAssumption
           DEF Init, OverlapInv, TypeInv, TypeOK, FillHasValue
<1>2. OverlapInv /\ [Next]_vars => OverlapInv'
    BY InStepStep, TypeStep DEF OverlapInv
<1>3. OverlapInv => StaleOnlyAfterOverlap
    BY DEF OverlapInv, InStep, StaleOnlyAfterOverlap
<1> QED
    BY <1>1, <1>2, <1>3, PTL DEF Spec

=============================================================================
