--------------------------- MODULE GitStore_proofs ---------------------------
(***************************************************************************)
(* Proofs about the snapshot cache, for any references, keys, callers and  *)
(* capacity, and about the git store, for any branches, commits,           *)
(* goroutines and bounds, from the invariant of the cache.                 *)
(***************************************************************************)
EXTENDS GitStore, TLAPS


LEMMA MoveToFrontType ==
    ASSUME CacheTypeOK, NEW held, NEW r \in Ref
    PROVE  /\ MoveToFront(held, r) \in [Ref -> Nat]
           /\ MoveToFront(held, r)[r] = 0
BY DEF MoveToFront, CacheTypeOK

LEMMA TouchExtraType ==
    ASSUME CacheTypeOK, NEW r \in Ref, TouchExtra(r)
    PROVE  position' \in [Ref -> Nat]
BY MoveToFrontType DEF TouchExtra, CacheTypeOK

\* What is known of a call in progress from its place.
LEMMA CallType ==
    ASSUME CacheTypeOK, NEW c \in Caller, call[c].at # "idle"
    PROVE  call[c] \in Call
BY DEF CacheTypeOK, NoCall

LEMMA CacheTypeStep == CacheTypeOK /\ [CacheNext]_cacheVars => CacheTypeOK'
<1> SUFFICES ASSUME CacheTypeOK, [CacheNext]_cacheVars PROVE CacheTypeOK'
    OBVIOUS
<1>1. CASE UNCHANGED cacheVars
    BY <1>1 DEF cacheVars, CacheTypeOK
<1>2. ASSUME NEW c \in Caller, NEW r \in Ref, NEW k \in Key, AddOrBuild(c, r, k)
      PROVE  CacheTypeOK'
    BY <1>2 DEF AddOrBuild, CacheTypeOK, Call
<1>3. ASSUME NEW c \in Caller, GetByRefAndKey(c) PROVE CacheTypeOK'
    <2>1. call[c] \in Call
        BY <1>3, CallType DEF GetByRefAndKey
    <2>2. position' \in [Ref -> Nat]
        BY <1>3, <2>1, TouchExtraType DEF GetByRefAndKey, CacheTypeOK, Call
    <2>3. call' \in [Caller -> Call \cup {NoCall}]
        BY <1>3, <2>1 DEF GetByRefAndKey, CacheTypeOK, Call
    <2> QED
        BY <1>3, <2>2, <2>3 DEF GetByRefAndKey, CacheTypeOK
<1>4. ASSUME NEW c \in Caller, Build(c) PROVE CacheTypeOK'
    <2>1. call[c] \in Call
        BY <1>4, CallType DEF Build
    <2> QED
        BY <1>4, <2>1 DEF Build, CacheTypeOK, Call
<1>5. ASSUME NEW c \in Caller, BuildFails(c) PROVE CacheTypeOK'
    BY <1>5 DEF BuildFails, CacheTypeOK
<1>6. ASSUME NEW c \in Caller, Insert(c) PROVE CacheTypeOK'
    <2>1. call[c] \in Call
        BY <1>6, CallType DEF Insert, IsFixed
    <2>2. MoveToFront(Tracked(extra), call[c].ref) \in [Ref -> Nat]
        BY <2>1, MoveToFrontType DEF Call
    <2>3. /\ fixed' \in [Ref -> Key \cup {NoKey}]
          /\ extra' \in [Ref -> Key \cup {NoKey}]
        BY <1>6, <2>1 DEF Insert, IsFixed, CacheTypeOK, Call
    <2>4. position' \in [Ref -> Nat]
        BY <1>6, <2>1, <2>2 DEF Insert, IsFixed, CacheTypeOK, Call
    <2>5. store' \in [Key -> Key \cup {NoSnap}]
        BY <1>6, <2>1 DEF Insert, IsFixed, CacheTypeOK, Call
    <2>6. call' \in [Caller -> Call \cup {NoCall}]
        BY <1>6 DEF Insert, IsFixed, CacheTypeOK
    <2> QED
        BY <2>3, <2>4, <2>5, <2>6 DEF CacheTypeOK
<1>7. ASSUME NEW r \in Ref, Get(r) PROVE CacheTypeOK'
    BY <1>7, TouchExtraType DEF Get, CacheTypeOK
<1>8. ASSUME NEW r \in Ref, NEW k \in Key, AddFixed(r, k) PROVE CacheTypeOK'
    BY <1>8 DEF AddFixed, CacheTypeOK
<1> QED
    BY <1>1, <1>2, <1>3, <1>4, <1>5, <1>6, <1>7, <1>8 DEF CacheNext, CacheStep

\* Type correctness: every step of Get, AddFixed and AddOrBuild keeps the maps
\* of the cache and the calls in progress in their types.
THEOREM CacheTypeCorrect == CacheSpec => []CacheTypeOK
<1>1. CacheInit => CacheTypeOK
    BY DEF CacheInit, CacheTypeOK
<1> QED
    BY <1>1, CacheTypeStep, PTL DEF CacheSpec

----------------------------------------------------------------------------
(***************************************************************************)
(* The inductive invariant: the store holds exactly the snapshots of the   *)
(* keys that some reference points to, each under its own key; a reference *)
(* is fixed or in the LRU, not both; a call about to insert carries the    *)
(* snapshot of its key, which it may have taken from a store that has      *)
(* since lost it.                                                          *)
(***************************************************************************)
StoreExact ==
    \A k \in Key :
        store[k] = IF k \in Values(fixed) \cup Values(extra) THEN k ELSE NoSnap

FixedApart == \A r \in Ref : fixed[r] = NoKey \/ extra[r] = NoKey

CallsCarrySnapshot ==
    \A c \in Caller : call[c].at = "insert" => call[c].snap = call[c].key

CacheInv == CacheTypeOK /\ StoreExact /\ FixedApart /\ CallsCarrySnapshot

LEMMA InsertKeepsInv ==
    ASSUME CacheInv, NEW c \in Caller, Insert(c)
    PROVE  StoreExact' /\ FixedApart' /\ CallsCarrySnapshot'
<1> DEFINE r == call[c].ref
           k == call[c].key
<1>1. call[c] \in Call /\ r \in Ref /\ k \in Key
    BY CallType DEF Insert, IsFixed, CacheInv, Call
<1>2. call[c].snap = k
    BY DEF CacheInv, CallsCarrySnapshot, Insert, IsFixed
<1>3. MoveToFront(Tracked(extra), r)[r] = 0
    BY <1>1, MoveToFrontType DEF CacheInv
<1> DEFINE full == [extra EXCEPT ![r] = k]
           pos  == MoveToFront(Tracked(extra), r)
           out  == Overflow(full, pos)
<1>4. r \notin out
    BY <1>3, <1>1, CapacityAssumption DEF Overflow
<1>5. CASE fixed[r] # NoKey
    <2>1. fixed' = [fixed EXCEPT ![r] = k] /\ extra' = extra
        BY <1>5 DEF Insert, IsFixed
    <2>2. FixedApart'
        BY <2>1, <1>1, <1>5 DEF FixedApart, CacheInv, CacheTypeOK
    <2>3. k \in Values(fixed')
        BY <2>1, <1>1, NilAssumption DEF Values, CacheInv, CacheTypeOK
    <2>4. \A x \in Key \ {k} :
            x \in Values(fixed') \cup Values(extra')
              => x \in Values(fixed) \cup Values(extra)
        BY <2>1, <1>1 DEF Values, CacheInv, CacheTypeOK
    <2>5. \A x \in Key \ {k} :
            (x \in Values(fixed) \cup Values(extra) /\ x # fixed[r])
              => x \in Values(fixed') \cup Values(extra')
        BY <2>1, <1>1 DEF Values, CacheInv, CacheTypeOK
    <2>6. KeyOf(r) = fixed[r] /\ Tracked(extra) \ Tracked(extra') = {}
        BY <1>5, <2>1 DEF KeyOf
    <2>7. store' = [x \in Key |-> IF x = k THEN k
             ELSE IF x \in Dangling({fixed[r]} \ {NoKey}, fixed', extra')
                  THEN NoSnap ELSE store[x]]
        BY <1>2, <2>6 DEF Insert, IsFixed
    <2>8. StoreExact'
        BY <2>3, <2>4, <2>5, <2>7, NilAssumption
           DEF StoreExact, Dangling, CacheInv
    <2> QED
        BY <2>2, <2>8 DEF Insert, IsFixed, CallsCarrySnapshot, CacheInv, CacheTypeOK, NoCall
<1>6. CASE fixed[r] = NoKey
    <2>1. /\ fixed' = fixed
          /\ extra' = [x \in Ref |-> IF x \in out THEN NoKey ELSE full[x]]
        BY <1>6 DEF Insert, IsFixed
    <2>2. FixedApart'
        BY <2>1, <1>1, <1>6 DEF FixedApart, CacheInv, CacheTypeOK
    <2>3. k \in Values(extra')
        <3>1. extra'[r] = k
            BY <2>1, <1>1, <1>4 DEF CacheInv, CacheTypeOK
        <3> QED
            BY <3>1, <1>1, NilAssumption DEF Values
    <2>4. \A x \in Key \ {k} :
            x \in Values(fixed') \cup Values(extra')
              => x \in Values(fixed) \cup Values(extra)
        BY <2>1, <1>1 DEF Values, CacheInv, CacheTypeOK
    <2> DEFINE left == {KeyOf(r)}
                         \cup {extra[x] : x \in Tracked(extra) \ Tracked(extra')}
    <2>5. \A x \in Key \ {k} :
            (x \in Values(fixed) \cup Values(extra) /\ x \notin left)
              => x \in Values(fixed') \cup Values(extra')
        <3> SUFFICES ASSUME NEW x \in Key \ {k}, x \notin left,
                            x \in Values(extra), x \notin Values(fixed)
                     PROVE  x \in Values(extra')
            BY <2>1
        <3>1. PICK y \in Ref : extra[y] = x
            BY DEF Values
        <3>2. y # r
            BY <3>1, <1>6 DEF KeyOf
        <3>3. y \in Tracked(extra')
            BY <3>1, NilAssumption DEF Tracked
        <3>4. extra'[y] = x
            BY <2>1, <3>1, <3>2, <3>3 DEF Tracked, CacheInv, CacheTypeOK
        <3> QED
            BY <3>4, NilAssumption DEF Values
    <2>6. store' = [x \in Key |-> IF x = k THEN k
             ELSE IF x \in Dangling(left \ {NoKey}, fixed', extra')
                  THEN NoSnap ELSE store[x]]
        BY <1>2 DEF Insert, IsFixed
    <2>7. StoreExact'
        <3> HIDE DEF left
        <3> QED
            BY <2>3, <2>4, <2>5, <2>6, NilAssumption
               DEF StoreExact, Dangling, CacheInv
    <2> QED
        BY <2>2, <2>7 DEF Insert, IsFixed, CallsCarrySnapshot, CacheInv, CacheTypeOK, NoCall
<1> QED
    BY <1>5, <1>6

LEMMA CacheInvStep == CacheInv /\ [CacheNext]_cacheVars => CacheInv'
<1> SUFFICES ASSUME CacheInv, [CacheNext]_cacheVars
             PROVE  StoreExact' /\ FixedApart' /\ CallsCarrySnapshot'
    BY CacheTypeStep DEF CacheInv
<1> USE DEF CacheInv
<1>m. UNCHANGED <<fixed, extra, store>> => StoreExact' /\ FixedApart'
    BY DEF StoreExact, FixedApart, Values
<1>1. CASE UNCHANGED cacheVars
    BY <1>1, <1>m DEF cacheVars, CallsCarrySnapshot
<1>2. ASSUME NEW c \in Caller, NEW r \in Ref, NEW k \in Key, AddOrBuild(c, r, k)
      PROVE  StoreExact' /\ FixedApart' /\ CallsCarrySnapshot'
    BY <1>2, <1>m DEF AddOrBuild, CallsCarrySnapshot, CacheTypeOK
<1>3. ASSUME NEW c \in Caller, GetByRefAndKey(c)
      PROVE  StoreExact' /\ FixedApart' /\ CallsCarrySnapshot'
    <2>1. call[c] \in Call
        BY <1>3, CallType DEF GetByRefAndKey
    <2>2. store[call[c].key] # NoSnap => store[call[c].key] = call[c].key
        BY <2>1 DEF StoreExact, Call
    <2>3. CallsCarrySnapshot'
        BY <1>3, <2>1, <2>2 DEF GetByRefAndKey, CallsCarrySnapshot, CacheTypeOK,
                                NoCall, Call
    <2> QED
        BY <1>3, <1>m, <2>3 DEF GetByRefAndKey
<1>4. ASSUME NEW c \in Caller, Build(c)
      PROVE  StoreExact' /\ FixedApart' /\ CallsCarrySnapshot'
    <2>1. call[c] \in Call
        BY <1>4, CallType DEF Build
    <2> QED
        BY <1>4, <2>1, <1>m DEF Build, CallsCarrySnapshot, CacheTypeOK, Call
<1>5. ASSUME NEW c \in Caller, BuildFails(c)
      PROVE  StoreExact' /\ FixedApart' /\ CallsCarrySnapshot'
    BY <1>5, <1>m DEF BuildFails, CallsCarrySnapshot, CacheTypeOK, NoCall
<1>6. ASSUME NEW c \in Caller, Insert(c)
      PROVE  StoreExact' /\ FixedApart' /\ CallsCarrySnapshot'
    BY <1>6, InsertKeepsInv
<1>7. ASSUME NEW r \in Ref, Get(r)
      PROVE  StoreExact' /\ FixedApart' /\ CallsCarrySnapshot'
    BY <1>7, <1>m DEF Get, CallsCarrySnapshot
<1>8. ASSUME NEW r \in Ref, NEW k \in Key, AddFixed(r, k)
      PROVE  StoreExact' /\ FixedApart' /\ CallsCarrySnapshot'
    <2>1. FixedApart' /\ CallsCarrySnapshot'
        BY <1>8 DEF AddFixed, SettingUp, Tracked, FixedApart, CallsCarrySnapshot,
                    CacheTypeOK
    <2>2. Values(fixed') = Values(fixed) \cup {k}
        BY <1>8, NilAssumption DEF AddFixed, SettingUp, Values, CacheTypeOK
    <2>3. StoreExact'
        BY <1>8, <2>2 DEF AddFixed, StoreExact, CacheTypeOK
    <2> QED
        BY <2>1, <2>3
<1> QED
    BY <1>1, <1>2, <1>3, <1>4, <1>5, <1>6, <1>7, <1>8 DEF CacheNext, CacheStep

LEMMA CacheInvariance == CacheSpec => []CacheInv
<1>1. CacheInit => CacheInv
    BY DEF CacheInit, CacheInv, CacheTypeOK, StoreExact, FixedApart,
           CallsCarrySnapshot, Values, NoCall
<1> QED
    BY <1>1, CacheInvStep, PTL DEF CacheSpec

LEMMA CacheInvServes == CacheInv => NoDanglingReference
<1> SUFFICES ASSUME CacheInv, NEW r \in References
             PROVE  Snapshot(r) = KeyOf(r)
    BY DEF NoDanglingReference
<1>1. r \in Ref /\ KeyOf(r) \in Key
    BY DEF References, Tracked, KeyOf, CacheInv, CacheTypeOK
<1>2. KeyOf(r) \in Values(fixed) \cup Values(extra)
    BY <1>1, NilAssumption DEF Values, KeyOf
<1> QED
    BY <1>1, <1>2 DEF Snapshot, CacheInv, StoreExact

\* Every tracked reference is served, and with the snapshot of the revision it
\* points to, whatever calls of AddOrBuild evict in the meantime.
THEOREM NoReferenceDangles == CacheSpec => []NoDanglingReference
BY CacheInvServes, CacheInvariance, PTL

\* Eviction leaves no snapshot behind that nothing points to.
THEOREM NoSnapshotLeaks == CacheSpec => []NoLeakedSnapshot
<1>1. CacheInv => NoLeakedSnapshot
    BY DEF CacheInv, StoreExact, NoLeakedSnapshot
<1> QED
    BY <1>1, CacheInvariance, PTL

----------------------------------------------------------------------------
(***************************************************************************)
(* The order of the LRU: its entries stand at different places, all within *)
(* the capacity.  An entry that is touched overtakes only entries in front *)
(* of it; a new one moves all of them back, so that only the last of a     *)
(* full LRU comes to stand outside.                                        *)
(***************************************************************************)
LruOrder ==
    /\ \A x \in Tracked(extra) : position[x] < Capacity
    /\ \A x, y \in Tracked(extra) : position[x] = position[y] => x = y

LEMMA MoveToFrontOrder ==
    ASSUME CacheTypeOK, LruOrder, NEW r \in Ref
    PROVE  LET pos == MoveToFront(Tracked(extra), r) IN
           /\ \A x, y \in Tracked(extra) \cup {r} : pos[x] = pos[y] => x = y
           /\ \A x \in Tracked(extra) : pos[x] <= Capacity
           /\ r \in Tracked(extra) => \A x \in Tracked(extra) : pos[x] < Capacity
           /\ \A x \in Tracked(extra) \ {r} :
                r \notin Tracked(extra) => pos[x] = position[x] + 1
<1> DEFINE pos == MoveToFront(Tracked(extra), r)
           held == Tracked(extra)
<1>1. \A x \in Ref : position[x] \in Nat
    BY DEF CacheTypeOK
<1>2. \A x \in held : x \in Ref /\ position[x] < Capacity
    BY DEF LruOrder, Tracked
<1>3. pos[r] = 0
    BY DEF MoveToFront
<1>4. \A x \in held \ {r} :
        pos[x] = IF r \in held => position[x] < position[r]
                 THEN position[x] + 1 ELSE position[x]
    BY <1>2 DEF MoveToFront
<1>5. \A x, y \in held : position[x] = position[y] => x = y
    BY DEF LruOrder
<1> HIDE DEF pos, held
<1>6. \A x, y \in held \cup {r} : pos[x] = pos[y] => x = y
    <2>1. ASSUME NEW x \in held \ {r} PROVE pos[x] > 0
        BY <2>1, <1>1, <1>2, <1>4, <1>5
    <2>2. ASSUME NEW x \in held \ {r}, NEW y \in held \ {r}, pos[x] = pos[y]
          PROVE  x = y
        BY <2>2, <1>1, <1>2, <1>4, <1>5
    <2> QED
        BY <2>1, <2>2, <1>3
<1>7. \A x \in held : pos[x] <= Capacity
    BY <1>1, <1>2, <1>3, <1>4, CapacityAssumption
<1>8. r \in held => \A x \in held : pos[x] < Capacity
    BY <1>1, <1>2, <1>3, <1>4, CapacityAssumption
<1> QED
    BY <1>4, <1>6, <1>7, <1>8 DEF pos, held

\* What an insertion into the LRU does: the reference of the call is in, at
\* the front, and of the others at most the last one is out.
LEMMA InsertOrder ==
    ASSUME CacheInv, LruOrder, NEW c \in Caller, Insert(c), fixed[call[c].ref] = NoKey
    PROVE  LET r   == call[c].ref
               pos == MoveToFront(Tracked(extra), r)
           IN  /\ Tracked(extra') \subseteq Tracked(extra) \cup {r}
               /\ extra'[r] = call[c].key
               /\ \A x \in Tracked(extra') : position'[x] = pos[x] /\ pos[x] < Capacity
               /\ \A x \in Tracked(extra) \ Tracked(extra') :
                    /\ x # r /\ r \notin Tracked(extra) /\ pos[x] >= Capacity
<1> DEFINE r    == call[c].ref
           k    == call[c].key
           pos  == MoveToFront(Tracked(extra), r)
           full == [extra EXCEPT ![r] = k]
           out  == Overflow(full, pos)
<1>1. call[c] \in Call /\ r \in Ref /\ k \in Key
    BY CallType DEF Insert, CacheInv, Call
<1>t. CacheTypeOK
    BY DEF CacheInv
<1>2. /\ pos \in [Ref -> Nat] /\ pos[r] = 0
      /\ r \in Tracked(extra) => \A x \in Tracked(extra) : pos[x] < Capacity
    BY <1>1, <1>t, MoveToFrontType, MoveToFrontOrder
<1>3. /\ extra' = [x \in Ref |-> IF x \in out THEN NoKey ELSE full[x]]
      /\ position' = [x \in Ref |-> IF x \in out THEN 0 ELSE pos[x]]
    BY DEF Insert, IsFixed
<1>4. out = {x \in Tracked(extra) \cup {r} : pos[x] >= Capacity}
    BY <1>1, <1>t, NilAssumption DEF Overflow, Tracked, CacheTypeOK
<1>5. Tracked(extra') = (Tracked(extra) \cup {r}) \ out
    BY <1>1, <1>3, <1>t, NilAssumption DEF Tracked, CacheTypeOK
<1>6. Tracked(extra) \cup {r} \subseteq Ref
    BY <1>1 DEF Tracked
<1>7. r \notin out
    <2> HIDE DEF pos, out
    <2> QED
        BY <1>2, <1>4, CapacityAssumption
<1>8. extra'[r] = k
    BY <1>1, <1>3, <1>7, <1>t DEF CacheTypeOK
<1> HIDE DEF pos, out
<1>9. \A x \in Tracked(extra') : position'[x] = pos[x] /\ pos[x] < Capacity
    BY <1>2, <1>3, <1>4, <1>5, <1>6, CapacityAssumption
<1>10. \A x \in Tracked(extra) \ Tracked(extra') :
         x # r /\ r \notin Tracked(extra) /\ pos[x] >= Capacity
    BY <1>2, <1>4, <1>5, <1>6, <1>7, CapacityAssumption
<1> QED
    BY <1>5, <1>8, <1>9, <1>10 DEF pos

\* One step of the cache: the LRU keeps its order, and evicts its last entry.
EvictsLast ==
    LET dropped == Tracked(extra) \ Tracked(extra') IN
    /\ \A x, y \in dropped : x = y
    /\ \A x \in dropped, y \in Tracked(extra) \cap Tracked(extra') :
          position[y] < position[x]

LEMMA LruStep ==
    CacheInv /\ LruOrder /\ [CacheNext]_cacheVars => LruOrder' /\ EvictsLast
<1> SUFFICES ASSUME CacheInv, LruOrder, [CacheNext]_cacheVars
             PROVE  LruOrder' /\ EvictsLast
    OBVIOUS
<1>t. CacheTypeOK
    BY DEF CacheInv
<1>s. ASSUME UNCHANGED <<extra, position>> PROVE LruOrder' /\ EvictsLast
    BY <1>s DEF LruOrder, EvictsLast, Tracked
<1>g. ASSUME NEW r \in Ref, TouchExtra(r), UNCHANGED extra PROVE LruOrder' /\ EvictsLast
    <2>1. EvictsLast
        BY <1>g DEF EvictsLast
    <2>2. CASE extra[r] = NoKey
        BY <2>2, <1>g, <1>s DEF TouchExtra
    <2>3. CASE extra[r] # NoKey
        <3>1. r \in Tracked(extra)
            BY <2>3 DEF Tracked
        <3>2. Tracked(extra') = Tracked(extra)
            BY <1>g
        <3>3. position' = MoveToFront(Tracked(extra), r)
            BY <2>3, <1>g DEF TouchExtra
        <3>4. /\ \A x \in Tracked(extra) : position'[x] < Capacity
              /\ \A x, y \in Tracked(extra) : position'[x] = position'[y] => x = y
            BY <3>1, <3>3, <1>t, MoveToFrontOrder
        <3> QED
            BY <3>2, <3>4, <2>1 DEF LruOrder
    <2> QED
        BY <2>2, <2>3
<1>1. CASE UNCHANGED cacheVars
    BY <1>1, <1>s DEF cacheVars
<1>2. ASSUME NEW c \in Caller,
             \/ Build(c) \/ BuildFails(c)
             \/ \E r \in Ref, k \in Key : AddOrBuild(c, r, k)
      PROVE  LruOrder' /\ EvictsLast
    BY <1>2, <1>s DEF Build, BuildFails, AddOrBuild
<1>3. ASSUME NEW r \in Ref, Get(r) \/ \E k \in Key : AddFixed(r, k)
      PROVE  LruOrder' /\ EvictsLast
    BY <1>3, <1>s, <1>g DEF Get, AddFixed
<1>4. ASSUME NEW c \in Caller, GetByRefAndKey(c) PROVE LruOrder' /\ EvictsLast
    <2>1. call[c].ref \in Ref
        BY <1>4, <1>t, CallType DEF GetByRefAndKey, Call
    <2> QED
        BY <1>4, <2>1, <1>s, <1>g DEF GetByRefAndKey
<1>5. ASSUME NEW c \in Caller, Insert(c) PROVE LruOrder' /\ EvictsLast
    <2> DEFINE r   == call[c].ref
               pos == MoveToFront(Tracked(extra), r)
    <2>1. r \in Ref
        BY <1>5, <1>t, CallType DEF Insert, Call
    <2>2. CASE fixed[r] # NoKey
        BY <2>2, <1>5, <1>s DEF Insert, IsFixed
    <2>3. CASE fixed[r] = NoKey
        <3>1. /\ Tracked(extra') \subseteq Tracked(extra) \cup {r}
              /\ \A x \in Tracked(extra') : position'[x] = pos[x] /\ pos[x] < Capacity
              /\ \A x \in Tracked(extra) \ Tracked(extra') :
                   /\ x # r /\ r \notin Tracked(extra) /\ pos[x] >= Capacity
            BY <2>3, <1>5, InsertOrder
        <3>2. /\ \A x, y \in Tracked(extra) \cup {r} : pos[x] = pos[y] => x = y
              /\ \A x \in Tracked(extra) : pos[x] <= Capacity
              /\ \A x \in Tracked(extra) \ {r} :
                   r \notin Tracked(extra) => pos[x] = position[x] + 1
            BY <2>1, <1>t, MoveToFrontOrder
        <3>3. \A x \in Tracked(extra) : position[x] \in Nat /\ pos[x] \in Nat
            BY <2>1, <1>t, MoveToFrontType DEF Tracked, CacheTypeOK
        <3> HIDE DEF pos, r
        <3>4. LruOrder'
            BY <3>1, <3>2 DEF LruOrder
        <3>5. EvictsLast
            BY <3>1, <3>2, <3>3, CapacityAssumption DEF EvictsLast
        <3> QED
            BY <3>4, <3>5
    <2> QED
        BY <2>2, <2>3
<1> QED
    BY <1>1, <1>2, <1>3, <1>4, <1>5 DEF CacheNext, CacheStep

\* A fixed reference is never evicted; the LRU evicts one entry at a time, and
\* the one that has gone longest without use; the reference of an AddOrBuild
\* that returns from its insertion is tracked with the key it was added for.
THEOREM LeastRecentEvicted == CacheSpec => EvictsLeastRecent
<1>1. CacheInit => LruOrder
    BY DEF CacheInit, LruOrder, Tracked
<1>2. CacheInv /\ LruOrder /\ [CacheNext]_cacheVars
        => [/\ Tracked(fixed) \subseteq Tracked(fixed')
            /\ EvictsLast
            /\ \A c \in Caller, r \in Ref :
                 (call[c].at = "insert" /\ call[c].ref = r /\ call'[c] = NoCall)
                    => KeyOf(r)' = call[c].key]_cacheVars
    <2> SUFFICES ASSUME CacheInv, LruOrder, CacheNext
                 PROVE  /\ Tracked(fixed) \subseteq Tracked(fixed')
                        /\ EvictsLast
                        /\ \A c \in Caller, r \in Ref :
                             (call[c].at = "insert" /\ call[c].ref = r /\ call'[c] = NoCall)
                                => KeyOf(r)' = call[c].key
        OBVIOUS
    <2>t. CacheTypeOK
        BY DEF CacheInv
    <2>1. EvictsLast
        BY LruStep
    <2>2. Tracked(fixed) \subseteq Tracked(fixed')
        <3>1. ASSUME NEW c \in Caller, Insert(c) PROVE Tracked(fixed) \subseteq Tracked(fixed')
            <4>1. call[c].ref \in Ref /\ call[c].key \in Key
                BY <3>1, <2>t, CallType DEF Insert, Call
            <4> QED
                BY <3>1, <4>1, <2>t, NilAssumption DEF Insert, Tracked, CacheTypeOK
        <3>2. ASSUME NEW r \in Ref, NEW k \in Key, AddFixed(r, k)
              PROVE  Tracked(fixed) \subseteq Tracked(fixed')
            BY <3>2, <2>t, NilAssumption DEF AddFixed, Tracked, CacheTypeOK
        <3> QED
            BY <3>1, <3>2 DEF CacheNext, CacheStep, GetByRefAndKey, Build, BuildFails,
                              AddOrBuild, Get
    <2>3. ASSUME NEW c \in Caller, call[c].at = "insert", call'[c] = NoCall
          PROVE  Insert(c)
        <3>1. call[c] # NoCall
            BY <2>3 DEF NoCall
        <3>2. ASSUME UNCHANGED call PROVE FALSE
            BY <3>1, <3>2, <2>3
        <3>3. ASSUME NEW d \in Caller,
                     \/ GetByRefAndKey(d) \/ Build(d) \/ BuildFails(d) \/ Insert(d)
                     \/ \E r \in Ref, k \in Key : AddOrBuild(d, r, k)
              PROVE  d = c
            BY <3>1, <3>3, <2>3, <2>t DEF GetByRefAndKey, Build, BuildFails, Insert, AddOrBuild,
                                          CacheTypeOK
        <3>4. ~GetByRefAndKey(c) /\ ~Build(c) /\ ~BuildFails(c)
            BY <2>3 DEF GetByRefAndKey, Build, BuildFails
        <3>5. \A r \in Ref, k \in Key : ~AddOrBuild(c, r, k)
            BY <3>1 DEF AddOrBuild
        <3> QED
            BY <3>2, <3>3, <3>4, <3>5 DEF CacheNext, CacheStep, Get, AddFixed
    <2>4. ASSUME NEW c \in Caller, NEW r \in Ref, call[c].ref = r, Insert(c)
          PROVE  KeyOf(r)' = call[c].key
        <3>1. call[c].key \in Key
            BY <2>4, <2>t, CallType DEF Insert, Call
        <3>2. CASE fixed[r] # NoKey
            BY <2>4, <3>1, <3>2, <2>t, NilAssumption DEF Insert, IsFixed, KeyOf, CacheTypeOK
        <3>3. CASE fixed[r] = NoKey
            <4>1. extra'[r] = call[c].key
                BY <2>4, <3>3, InsertOrder
            <4> QED
                BY <2>4, <3>1, <3>3, <4>1 DEF Insert, IsFixed, KeyOf
        <3> QED
            BY <3>2, <3>3
    <2> QED
        BY <2>1, <2>2, <2>3, <2>4
<1>3. CacheInv /\ LruOrder /\ [CacheNext]_cacheVars => LruOrder'
    BY LruStep
<1> QED
    BY <1>1, <1>2, <1>3, CacheInvariance, PTL DEF CacheSpec, EvictsLeastRecent, EvictsLast

-----------------------------------------------------------------------------
(* The git store.                                                          *)


(***************************************************************************)
(* The inductive invariant.  A commit keeps its branch on its way from the *)
(* upstream to the cache: the local heads, the calls of AddOrBuild in      *)
(* progress and the references of the cache hold heads the branch has had; *)
(* a commit whose build fails goes no further than the build.  A goroutine *)
(* resolves only what has been fetched, since a local head never goes away *)
(* and the references that the poller lists are those it fetches.          *)
(***************************************************************************)
HeadsInHistory ==
    \A r \in Ref : /\ remote[r] # NoKey => remote[r] \in history[r]
                   /\ local[r] # NoKey => local[r] \in history[r]

CachedInHistory ==
    \A r \in Ref : /\ fixed[r] # NoKey => fixed[r] \in history[r] \ BadKey
                   /\ extra[r] # NoKey => extra[r] \in history[r] \ BadKey

CallsInHistory ==
    \A c \in Caller : call[c] # NoCall =>
        /\ call[c].key \in history[call[c].ref]
        /\ call[c].at = "insert" => call[c].key \notin BadKey

KnownLocally ==
    /\ \A r \in Ref : (fixed[r] # NoKey \/ extra[r] # NoKey) => local[r] # NoKey
    /\ \A c \in Caller : call[c] # NoCall => local[call[c].ref] # NoKey
    /\ \A r \in todo : local[r] # NoKey

ViewsFetchWant ==
    \A v \in Viewer :
        /\ pc[v] \in {"refs", "fetch", "resolve"} => want[v] \in Ref
        /\ pc[v] = "fetch" => want[v] \in heads[v]
        /\ pc[v] = "resolve" => local[want[v]] # NoKey

HistoryInv == HeadsInHistory /\ CachedInHistory /\ CallsInHistory
                /\ KnownLocally /\ ViewsFetchWant

GitInv == TypeOK /\ CacheInv /\ HistoryInv


----------------------------------------------------------------------------
\* What AddOrBuild is called with: a branch, and a head it has had.
LEMMA ViewCallsType ==
    ASSUME GitInv, NEW v \in Viewer, pc[v] = "resolve"
    PROVE  /\ v \in Caller /\ want[v] \in Ref /\ local[want[v]] \in Key
           /\ local[want[v]] \in history[want[v]]
BY DEF GitInv, HistoryInv, HeadsInHistory, ViewsFetchWant, Viewer, TypeOK

LEMMA PollCallsType ==
    ASSUME GitInv, NEW r \in todo
    PROVE  r \in Ref /\ local[r] \in Key /\ local[r] \in history[r]
BY DEF GitInv, HistoryInv, HeadsInHistory, KnownLocally, TypeOK

LEMMA CacheStepsOnly ==
    ASSUME GitInv, [Next]_vars
    PROVE  [CacheNext]_cacheVars
<1> USE DEF CacheNext
<1>1. CASE UNCHANGED cacheVars
    BY <1>1
<1>2. ASSUME NEW v \in Viewer, NEW r \in Ref, ViewHit(v, r) \/ ViewMiss(v, r)
      PROVE  CacheNext
    BY <1>2 DEF ViewHit, ViewMiss
<1>3. ASSUME NEW v \in Viewer, ViewResolve(v)
      PROVE  CacheNext
    BY <1>3, ViewCallsType DEF ViewResolve
<1>4. ASSUME NEW r \in Ref, UpdateResolve(r)
      PROVE  CacheNext
    BY <1>4, PollCallsType, GitAssumption DEF UpdateResolve
<1>5. ASSUME NEW c \in Caller, InAddOrBuild(c)
      PROVE  CacheNext
    BY <1>5 DEF InAddOrBuild, CacheStep
<1> QED
    BY <1>1, <1>2, <1>3, <1>4, <1>5
       DEF Next, vars, Push, DeleteBranch, ViewStep, ViewReferences, ViewFetch, FetchFails,
           PollStep, PollTick, UpdateFetch, UpdateReferences, UpdateEnds, Close, PollReturns

LEMMA TypeStep == GitInv /\ [Next]_vars => TypeOK'
<1> SUFFICES ASSUME GitInv, [Next]_vars PROVE TypeOK'
    OBVIOUS
<1>c. CacheTypeOK'
    BY CacheStepsOnly, CacheInvStep DEF GitInv, CacheInv
<1>r. References \subseteq Ref
    BY DEF References, Tracked
<1> USE GitAssumption, <1>c, <1>r DEF GitInv, TypeOK, Goto
<1>1. CASE UNCHANGED gitVars
    BY <1>1 DEF gitVars
<1>2. ASSUME NEW r \in Ref, NEW k \in Key, Push(r, k) PROVE TypeOK'
    BY <1>2 DEF Push
<1>3. ASSUME NEW r \in Ref, DeleteBranch(r) PROVE TypeOK'
    BY <1>3 DEF DeleteBranch
<1>4. ASSUME NEW v \in Viewer, NEW r \in Ref, ViewMiss(v, r) PROVE TypeOK'
    BY <1>4 DEF ViewMiss, Viewer
<1>5. ASSUME NEW v \in Viewer, ViewReferences(v) PROVE TypeOK'
    <2>1. want[v] \in Ref
        BY <1>5 DEF ViewReferences, HistoryInv, ViewsFetchWant
    <2> QED
        BY <1>5, <2>1 DEF ViewReferences, Viewer
<1>6. ASSUME NEW v \in Viewer, ViewFetch(v) PROVE TypeOK'
    BY <1>6 DEF ViewFetch, Fetched, Viewer
<1>7. ASSUME NEW v \in Viewer, ViewResolve(v) PROVE TypeOK'
    BY <1>7 DEF ViewResolve, Viewer
<1>8. ASSUME NEW c \in Caller, FetchFails(c) PROVE TypeOK'
    BY <1>8 DEF FetchFails
<1>9. CASE PollTick
    BY <1>9 DEF PollTick
<1>10. CASE UpdateFetch
    BY <1>10 DEF UpdateFetch, Fetched
<1>11. CASE UpdateReferences
    BY <1>11 DEF UpdateReferences
<1>12. ASSUME NEW r \in Ref, UpdateResolve(r) PROVE TypeOK'
    BY <1>12 DEF UpdateResolve
<1>13. CASE UpdateEnds \/ PollReturns
    BY <1>13 DEF UpdateEnds, PollReturns
<1>14. CASE Close
    BY <1>14 DEF Close
<1> HIDE DEF GitInv, TypeOK
<1> QED
    BY <1>1, <1>2, <1>3, <1>4, <1>5, <1>6, <1>7, <1>8, <1>9, <1>10, <1>11, <1>12, <1>13,
       <1>14 DEF Next, vars, ViewStep, PollStep, ViewHit, InAddOrBuild, Viewer

----------------------------------------------------------------------------
\* Fetching moves local heads to upstream heads and takes none away.
LEMMA FetchKeepsHeads ==
    ASSUME GitInv, NEW c \in Caller, CanFetch(c), Fetched(c)
    PROVE  \A r \in Ref :
             /\ local'[r] \in {local[r], remote[r]}
             /\ (local[r] # NoKey \/ r \in heads[c]) => local'[r] # NoKey
BY DEF GitInv, TypeOK, CanFetch, Fetched

\* The part of the invariant that is about the local and the upstream heads.
LEMMA HeadsStep == GitInv /\ [Next]_vars => HeadsInHistory'
<1> SUFFICES ASSUME GitInv, [Next]_vars PROVE HeadsInHistory'
    OBVIOUS
<1> USE DEF HeadsInHistory
<1>h. HeadsInHistory /\ TypeOK
    BY DEF GitInv, HistoryInv
<1>1. ASSUME UNCHANGED <<remote, local, history>> PROVE HeadsInHistory'
    BY <1>1, <1>h
<1>2. ASSUME NEW r \in Ref, NEW k \in Key, Push(r, k) PROVE HeadsInHistory'
    BY <1>2, <1>h DEF Push, TypeOK
<1>3. ASSUME NEW r \in Ref, DeleteBranch(r) PROVE HeadsInHistory'
    BY <1>3, <1>h DEF DeleteBranch, TypeOK
<1>4. ASSUME NEW c \in Caller, CanFetch(c), Fetched(c), UNCHANGED <<remote, history>>
      PROVE  HeadsInHistory'
    BY <1>4, <1>h, FetchKeepsHeads
<1> HIDE DEF HeadsInHistory
<1>5. ASSUME NEW v \in Viewer, ViewStep(v) PROVE HeadsInHistory'
    BY <1>5, <1>1, <1>4 DEF ViewStep, ViewReferences, ViewFetch, FetchFails, ViewResolve,
                            Viewer
<1>6. CASE PollStep
    BY <1>6, <1>1, <1>4, GitAssumption
       DEF PollStep, PollTick, UpdateFetch, FetchFails, UpdateReferences, UpdateResolve,
           UpdateEnds
<1> QED
    BY <1>1, <1>2, <1>3, <1>5, <1>6
       DEF Next, vars, gitVars, ViewHit, ViewMiss, Close, PollReturns, InAddOrBuild

\* No step takes a local head away, nor a head from the history of a branch.
Grows == \A r \in Ref : /\ local[r] # NoKey => local'[r] # NoKey
                        /\ history[r] \subseteq history'[r]

LEMMA Monotone == GitInv /\ [Next]_vars => Grows
<1> SUFFICES ASSUME GitInv, [Next]_vars PROVE Grows
    OBVIOUS
<1> USE DEF Grows
<1>1. ASSUME UNCHANGED <<local, history>> PROVE Grows
    BY <1>1
<1>2. ASSUME NEW r \in Ref, NEW k \in Key, Push(r, k) PROVE Grows
    BY <1>2 DEF Push, GitInv, TypeOK
<1>3. ASSUME NEW c \in Caller, CanFetch(c), Fetched(c), UNCHANGED history PROVE Grows
    BY <1>3, FetchKeepsHeads
<1> HIDE DEF Grows
<1>4. ASSUME NEW v \in Viewer, ViewStep(v) PROVE Grows
    BY <1>4, <1>1, <1>3 DEF ViewStep, ViewReferences, ViewFetch, FetchFails, ViewResolve,
                            Viewer
<1>5. CASE PollStep
    BY <1>5, <1>1, <1>3, GitAssumption
       DEF PollStep, PollTick, UpdateFetch, FetchFails, UpdateReferences, UpdateResolve,
           UpdateEnds
<1> QED
    BY <1>1, <1>2, <1>4, <1>5
       DEF Next, vars, gitVars, DeleteBranch, ViewHit, ViewMiss, Close, PollReturns,
           InAddOrBuild

\* The lookup ends the call or passes it on, to the insertion only with a
\* snapshot that the store has.
LEMMA LookupResult ==
    ASSUME GitInv, NEW c \in Caller, call[c] \in Call, GetByRefAndKey(c)
    PROVE  \/ call'[c] = NoCall
           \/ /\ call'[c].ref = call[c].ref /\ call'[c].key = call[c].key
              /\ call'[c].at = "insert" => store[call[c].key] # NoSnap
<1> DEFINE k == call[c].key
<1>1. CASE store[k] # NoSnap /\ KeyOf(call[c].ref) = k
    BY <1>1 DEF GetByRefAndKey, GitInv, TypeOK, CacheTypeOK
<1>2. CASE ~(store[k] # NoSnap /\ KeyOf(call[c].ref) = k)
    <2>1. call'[c] = [call[c] EXCEPT !.at = IF store[k] = NoSnap THEN "build" ELSE "insert",
                                     !.snap = store[k]]
        BY <1>2 DEF GetByRefAndKey, GitInv, TypeOK, CacheTypeOK
    <2> QED
        BY <2>1 DEF Call
<1> QED
    BY <1>1, <1>2

\* A call of AddOrBuild in progress is new, with a head of its branch that the
\* local repository has, or it stays what it was, but for its place; it comes
\* to the insertion with the snapshot of a key in the cache or one just built.
LEMMA CallsStep == GitInv /\ [Next]_vars => CallsInHistory'
<1> SUFFICES ASSUME GitInv, [Next]_vars PROVE CallsInHistory'
    OBVIOUS
<1>g. Grows
    BY Monotone
<1>t. CacheTypeOK /\ CallsInHistory
    BY DEF GitInv, HistoryInv, TypeOK
<1>1. ASSUME UNCHANGED call PROVE CallsInHistory'
    <2> SUFFICES ASSUME NEW c \in Caller, call[c] # NoCall
                 PROVE  /\ call[c].key \in history'[call[c].ref]
                        /\ call[c].at = "insert" => call[c].key \notin BadKey
        BY <1>1 DEF CallsInHistory
    <2>1. call[c].ref \in Ref
        BY <1>t DEF CacheTypeOK, Call
    <2> QED
        BY <2>1, <1>g, <1>t DEF Grows, CallsInHistory
<1>2. ASSUME NEW c \in Caller, NEW r \in Ref, NEW k \in Key, AddOrBuild(c, r, k),
             k \in history[r], UNCHANGED history
      PROVE  CallsInHistory'
    BY <1>2, <1>t DEF AddOrBuild, CallsInHistory, CacheTypeOK
<1>3. ASSUME NEW v \in Viewer, ViewResolve(v) PROVE CallsInHistory'
    BY <1>3, <1>2, ViewCallsType DEF ViewResolve
<1>4. ASSUME NEW r \in Ref, UpdateResolve(r) PROVE CallsInHistory'
    BY <1>4, <1>2, PollCallsType, GitAssumption DEF UpdateResolve
<1>5. ASSUME NEW c \in Caller, InAddOrBuild(c) PROVE CallsInHistory'
    <2>h. UNCHANGED history
        BY <1>5 DEF InAddOrBuild, gitVars
    <2>1. CASE GetByRefAndKey(c)
        <3>1. call[c] \in Call
            BY <2>1, <1>t, CallType DEF GetByRefAndKey
        <3>2. store[call[c].key] # NoSnap => call[c].key \notin BadKey
            BY <3>1 DEF GitInv, HistoryInv, CachedInHistory, CacheInv, StoreExact, Values, Call
        <3>3. \A d \in Caller \ {c} : call'[d] = call[d]
            BY <2>1, <1>t DEF GetByRefAndKey, CacheTypeOK
        <3>4. \/ call'[c] = NoCall
              \/ /\ call'[c].ref = call[c].ref /\ call'[c].key = call[c].key
                 /\ call'[c].at = "insert" => store[call[c].key] # NoSnap
            BY <2>1, <3>1, LookupResult
        <3> QED
            BY <2>h, <3>1, <3>2, <3>3, <3>4, <1>t DEF CallsInHistory, NoCall, Call
    <2>2. CASE call[c].key \notin BadKey /\ Build(c)
        <3>1. call[c] \in Call
            BY <2>2, <1>t, CallType DEF Build
        <3> QED
            BY <2>2, <2>h, <3>1, <1>t DEF Build, CallsInHistory, CacheTypeOK, Call, NoCall
    <2>3. CASE BuildFails(c) \/ Insert(c)
        BY <2>3, <2>h, <1>t DEF BuildFails, Insert, CallsInHistory, CacheTypeOK
    <2> QED
        BY <1>5, <2>1, <2>2, <2>3 DEF InAddOrBuild
<1> QED
    BY <1>1, <1>3, <1>4, <1>5
       DEF Next, vars, cacheVars, Push, DeleteBranch, ViewHit, ViewMiss, Get, ViewStep,
           ViewReferences, ViewFetch, FetchFails, PollStep, PollTick, UpdateFetch,
           UpdateReferences, UpdateEnds, Close, PollReturns

\* The insertion is the only step that redirects a reference, and it redirects
\* the one of the call to its key.
LEMMA RedirectedByCall ==
    ASSUME GitInv, [Next]_vars
    PROVE  \/ UNCHANGED <<fixed, extra>>
           \/ \E c \in Caller :
                /\ call[c] \in Call /\ call[c].at = "insert"
                /\ \A x \in Ref \ {call[c].ref} :
                     fixed'[x] = fixed[x] /\ extra'[x] \in {extra[x], NoKey}
                /\ fixed'[call[c].ref] \in {fixed[call[c].ref], call[c].key}
                /\ extra'[call[c].ref] \in {extra[call[c].ref], call[c].key, NoKey}
                /\ UNCHANGED gitVars
<1>1. ASSUME NEW c \in Caller, Insert(c), UNCHANGED gitVars
      PROVE  /\ call[c] \in Call /\ call[c].at = "insert"
             /\ \A x \in Ref \ {call[c].ref} :
                  fixed'[x] = fixed[x] /\ extra'[x] \in {extra[x], NoKey}
             /\ fixed'[call[c].ref] \in {fixed[call[c].ref], call[c].key}
             /\ extra'[call[c].ref] \in {extra[call[c].ref], call[c].key, NoKey}
    <2>1. call[c] \in Call /\ call[c].at = "insert" /\ call[c].ref \in Ref
        BY <1>1, CallType DEF Insert, GitInv, TypeOK, Call
    <2> QED
        BY <1>1, <2>1 DEF Insert, GitInv, TypeOK, CacheTypeOK
<1> QED
    BY <1>1
       DEF Next, vars, cacheVars, Push, DeleteBranch, ViewHit, ViewMiss, Get, ViewStep,
           ViewReferences, ViewFetch, FetchFails, ViewResolve, AddOrBuild, PollStep, PollTick,
           UpdateFetch, UpdateReferences, UpdateResolve, UpdateEnds, Close, PollReturns,
           InAddOrBuild, GetByRefAndKey, Build, BuildFails

LEMMA CachedStep == GitInv /\ [Next]_vars => CachedInHistory'
<1> SUFFICES ASSUME GitInv, [Next]_vars PROVE CachedInHistory'
    OBVIOUS
<1>t. CachedInHistory /\ CallsInHistory /\ Grows
    BY Monotone DEF GitInv, HistoryInv
<1>1. CASE UNCHANGED <<fixed, extra>>
    BY <1>1, <1>t DEF CachedInHistory, Grows
<1>2. ASSUME NEW c \in Caller,
             call[c] \in Call, call[c].at = "insert",
             \A x \in Ref \ {call[c].ref} :
                 fixed'[x] = fixed[x] /\ extra'[x] \in {extra[x], NoKey},
             fixed'[call[c].ref] \in {fixed[call[c].ref], call[c].key},
             extra'[call[c].ref] \in {extra[call[c].ref], call[c].key, NoKey}
      PROVE  CachedInHistory'
    <2>1. call[c].key \in history[call[c].ref] \ BadKey
        BY <1>2, <1>t DEF CallsInHistory, NoCall
    <2> QED
        BY <1>2, <2>1, <1>t DEF CachedInHistory, Grows, Call
<1> QED
    BY <1>1, <1>2, RedirectedByCall

LEMMA KnownStep == GitInv /\ [Next]_vars => KnownLocally'
<1> SUFFICES ASSUME GitInv, [Next]_vars PROVE KnownLocally'
    OBVIOUS
<1>t. KnownLocally /\ Grows /\ TypeOK /\ CacheTypeOK
    BY Monotone DEF GitInv, HistoryInv, TypeOK
<1>1. \A r \in Ref : (fixed'[r] # NoKey \/ extra'[r] # NoKey) => local'[r] # NoKey
    <2>1. CASE UNCHANGED <<fixed, extra>>
        BY <2>1, <1>t DEF KnownLocally, Grows
    <2>2. ASSUME NEW c \in Caller,
                 call[c] \in Call, call[c].at = "insert",
                 \A x \in Ref \ {call[c].ref} :
                     fixed'[x] = fixed[x] /\ extra'[x] \in {extra[x], NoKey}
          PROVE  \A r \in Ref : (fixed'[r] # NoKey \/ extra'[r] # NoKey) => local'[r] # NoKey
        BY <2>2, <1>t DEF KnownLocally, Grows, NoCall, Call
    <2> QED
        BY <2>1, <2>2, RedirectedByCall
<1>2. \A r \in todo' : local'[r] # NoKey
    <2>1. todo' \subseteq todo \cup References
        BY DEF Next, vars, gitVars, Push, DeleteBranch, ViewHit, ViewMiss, ViewStep,
               ViewReferences, ViewFetch, FetchFails, ViewResolve, PollStep, PollTick,
               UpdateFetch, UpdateReferences, UpdateResolve, UpdateEnds, Close, PollReturns,
               InAddOrBuild
    <2> QED
        BY <2>1, <1>t DEF KnownLocally, Grows, References, Tracked, TypeOK
<1>3. \A c \in Caller : call'[c] # NoCall => local'[call'[c].ref] # NoKey
    <2> DEFINE CallsKnown ==
            \A c \in Caller : call'[c] # NoCall => local'[call'[c].ref] # NoKey
    <2>1. ASSUME \A c \in Caller : \/ call'[c] = NoCall
                                   \/ call[c] # NoCall /\ call'[c].ref = call[c].ref
                                   \/ call'[c].ref \in Ref /\ local[call'[c].ref] # NoKey
          PROVE  CallsKnown
        BY <2>1, <1>t DEF KnownLocally, Grows, CacheTypeOK, Call
    <2>2. ASSUME UNCHANGED call PROVE CallsKnown
        BY <2>1, <2>2
    <2>3. ASSUME NEW v \in Viewer, ViewResolve(v) PROVE CallsKnown
        BY <2>3, <2>1, <1>t, ViewCallsType, NilAssumption
           DEF ViewResolve, AddOrBuild, CacheTypeOK
    <2>4. ASSUME NEW r \in Ref, UpdateResolve(r) PROVE CallsKnown
        BY <2>4, <2>1, <1>t, PollCallsType, NilAssumption
           DEF UpdateResolve, AddOrBuild, CacheTypeOK
    <2>5. ASSUME NEW c \in Caller, InAddOrBuild(c) PROVE CallsKnown
        <3>1. call[c].at # "idle"
            BY <2>5 DEF InAddOrBuild, GetByRefAndKey, Build, BuildFails, Insert
        <3>2. call[c] \in Call /\ call[c] # NoCall
            BY <3>1, <1>t, CallType DEF NoCall
        <3>3. call'[c] = NoCall \/ call'[c].ref = call[c].ref
            BY <2>5, <3>2, <1>t, LookupResult
               DEF InAddOrBuild, Build, BuildFails, Insert, CacheTypeOK, Call
        <3>4. \A d \in Caller \ {c} : call'[d] = call[d]
            BY <2>5, <1>t DEF InAddOrBuild, GetByRefAndKey, Build, BuildFails, Insert,
                              CacheTypeOK
        <3> QED
            BY <3>2, <3>3, <3>4, <2>1
    <2> HIDE DEF CallsKnown
    <2>6. CallsKnown
        BY <2>2, <2>3, <2>4, <2>5
           DEF Next, vars, cacheVars, Push, DeleteBranch, ViewHit, ViewMiss, Get, ViewStep,
               ViewReferences, ViewFetch, FetchFails, PollStep, PollTick, UpdateFetch,
               UpdateReferences, UpdateEnds, Close, PollReturns
    <2> QED
        BY <2>6 DEF CallsKnown
<1> QED
    BY <1>1, <1>2, <1>3 DEF KnownLocally

LEMMA ViewsStep == GitInv /\ [Next]_vars => ViewsFetchWant'
<1> SUFFICES ASSUME GitInv, [Next]_vars, NEW v \in Viewer
             PROVE  /\ pc'[v] \in {"refs", "fetch", "resolve"} => want'[v] \in Ref
                    /\ pc'[v] = "fetch" => want'[v] \in heads'[v]
                    /\ pc'[v] = "resolve" => local'[want'[v]] # NoKey
    BY DEF ViewsFetchWant
<1> DEFINE Fine == /\ pc'[v] \in {"refs", "fetch", "resolve"} => want'[v] \in Ref
                   /\ pc'[v] = "fetch" => want'[v] \in heads'[v]
                   /\ pc'[v] = "resolve" => local'[want'[v]] # NoKey
<1>t. Grows /\ TypeOK /\ v \in Caller /\ v # Poller
    BY Monotone DEF GitInv, HistoryInv, Viewer
<1>v. /\ pc[v] \in {"refs", "fetch", "resolve"} => want[v] \in Ref
      /\ pc[v] = "fetch" => want[v] \in heads[v]
      /\ pc[v] = "resolve" => local[want[v]] # NoKey
    BY DEF GitInv, HistoryInv, ViewsFetchWant
<1>1. ASSUME pc'[v] = pc[v], want'[v] = want[v], heads'[v] = heads[v] PROVE Fine
    BY <1>1, <1>t, <1>v DEF Grows
<1>2. ASSUME NEW r \in Ref, ViewMiss(v, r) PROVE Fine
    BY <1>2, <1>t DEF ViewMiss, Goto, TypeOK
<1>3. ASSUME ViewReferences(v) PROVE Fine
    BY <1>3, <1>t, <1>v DEF ViewReferences, Goto, TypeOK
<1>4. ASSUME ViewFetch(v) PROVE Fine
    <2>1. want[v] \in heads[v] /\ want[v] \in Ref
        BY <1>4, <1>v DEF ViewFetch
    <2>2. local'[want[v]] # NoKey
        BY <1>4, <2>1, <1>t, FetchKeepsHeads DEF ViewFetch
    <2> QED
        BY <1>4, <2>1, <2>2, <1>t DEF ViewFetch, Goto, TypeOK
<1>5. ASSUME FetchFails(v) \/ ViewResolve(v) PROVE Fine
    BY <1>5, <1>t DEF FetchFails, ViewResolve, Goto, TypeOK
<1>6. ASSUME NEW w \in Viewer \ {v}, ViewStep(w) \/ \E r \in Ref : ViewMiss(w, r)
      PROVE  Fine
    BY <1>6, <1>1, <1>t DEF ViewStep, ViewReferences, ViewFetch, FetchFails, ViewResolve,
                            ViewMiss, Goto, TypeOK, Viewer
<1>7. ASSUME PollStep \/ PollReturns PROVE Fine
    BY <1>7, <1>1, <1>t, GitAssumption
       DEF PollStep, PollTick, UpdateFetch, FetchFails, UpdateReferences, UpdateResolve,
           UpdateEnds, PollReturns, Goto, TypeOK
<1> HIDE DEF Fine
<1>8. Fine
    <2>1. CASE UNCHANGED <<pc, want, heads>>
        BY <2>1, <1>1
    <2>2. ASSUME NEW w \in Viewer, ViewStep(w) \/ \E r \in Ref : ViewMiss(w, r)
          PROVE  Fine
        <3>1. CASE w = v
            BY <2>2, <3>1, <1>2, <1>3, <1>4, <1>5 DEF ViewStep
        <3> QED
            BY <2>2, <3>1, <1>6
    <2> QED
        BY <2>1, <2>2, <1>7
           DEF Next, vars, gitVars, Push, DeleteBranch, ViewHit, Close, InAddOrBuild
<1> QED
    BY <1>8 DEF Fine

LEMMA GitInvariance == Spec => []GitInv
<1>1. Init => GitInv
    <2> SUFFICES ASSUME Init PROVE GitInv
        OBVIOUS
    <2> USE GitAssumption, NilAssumption DEF Init
    <2>1. CacheTypeOK
        BY DEF CacheTypeOK
    <2>2. TypeOK
        BY <2>1 DEF TypeOK
    <2>3. CacheInv
        BY <2>1 DEF CacheInv, StoreExact, FixedApart, CallsCarrySnapshot, Values, NoCall
    <2>4. HistoryInv
        BY DEF HistoryInv, HeadsInHistory, CachedInHistory, CallsInHistory, KnownLocally,
               ViewsFetchWant, Viewer
    <2> QED
        BY <2>2, <2>3, <2>4 DEF GitInv
<1>2. GitInv /\ [Next]_vars => CacheInv'
    <2> SUFFICES ASSUME GitInv, [Next]_vars PROVE CacheInv'
        OBVIOUS
    <2> QED
        BY CacheStepsOnly, CacheInvStep DEF GitInv
<1>3. GitInv /\ [Next]_vars => GitInv'
    BY <1>2, TypeStep, HeadsStep, CallsStep, CachedStep, KnownStep, ViewsStep
       DEF GitInv, HistoryInv
<1> QED
    BY <1>1, <1>3, PTL DEF Spec

\* Type correctness: in particular AddOrBuild is only called with a branch and
\* a commit that the local repository has.
THEOREM GitTypeCorrect == Spec => []TypeOK
<1>1. GitInv => TypeOK
    BY DEF GitInv
<1> QED
    BY <1>1, GitInvariance, PTL

\* However Views and the poller interleave, and whatever is pushed, deleted or
\* fails in the meantime, what the store serves for a branch is a commit that
\* was the head of this branch and could be built.
THEOREM OwnHistoryServed == Spec => []ServesOwnHistory
<1>1. GitInv => ServesOwnHistory
    <2> SUFFICES ASSUME GitInv, NEW r \in References
                 PROVE  KeyOf(r) \in history[r] /\ Snapshot(r) \in history[r] \ BadKey
        BY DEF ServesOwnHistory
    <2>1. r \in Ref /\ KeyOf(r) \in history[r] \ BadKey
        BY DEF References, Tracked, KeyOf, GitInv, HistoryInv, CachedInHistory
    <2>2. KeyOf(r) \in Values(fixed) \cup Values(extra) /\ KeyOf(r) \in Key
        BY <2>1 DEF References, Tracked, Values, KeyOf, GitInv, CacheInv, CacheTypeOK
    <2>3. Snapshot(r) = KeyOf(r)
        BY <2>2 DEF Snapshot, GitInv, CacheInv, StoreExact
    <2> QED
        BY <2>1, <2>3
<1> QED
    BY <1>1, GitInvariance, PTL

\* The store is a client of the cache as the cache's own specification allows
\* it: every step is a step of the cache or leaves it alone.
THEOREM GitUsesCache == Spec => [][CacheNext]_cacheVars
<1>1. GitInv /\ [Next]_vars => [CacheNext]_cacheVars
    <2> SUFFICES ASSUME GitInv, [Next]_vars PROVE [CacheNext]_cacheVars
        OBVIOUS
    <2> QED
        BY CacheStepsOnly
<1> QED
    BY <1>1, GitInvariance, PTL DEF Spec

\* Hence a View finds the snapshot of every reference the cache tracks.
THEOREM GitServesTracked == Spec => []NoDanglingReference
BY CacheInvServes, GitInvariance, PTL DEF GitInv

=============================================================================
