---------------------------- MODULE SnapshotCache ----------------------------
(***************************************************************************)
(* The cache of snapshots behind a declarative store                       *)
(* (internal/storage/fs/cache.go).  A reference (a branch) points to a key *)
(* (a commit), a key to the snapshot built from it; several references may *)
(* share a key.  Fixed references stay for ever; the others live in an LRU *)
(* of bounded capacity.  AddOrBuild looks the reference up under a read    *)
(* lock, builds with no lock held, and inserts under the write lock, so    *)
(* calls from several goroutines interleave between these steps.           *)
(*                                                                         *)
(* A snapshot is represented by the key it was built from.                 *)
(***************************************************************************)
EXTENDS Integers, FiniteSets

CONSTANTS
    Ref,        \* references
    Key,        \* content addresses
    Caller,     \* goroutines calling the cache
    NoRef,      \* no reference
    NoKey,      \* the reference is not tracked
    NoSnap,     \* the key has no snapshot
    Capacity    \* how many references the LRU holds

ASSUME CapacityAssumption == Capacity \in Nat \ {0}
ASSUME NilAssumption ==
    NoRef \notin Ref /\ NoKey \notin Key /\ NoSnap \notin Key

VARIABLES
    fixed,      \* fixed: the key of every fixed reference
    extra,      \* extra: the key of every reference in the LRU
    position,   \* the place of a reference in the LRU, 0 the most recent
    store,      \* store: the snapshot of every key
    call        \* the calls to AddOrBuild in progress

cacheVars == <<fixed, extra, position, store, call>>

\* A goroutine outside AddOrBuild, and one inside: before the lookup, before
\* the build, before the insertion.
NoCall == [at |-> "idle", ref |-> NoRef, key |-> NoKey, snap |-> NoSnap]
Call == [at : {"lookup", "build", "insert"}, ref : Ref, key : Key,
         snap : Key \cup {NoSnap}]

Values(m) == {m[r] : r \in Ref} \ {NoKey}
Tracked(m) == {r \in Ref : m[r] # NoKey}

\* References: what the cache tracks.
References == Tracked(fixed) \cup Tracked(extra)

\* The key a reference points to; the fixed set goes first.
KeyOf(r) == IF fixed[r] # NoKey THEN fixed[r] ELSE extra[r]

\* The snapshot Get returns for a tracked reference.
Snapshot(r) == store[KeyOf(r)]

\* Get's second result: the reference and its key's snapshot are both there.
Hit(r) == KeyOf(r) # NoKey /\ Snapshot(r) # NoSnap

\* The empty cache of NewSnapshotCache.
CacheInit ==
    /\ fixed = [r \in Ref |-> NoKey]
    /\ extra = [r \in Ref |-> NoKey]
    /\ position = [r \in Ref |-> 0]
    /\ store = [k \in Key |-> NoSnap]
    /\ call = [c \in Caller |-> NoCall]

\* Makes r the most recent entry of an LRU that holds the references in held:
\* the entries in front of it (all of them when r is new) move back by one.
MoveToFront(held, r) ==
    [x \in Ref |->
        IF x = r THEN 0
        ELSE IF x \in held /\ (r \in held => position[x] < position[r])
             THEN position[x] + 1
             ELSE position[x]]

\* extra.Get: a hit makes the reference the most recent one.
TouchExtra(r) ==
    position' = IF extra[r] # NoKey THEN MoveToFront(Tracked(extra), r)
                                    ELSE position

\* Get, a hit or a miss; the snapshot is Snapshot(r).
Get(r) ==
    /\ IF fixed[r] # NoKey THEN UNCHANGED position ELSE TouchExtra(r)
    /\ UNCHANGED <<fixed, extra, store, call>>

\* Nothing but AddFixed has been called, and not for reference r.
SettingUp(r) ==
    /\ fixed[r] = NoKey
    /\ Tracked(extra) = {}
    /\ \A c \in Caller : call[c] = NoCall

\* AddFixed, "called during initialization of a store".
AddFixed(r, k) ==
    /\ SettingUp(r)
    /\ fixed' = [fixed EXCEPT ![r] = k]
    /\ store' = [store EXCEPT ![k] = k]
    /\ UNCHANGED <<extra, position, call>>

\* AddOrBuild is called for reference r and key k.
AddOrBuild(c, r, k) ==
    /\ call[c] = NoCall
    /\ call' = [call EXCEPT ![c] =
         [at |-> "lookup", ref |-> r, key |-> k, snap |-> NoSnap]]
    /\ UNCHANGED <<fixed, extra, position, store>>

\* getByRefAndKey, under the read lock: the call is over when the reference
\* points to the key already; a snapshot of the key is used as it is.
GetByRefAndKey(c) ==
    LET r == call[c].ref
        k == call[c].key
    IN
    /\ call[c].at = "lookup"
    /\ IF store[k] # NoSnap /\ fixed[r] = NoKey THEN TouchExtra(r)
                                               ELSE UNCHANGED position
    /\ call' = [call EXCEPT ![c] =
         IF store[k] # NoSnap /\ KeyOf(r) = k THEN NoCall
         ELSE [@ EXCEPT !.at = IF store[k] = NoSnap THEN "build" ELSE "insert",
                        !.snap = store[k]]]
    /\ UNCHANGED <<fixed, extra, store>>

\* Mutant of Build: a nil snapshot is returned without an error.
BuildNil(c) ==
    /\ call[c].at = "build"
    /\ call' = [call EXCEPT ![c].at = "insert", ![c].snap = NoKey]
    /\ UNCHANGED <<fixed, extra, position, store>>

\* build(ctx, k), without a lock.
Build(c) ==
    /\ call[c].at = "build"
    /\ call' = [call EXCEPT ![c].at = "insert", ![c].snap = call[c].key]
    /\ UNCHANGED <<fixed, extra, position, store>>

BuildFails(c) ==
    /\ call[c].at = "build"
    /\ call' = [call EXCEPT ![c] = NoCall]
    /\ UNCHANGED <<fixed, extra, position, store>>

\* Mutant of Dangling: evict does not look for other references.
DanglingUnchecked(ks, f, e) == ks

\* Mutant of Dangling: nothing is evicted.
NoneDangling(ks, f, e) == {}

\* evict: of the keys in ks, those no reference of f and e points to any more.
Dangling(ks, f, e) == ks \ (Values(f) \cup Values(e))

\* The references a full LRU drops when its entries stand at pos.
Overflow(e, pos) == {x \in Tracked(e) : pos[x] >= Capacity}

\* Mutant of IsFixed: AddOrBuild always goes to the LRU.
NeverFixed(r) == FALSE

\* Whether AddOrBuild finds the reference in the fixed set.
IsFixed(r) == fixed[r] # NoKey

\* The insertion, under the write lock.  A fixed reference is redirected;
\* any other goes to the front of the LRU, whose oldest entry may drop out.
\* Then the snapshot of the dropped entry's key and the one of the
\* reference's previous key are evicted, unless something points to them.
Insert(c) ==
    LET r    == call[c].ref
        k    == call[c].key
        full == [extra EXCEPT ![r] = k]
        pos  == MoveToFront(Tracked(extra), r)
        out  == Overflow(full, pos)
    IN
    /\ call[c].at = "insert"
    /\ IF IsFixed(r)
       THEN /\ fixed' = [fixed EXCEPT ![r] = k]
            /\ UNCHANGED <<extra, position>>
       ELSE /\ extra' = [x \in Ref |-> IF x \in out THEN NoKey ELSE full[x]]
            /\ position' = [x \in Ref |-> IF x \in out THEN 0 ELSE pos[x]]
            /\ UNCHANGED fixed
    /\ LET left == {KeyOf(r)} \cup {extra[x] : x \in Tracked(extra) \ Tracked(extra')}
           gone == Dangling(left \ {NoKey}, fixed', extra')
       IN  store' = [x \in Key |-> IF x = k THEN call[c].snap
                                   ELSE IF x \in gone THEN NoSnap ELSE store[x]]
    /\ call' = [call EXCEPT ![c] = NoCall]

\* A step inside AddOrBuild.
CacheStep(c) == GetByRefAndKey(c) \/ Build(c) \/ Insert(c)

\* The cache on its own: any goroutine may ask for anything.
CacheNext ==
    \/ \E c \in Caller :
        \/ CacheStep(c)
        \/ BuildFails(c)
        \/ \E r \in Ref, k \in Key : AddOrBuild(c, r, k)
    \/ \E r \in Ref : Get(r) \/ \E k \in Key : AddFixed(r, k)

CacheSpec == CacheInit /\ [][CacheNext]_cacheVars

----------------------------------------------------------------------------
CacheTypeOK ==
    /\ fixed \in [Ref -> Key \cup {NoKey}]
    /\ extra \in [Ref -> Key \cup {NoKey}]
    /\ position \in [Ref -> Nat]
    /\ store \in [Key -> Key \cup {NoSnap}]
    /\ call \in [Caller -> Call \cup {NoCall}]

\* Get never fails for a tracked reference, and never returns a snapshot of
\* another revision: evict runs for keys other references may share, between
\* the lookup and the insertion of other calls.
NoDanglingReference ==
    \A r \in References : Snapshot(r) = KeyOf(r)

\* Garbage collection is complete: a snapshot nothing points to is gone.
NoLeakedSnapshot ==
    \A k \in Key : store[k] # NoSnap => k \in Values(fixed) \cup Values(extra)

\* "The supplied reference will NEVER be evicted."  A fixed reference stays
\* tracked; of the others, a step drops at most one, and never one that was
\* used more recently than one it keeps.  When AddOrBuild returns, its
\* reference is tracked with its key, whatever the insertion has evicted.
EvictsLeastRecent ==
    [][LET dropped == Tracked(extra) \ Tracked(extra') IN
       /\ Tracked(fixed) \subseteq Tracked(fixed')
       /\ \A x, y \in dropped : x = y
       /\ \A x \in dropped, y \in Tracked(extra) \cap Tracked(extra') :
             position[y] < position[x]
       /\ \A c \in Caller, r \in Ref :
             (call[c].at = "insert" /\ call[c].ref = r /\ call'[c] = NoCall)
                => KeyOf(r)' = call[c].key]_cacheVars

=============================================================================
