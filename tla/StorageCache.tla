---------------------------- MODULE StorageCache ----------------------------
(***************************************************************************)
(* The read-through cache in front of the database                         *)
(* (internal/storage/cache/cache.go over a cache.Cacher).  A read that     *)
(* misses reads the database and then stores what it read; a write of a    *)
(* flag or of one of its variants first deletes the cached flag and then   *)
(* writes the database; creating a flag writes the database and then the   *)
(* cache.  Evaluation rules and rollouts are cached as well, but no write  *)
(* invalidates them.  None of these is atomic, several requests run at     *)
(* once, and an instance with an in-memory cache does not see what the     *)
(* others delete.  A failing cache is logged and otherwise ignored.        *)
(***************************************************************************)
EXTENDS Integers

CONSTANTS
    Flag,       \* cache keys of flags
    Rules,      \* cache keys of evaluation rules and rollouts
    Client,     \* requests that run concurrently
    Cache,      \* the caches: one per instance in memory, or one in redis
    Home,       \* the cache the instance serving a client uses
    Miss,       \* no entry in the cache
    Absent,     \* no row in the database
    MaxWrites,  \* bound: writes to the database
    MaxFaults   \* bound: failed calls of the cache and of the database

Item == Flag \cup Rules

ASSUME CacheAssumption ==
    /\ Flag # {} /\ Flag \cap Rules = {}
    /\ Home \in [Client -> Cache]
    /\ Miss \notin Nat /\ Absent \notin Nat /\ Miss # Absent
    /\ MaxWrites \in Nat /\ MaxFaults \in Nat

VARIABLES
    db,         \* the database: what a read of an item returns
    cached,     \* the contents of every cache
    pc,         \* where a request is
    item,       \* the item a request is about
    value,      \* what a request has read or created
    writes,     \* how many writes there have been; the last value written
    faults,
    overlapped  \* history, per cache: flags of which a read or a creation ran
                \* during a write, whose deletion from the cache failed, or
                \* which were written by way of another cache

vars == <<db, cached, pc, item, value, writes, faults, overlapped>>

Init ==
    /\ db \in [Item -> {0, Absent}]
    /\ cached = [h \in Cache |-> [x \in Item |-> Miss]]
    /\ pc = [c \in Client |-> "idle"]
    /\ item = [c \in Client |-> CHOOSE x \in Item : TRUE]
    /\ value = [c \in Client |-> Absent]
    /\ writes = 0 /\ faults = 0
    /\ overlapped = [h \in Cache |-> {}]

\* Requests at work on item x by way of cache h: those that will fill the
\* cache, and those between the deletion from the cache and the write.
Using(h, x) == {c \in Client : Home[c] = h /\ item[c] = x}
Filling(h, x) == {c \in Using(h, x) : pc[c] \in {"load", "fill"}}
Writing(h, x) == {c \in Using(h, x) : pc[c] = "write"}

Start(c, x, p) ==
    /\ pc[c] = "idle"
    /\ pc' = [pc EXCEPT ![c] = p]
    /\ item' = [item EXCEPT ![c] = x]

Finish(c) ==
    /\ pc' = [pc EXCEPT ![c] = "idle"]
    /\ value' = [value EXCEPT ![c] = Absent]
    /\ UNCHANGED item

Put(h, x, v) == cached' = [cached EXCEPT ![h][x] = v]

Fault == faults < MaxFaults /\ faults' = faults + 1

Overlap(h, x) == overlapped' = [overlapped EXCEPT ![h] = @ \cup {x}]

----------------------------------------------------------------------------
\* GetFlag, GetEvaluationRules, GetEvaluationRollouts.  A hit changes nothing;
\* a miss, or a cache that fails, goes to the database.
GetMiss(c, x) ==
    /\ Start(c, x, "load")
    /\ \/ cached[Home[c]][x] = Miss /\ UNCHANGED faults
       \/ cached[Home[c]][x] # Miss /\ Fault
    /\ IF Writing(Home[c], x) # {} THEN Overlap(Home[c], x) ELSE UNCHANGED overlapped
    /\ UNCHANGED <<db, cached, value, writes>>

\* Mutant of Load: what is not found is cached.
LoadAbsent(c) ==
    /\ pc[c] = "load"
    /\ value' = [value EXCEPT ![c] = db[item[c]]]
    /\ pc' = [pc EXCEPT ![c] = "fill"]
    /\ UNCHANGED <<db, cached, item, writes, faults, overlapped>>

\* The database is read; what is not found is returned as an error.
Load(c) ==
    /\ pc[c] = "load"
    /\ IF db[item[c]] = Absent
       THEN Finish(c)
       ELSE /\ value' = [value EXCEPT ![c] = db[item[c]]]
            /\ pc' = [pc EXCEPT ![c] = "fill"]
            /\ UNCHANGED item
    /\ UNCHANGED <<db, cached, writes, faults, overlapped>>

\* set: the value read (or created) goes to the cache, or is lost.
Fill(c) ==
    /\ pc[c] = "fill"
    /\ Put(Home[c], item[c], value[c])
    /\ Finish(c)
    /\ UNCHANGED <<db, writes, faults, overlapped>>

FillFails(c) ==
    /\ pc[c] = "fill"
    /\ Fault
    /\ Finish(c)
    /\ UNCHANGED <<db, cached, writes, overlapped>>

\* CreateFlag: the row first, then the cache.
CreateFlag(c, x) ==
    /\ x \in Flag
    /\ db[x] = Absent
    /\ writes < MaxWrites
    /\ Start(c, x, "fill")
    /\ writes' = writes + 1
    /\ db' = [db EXCEPT ![x] = writes + 1]
    /\ value' = [value EXCEPT ![c] = writes + 1]
    /\ IF Writing(Home[c], x) # {} THEN Overlap(Home[c], x) ELSE UNCHANGED overlapped
    /\ UNCHANGED <<cached, faults>>

\* Mutant of Invalidate: the cached flag is not deleted.
InvalidateNothing(c, x) ==
    /\ x \in Flag
    /\ Start(c, x, "write")
    /\ IF Filling(Home[c], x) # {} THEN Overlap(Home[c], x) ELSE UNCHANGED overlapped
    /\ UNCHANGED <<db, cached, value, writes, faults>>

\* UpdateFlag, DeleteFlag, CreateVariant, UpdateVariant, DeleteVariant: the
\* cached flag is deleted first; if that fails the write goes on.
Invalidate(c, x) ==
    /\ x \in Flag
    /\ Start(c, x, "write")
    /\ \/ /\ Put(Home[c], x, Miss)
          /\ IF Filling(Home[c], x) # {} THEN Overlap(Home[c], x) ELSE UNCHANGED overlapped
          /\ UNCHANGED faults
       \/ /\ Fault
          /\ Overlap(Home[c], x)
          /\ UNCHANGED cached
    /\ UNCHANGED <<db, value, writes>>

\* The write itself: the flag changes, or is deleted.
Write(c) ==
    /\ pc[c] = "write"
    /\ db[item[c]] # Absent
    /\ writes < MaxWrites
    /\ writes' = writes + 1
    /\ \E v \in {writes + 1, Absent} : db' = [db EXCEPT ![item[c]] = v]
    /\ overlapped' = [h \in Cache |-> IF h = Home[c] THEN overlapped[h]
                                      ELSE overlapped[h] \cup {item[c]}]
    /\ Finish(c)
    /\ UNCHANGED <<cached, faults>>

\* There is no such flag any more, the database fails, or (the bound) there
\* are no writes left.
WriteFails(c) ==
    /\ pc[c] = "write"
    /\ \/ db[item[c]] = Absent /\ UNCHANGED faults
       \/ writes = MaxWrites /\ UNCHANGED faults
       \/ Fault
    /\ Finish(c)
    /\ UNCHANGED <<db, cached, writes, overlapped>>

\* CreateRule, UpdateRollout, ...: the embedded store is called directly.
WriteRules(x) ==
    /\ x \in Rules
    /\ writes < MaxWrites
    /\ writes' = writes + 1
    /\ db' = [db EXCEPT ![x] = writes + 1]
    /\ UNCHANGED <<cached, pc, item, value, faults, overlapped>>

\* Mutant of Expire: rules and rollouts have no TTL.
ExpireFlags(h, x) ==
    /\ x \in Flag
    /\ cached[h][x] # Miss
    /\ Put(h, x, Miss)
    /\ UNCHANGED <<db, pc, item, value, writes, faults, overlapped>>

\* An entry reaches its TTL.
Expire(h, x) ==
    /\ cached[h][x] # Miss
    /\ Put(h, x, Miss)
    /\ UNCHANGED <<db, pc, item, value, writes, faults, overlapped>>

Step(c) == Load(c) \/ Fill(c) \/ FillFails(c) \/ Write(c) \/ WriteFails(c)

Next ==
    \/ \E c \in Client, x \in Item :
        GetMiss(c, x) \/ CreateFlag(c, x) \/ Invalidate(c, x)
    \/ \E c \in Client : Step(c)
    \/ \E x \in Item : WriteRules(x)
    \/ \E h \in Cache, x \in Item : Expire(h, x)

\* Requests run to their end, and every entry has a TTL.
Fairness ==
    /\ \A c \in Client : WF_vars(Step(c))
    /\ \A h \in Cache, x \in Item : WF_vars(Expire(h, x))

Spec == Init /\ [][Next]_vars /\ Fairness

----------------------------------------------------------------------------
TypeOK ==
    /\ db \in [Item -> Nat \cup {Absent}]
    /\ cached \in [Cache -> [Item -> Nat \cup {Miss}]]
    /\ pc \in [Client -> {"idle", "load", "fill", "write"}]
    /\ item \in [Client -> Item]
    /\ value \in [Client -> Nat \cup {Absent}]
    /\ writes \in Nat /\ faults \in Nat
    /\ overlapped \in [Cache -> SUBSET Item]

Stale(h, x) == cached[h][x] \notin {Miss, db[x]}

\* Deleting the cached flag before the write is enough as long as no read or
\* creation of the same flag runs between the deletion and the write: a cache
\* serves a flag out of date only after such an overlap, after a failed
\* deletion, or after a write by an instance that uses another cache.
StaleOnlyAfterOverlap ==
    \A h \in Cache, x \in Flag : Stale(h, x) => x \in overlapped[h]

\* The TTL repairs whatever overlaps, failures and other instances' writes
\* left behind: once the writes are over, no cache serves anything out of date,
\* rules and rollouts included.
CachesConverge == <>[](\A h \in Cache, x \in Item : ~Stale(h, x))

=============================================================================
