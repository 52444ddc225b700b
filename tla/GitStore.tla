------------------------------ MODULE GitStore ------------------------------
(***************************************************************************)
(* The declarative store over a git repository                             *)
(* (internal/storage/fs/git/store.go) with its poller                      *)
(* (internal/storage/fs/poll.go), on top of SnapshotCache.                 *)
(*                                                                         *)
(* Requests read through View, one goroutine each: a tracked reference is  *)
(* served from the cache; any other is fetched, resolved and added.  The   *)
(* poller periodically fetches every tracked reference and, when git says  *)
(* that something changed, resolves and rebuilds all of them.  Views and   *)
(* the poller share the local repository (under a mutex, one fetch or      *)
(* resolve at a time) and the cache.                                       *)
(***************************************************************************)
EXTENDS SnapshotCache

CONSTANTS
    BaseRef,    \* the reference the store is configured with
    Poller,     \* the goroutine that polls; the other callers serve requests
    BadKey,     \* commits whose content SnapshotFromFS refuses
    FirstKey,   \* the commit every existing branch starts from
    MaxPushes,  \* bound: pushes to the upstream repository and deletions of branches
    MaxFaults   \* bound: fetches that fail on the way to the upstream

ASSUME GitAssumption ==
    /\ BaseRef \in Ref /\ Poller \in Caller
    /\ BadKey \subseteq Key /\ FirstKey \in Key \ BadKey
    /\ MaxPushes \in Nat /\ MaxFaults \in Nat

VARIABLES
    remote,     \* upstream: the head of every branch, NoKey if there is none
    local,      \* s.repo: refs/heads/* as last fetched
    pc,         \* where a goroutine is in View, or the poller in update
    want,       \* the reference a View asks for
    heads,      \* the references a goroutine is about to fetch
    todo,       \* the references the poller has still to update
    closing,    \* Close has been called
    history,    \* history: every head a branch has had upstream
    unseen,     \* history: a View has fetched a move of the base reference
                \* since the poller last saw an update
    pushes, faults

gitVars == <<remote, local, pc, want, heads, todo, closing, history, unseen,
             pushes, faults>>
vars == <<cacheVars, gitVars>>

Viewer == Caller \ {Poller}

\* NewSnapshotStore: the base reference is cloned, built and added as fixed
\* before the store is returned and polled.  Other branches may or may not
\* exist upstream.
Init ==
    /\ fixed = [r \in Ref |-> IF r = BaseRef THEN FirstKey ELSE NoKey]
    /\ extra = [r \in Ref |-> NoKey]
    /\ position = [r \in Ref |-> 0]
    /\ store = [k \in Key |-> IF k = FirstKey THEN k ELSE NoSnap]
    /\ call = [c \in Caller |-> NoCall]
    /\ remote \in {f \in [Ref -> {FirstKey, NoKey}] : f[BaseRef] = FirstKey}
    /\ local = fixed
    /\ pc = [c \in Caller |-> "idle"]
    /\ want = [c \in Caller |-> NoRef]
    /\ heads = [c \in Caller |-> {}]
    /\ todo = {}
    /\ closing = FALSE
    /\ history = [r \in Ref |-> {remote[r]} \ {NoKey}]
    /\ unseen = FALSE
    /\ pushes = 0 /\ faults = 0

Goto(c, p) == pc' = [pc EXCEPT ![c] = p]

\* Somebody pushes to a branch (perhaps a new one, perhaps with force).
Push(r, k) ==
    /\ pushes < MaxPushes
    /\ k # remote[r]
    /\ remote' = [remote EXCEPT ![r] = k]
    /\ history' = [history EXCEPT ![r] = @ \cup {k}]
    /\ pushes' = pushes + 1
    /\ UNCHANGED <<cacheVars, local, pc, want, heads, todo, closing, unseen, faults>>

\* Somebody deletes a branch that is not the configured one.
DeleteBranch(r) ==
    /\ pushes < MaxPushes
    /\ r # BaseRef /\ remote[r] # NoKey
    /\ remote' = [remote EXCEPT ![r] = NoKey]
    /\ pushes' = pushes + 1
    /\ UNCHANGED <<cacheVars, local, pc, want, heads, todo, closing, history, unseen, faults>>

----------------------------------------------------------------------------
\* fetch, under the mutex.  git reports whether any of the heads has moved
\* (NoErrAlreadyUpToDate otherwise), and refuses heads it does not have.

CanFetch(c) == \A r \in heads[c] : remote[r] # NoKey

\* Mutant of Updated: moves of the base reference go unnoticed.
UpdatedExtraOnly(c) == \E r \in heads[c] : fixed[r] = NoKey /\ local[r] # remote[r]

Updated(c) == \E r \in heads[c] : local[r] # remote[r]

Fetched(c) ==
    local' = [r \in Ref |-> IF r \in heads[c] THEN remote[r] ELSE local[r]]

\* Mutant of FetchFails: View tries again when a head is unknown.
FetchRetries(c) ==
    /\ pc[c] = "fetch"
    /\ \/ ~CanFetch(c) /\ c # Poller /\ Goto(c, "refs") /\ UNCHANGED <<want, faults>>
       \/ /\ \/ c = Poller /\ (closing \/ ~CanFetch(c)) /\ UNCHANGED faults
             \/ faults < MaxFaults /\ faults' = faults + 1
          /\ Goto(c, "idle")
          /\ want' = [want EXCEPT ![c] = NoRef]
    /\ heads' = [heads EXCEPT ![c] = {}]
    /\ UNCHANGED <<cacheVars, remote, local, todo, closing, history, unseen, pushes>>

\* The error return of fetch: an unknown head, no connection, or a context
\* that has been cancelled.
FetchFails(c) ==
    /\ pc[c] = "fetch"
    /\ \/ ~CanFetch(c) /\ UNCHANGED faults
       \/ c = Poller /\ closing /\ UNCHANGED faults
       \/ faults < MaxFaults /\ faults' = faults + 1
    /\ Goto(c, "idle")
    /\ want' = [want EXCEPT ![c] = NoRef]
    /\ heads' = [heads EXCEPT ![c] = {}]
    /\ UNCHANGED <<cacheVars, remote, local, todo, closing, history, unseen, pushes>>

----------------------------------------------------------------------------
\* View, one step per access to shared state.

\* The fast path: the reference is in the cache and its snapshot is served.
ViewHit(v, r) ==
    /\ pc[v] = "idle" /\ call[v] = NoCall
    /\ Hit(r)
    /\ Get(r)
    /\ UNCHANGED gitVars

\* Mutant of ViewMiss: the reference asked for is lost.
ViewMissForgetsWant(v, r) ==
    /\ pc[v] = "idle" /\ call[v] = NoCall
    /\ ~Hit(r)
    /\ Get(r)
    /\ want' = [want EXCEPT ![v] = NoKey]
    /\ Goto(v, "refs")
    /\ UNCHANGED <<remote, local, heads, todo, closing, history, unseen, pushes, faults>>

ViewMiss(v, r) ==
    /\ pc[v] = "idle" /\ call[v] = NoCall
    /\ ~Hit(r)
    /\ Get(r)
    /\ want' = [want EXCEPT ![v] = r]
    /\ Goto(v, "refs")
    /\ UNCHANGED <<remote, local, heads, todo, closing, history, unseen, pushes, faults>>

\* What to fetch: everything the cache tracks, and the reference asked for.
ViewReferences(v) ==
    /\ pc[v] = "refs"
    /\ heads' = [heads EXCEPT ![v] = References \cup {want[v]}]
    /\ Goto(v, "fetch")
    /\ UNCHANGED <<cacheVars, remote, local, want, todo, closing, history, unseen,
                   pushes, faults>>

\* Whether anything was updated is of no interest to View.
ViewFetch(v) ==
    /\ pc[v] = "fetch"
    /\ CanFetch(v)
    /\ Fetched(v)
    /\ unseen' = (unseen \/ local'[BaseRef] # local[BaseRef])
    /\ heads' = [heads EXCEPT ![v] = {}]
    /\ Goto(v, "resolve")
    /\ UNCHANGED <<cacheVars, remote, want, todo, closing, history, pushes, faults>>

\* Mutant of ViewResolve: the base reference is resolved.
ViewResolveBase(v) ==
    /\ pc[v] = "resolve"
    /\ AddOrBuild(v, want[v], local[BaseRef])
    /\ want' = [want EXCEPT ![v] = NoRef]
    /\ Goto(v, "idle")
    /\ UNCHANGED <<remote, local, heads, todo, closing, history, unseen, pushes, faults>>

\* resolve, and the call of AddOrBuild, with which View ends.
ViewResolve(v) ==
    /\ pc[v] = "resolve"
    /\ AddOrBuild(v, want[v], local[want[v]])
    /\ want' = [want EXCEPT ![v] = NoRef]
    /\ Goto(v, "idle")
    /\ UNCHANGED <<remote, local, heads, todo, closing, history, unseen, pushes, faults>>

ViewStep(v) == ViewReferences(v) \/ ViewFetch(v) \/ FetchFails(v) \/ ViewResolve(v)

----------------------------------------------------------------------------
\* Poll and update.

\* The ticker fires: fetch all the cache tracks.
PollTick ==
    /\ pc[Poller] = "idle"
    /\ heads' = [heads EXCEPT ![Poller] = References]
    /\ Goto(Poller, "fetch")
    /\ UNCHANGED <<cacheVars, remote, local, want, todo, closing, history, unseen,
                   pushes, faults>>

\* Nothing updated: the update is over.
UpdateFetch ==
    /\ pc[Poller] = "fetch"
    /\ CanFetch(Poller)
    /\ Fetched(Poller)
    /\ heads' = [heads EXCEPT ![Poller] = {}]
    /\ Goto(Poller, IF Updated(Poller) THEN "list" ELSE "idle")
    /\ unseen' = (unseen /\ ~Updated(Poller))
    /\ UNCHANGED <<cacheVars, remote, want, todo, closing, history, pushes, faults>>

\* The references may have changed since the fetch; they are listed again.
UpdateReferences ==
    /\ pc[Poller] = "list"
    /\ todo' = References
    /\ Goto(Poller, "loop")
    /\ UNCHANGED <<cacheVars, remote, local, want, heads, closing, history, unseen,
                   pushes, faults>>

\* One round of the loop: resolve a reference and call AddOrBuild.
UpdateResolve(r) ==
    /\ pc[Poller] = "loop"
    /\ r \in todo
    /\ todo' = todo \ {r}
    /\ AddOrBuild(Poller, r, local[r])
    /\ UNCHANGED <<remote, local, pc, want, heads, closing, history, unseen, pushes, faults>>

\* Mutant of UpdateEnds: the loop does not leave a cancelled update.
UpdateEndsUnlessClosing ==
    /\ pc[Poller] = "loop"
    /\ todo = {} /\ ~closing
    /\ call[Poller] = NoCall
    /\ Goto(Poller, "idle")
    /\ UNCHANGED <<cacheVars, remote, local, want, heads, todo, closing, history, unseen,
                   pushes, faults>>

UpdateEnds ==
    /\ pc[Poller] = "loop"
    /\ todo = {}
    /\ call[Poller] = NoCall
    /\ Goto(Poller, "idle")
    /\ UNCHANGED <<cacheVars, remote, local, want, heads, todo, closing, history, unseen,
                   pushes, faults>>

PollStep ==
    \/ PollTick \/ UpdateFetch \/ FetchFails(Poller) \/ UpdateReferences
    \/ (\E r \in Ref : UpdateResolve(r)) \/ UpdateEnds

\* Close cancels the poller's context and waits for Poll to return.
Close ==
    /\ ~closing
    /\ closing' = TRUE
    /\ UNCHANGED <<cacheVars, remote, local, pc, want, heads, todo, history, unseen,
                   pushes, faults>>

PollReturns ==
    /\ pc[Poller] = "idle"
    /\ closing
    /\ Goto(Poller, "done")
    /\ UNCHANGED <<cacheVars, remote, local, want, heads, todo, closing, history, unseen,
                   pushes, faults>>

----------------------------------------------------------------------------
\* The steps of AddOrBuild; whether a build fails depends on the commit.
InAddOrBuild(c) ==
    /\ \/ GetByRefAndKey(c)
       \/ call[c].key \notin BadKey /\ Build(c)
       \/ call[c].key \in BadKey /\ BuildFails(c)
       \/ Insert(c)
    /\ UNCHANGED gitVars

Next ==
    \/ \E r \in Ref, k \in Key : Push(r, k)
    \/ \E r \in Ref : DeleteBranch(r)
    \/ \E v \in Viewer :
        \/ \E r \in Ref : ViewHit(v, r) \/ ViewMiss(v, r)
        \/ ViewStep(v)
    \/ PollStep
    \/ Close \/ PollReturns
    \/ \E c \in Caller : InAddOrBuild(c)

\* Goroutines run, the ticker ticks, and of a cancelled context and a tick
\* that are both ready the select does not choose the tick for ever.
Fairness ==
    /\ \A c \in Caller : WF_vars(InAddOrBuild(c))
    /\ \A v \in Viewer : WF_vars(ViewStep(v))
    /\ WF_vars(PollStep)
    /\ SF_vars(PollReturns)

Spec == Init /\ [][Next]_vars /\ Fairness

----------------------------------------------------------------------------
TypeOK ==
    /\ CacheTypeOK
    /\ remote \in [Ref -> Key \cup {NoKey}]
    /\ local \in [Ref -> Key \cup {NoKey}]
    /\ pc \in [Caller -> {"idle", "refs", "fetch", "resolve", "list", "loop", "done"}]
    /\ want \in [Caller -> Ref \cup {NoRef}]
    /\ heads \in [Caller -> SUBSET Ref]
    /\ todo \subseteq Ref
    /\ closing \in BOOLEAN
    /\ history \in [Ref -> SUBSET Key]
    /\ unseen \in BOOLEAN
    /\ pushes \in Nat /\ faults \in Nat

\* What is served for a branch is a commit that was the head of this branch,
\* of no other, however fetches, builds and insertions interleave; and it is
\* never one that could not be built.
ServesOwnHistory ==
    \A r \in References :
        KeyOf(r) \in history[r] /\ Snapshot(r) \in history[r] \ BadKey

\* A View returns, by a hit or through fetch, resolve and build, while others
\* hold the mutex, evict what it looks up, or close the store.
ViewReturns ==
    \A v \in Viewer : pc[v] # "idle" ~> (pc[v] = "idle" /\ call[v] = NoCall)

\* Close returns: the poller leaves its loop.
CloseReturns == closing ~> pc[Poller] = "done"

\* Once pushes and faults are over, the base reference is served at its
\* upstream head, unless that commit cannot be built, the store is being
\* closed, a View has fetched the head before the poller could see it, or a
\* tracked branch is gone: every fetch names it and fails, nothing else can be
\* added to the cache, so it is never evicted and the store stays as it is.
FollowsUnlessFetchedByView ==
    <>[](\/ closing \/ unseen
         \/ \E r \in References : remote[r] = NoKey
         \/ remote[BaseRef] \in BadKey \/ fixed[BaseRef] = remote[BaseRef])

\* "The upstream reference is tracked by polling": once pushes and faults are
\* over, the base reference is served at its upstream head, unless that commit
\* cannot be built or the store is being closed.
BaseFollowsUpstream ==
    <>[](closing \/ remote[BaseRef] \in BadKey \/ fixed[BaseRef] = remote[BaseRef])

=============================================================================
