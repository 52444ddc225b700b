# Flipt: verification of the core

Flipt is a feature-flag server. A client asks what a flag evaluates to for an
entity; the answer comes from flags, segments, rules and rollouts that are kept
either in a database (edited through the API) or in files (read from a
directory, a git repository, an object store or an OCI registry). Around this
core are caches, authentication, background cleanup, audit and reporting.

This directory holds TLA+ modules translated from the Go source, the TLC
configurations that check them on small instances, and TLAPS proofs of the
properties that matter most for instances of any size. `PROJECT.json` maps
every definition to the lines it models and lists runs, mutants, findings,
hazards and theorems.

## Inventory

| part | state | operations | hard part |
|---|---|---|---|
| operation lock (`storage/oplock`) | one row per operation in `operation_lock` | `TryAcquire`: select, then insert or conditional update | several instances, own clocks, lost replies, crashes |
| cleanup (`cleanup`) | the time to sleep until, per goroutine; the authentications in the database | `Run`'s loop, `Shutdown` | drift against the grace period, recovery, back-off, shutdown |
| snapshot cache (`storage/fs/cache.go`) | maps reference → key (fixed, LRU) and key → snapshot | `AddFixed`, `AddOrBuild`, `Get`, `References` | build without a lock, shared keys, eviction |
| git store (`storage/fs/git`, `storage/fs/poll.go`) | the local repository, the snapshot cache | `View`, `update`, `fetch`, `resolve`, `Close` | requests against the poller, who notices an update |
| other declarative stores (`local`, `object`, `oci`) | the current snapshot | `View`, `update` | readers against the replacement |
| snapshot (`storage/fs/snapshot.go`) | immutable | build, lookups, lists | identifiers that change with every build |
| storage cache (`storage/cache`) | cached flags, rules, rollouts | read through, invalidate, create | delete-then-write races, no invalidation of rules, instances |
| evaluation (`server/evaluation`) | none | `Variant`, `Boolean`, `Batch` | several reads of a store that changes; rounding of shares |
| evaluation data (`server/evaluation/data`) | none | `EvaluationSnapshotNamespace` | many reads of a store that changes; agreement with the server's own evaluation |
| SQL store (`storage/sql/common`, `server/namespace.go`) | tables | create, update, delete, order, list | ranks, transactions, validation before the write, namespaces |
| import and export (`ext`) | documents | `Export`, `Import` | a listing of a store that changes, an import that is interrupted |
| authentication (`storage/authn`, `server/authn`) | table or map, a cache with two kinds of entries | create, get, expire, delete, bootstrap, the interceptors | fills racing expiry, two instances bootstrapping |
| authorization (`server/authz`) | policy, data, prepared query | polling, evaluation | replacement under readers |
| audit, analytics, configuration, servers, telemetry | - | - | not modelled, see below |

Calls go from the servers to a store, which is the SQL store behind the storage
cache, or a declarative store over a snapshot cache or a single snapshot. The
cleanup goroutines of all instances share the operation lock and the table of
authentications. The poller of a declarative store runs beside the requests.

What makes the parts correct: an acquisition of the lock has one winner, and
crashes and lost replies neither double nor stop the cleanup; a reference the
snapshot cache tracks can always be served, with its own revision; polling
keeps what is served up to date; a cached flag is out of date only for a
bounded time and for a known reason; an evaluation answers what one
configuration of the flag says, on the server and in a client; ranks order the
rules of a flag; nothing of one namespace leaks into another; what is exported
and imported is what there was; nobody is admitted with a token beyond what it
was granted.

## Modules

`OpLock` is the abstract lock: an entry that changes only by an acquisition
after the previous one has run its duration.

`SqlOpLock` is `oplock/sql`. `pc[i]` walks an instance through `TryAcquire`:
`ReadEntry` (SELECT), `StillAcquired` or `TakeStamp` (the comparison with the
instance's clock, and the time to be written, taken in one reading where the
code reads the clock twice), `InsertEntry` or `AcquireEntry`
(the statement), `RereadEntry`. `StatementFails`, `ReplyLost` and `Crash` are
the faults. Clocks advance independently. One operation is modelled, since the
operations share nothing. The module has no run of its own: its steps are those
of `Cleanup`, whose run checks the refinement and the rate, and its theorems
hold for `LockSpec` with any number of instances.

`Cleanup` extends `SqlOpLock` with the loop of `AuthenticationService.Run`:
`Wake` (the timer), `Backoff` (error), `NotAcquired`, `DeleteAuthentications`,
`DeleteFails`, `Shutdown`, `ContextDone`, `Run`, `CrashAndRun`. An
authentication is represented by its expiry. Clocks drift by at most
`MaxDrift`, which the deployment is assumed to keep within the grace period.

`SnapshotCache` is `fs/cache.go`. `AddOrBuild` is a lookup (read lock), a build
(no lock) and an insertion (write lock), with other goroutines in between. The
LRU is `extra` with a place for every entry; a snapshot is represented by the
key it was built from, so that a wrong snapshot is visible.

`GitStore` extends `SnapshotCache` with `View` (per request), the poller's
`update`, and an upstream repository that others push to. A fetch is one step
under the mutex; it reports whether one of its heads moved, and fails for a
branch that does not exist or has been deleted. References are branches: a hash
as the base reference and the resolution of tags by semantic version are left
out. The history variable `unseen` remembers a move of
the base head that only a View's fetch has reported.

`StorageCache` is `storage/cache`. A value in the database is the number of the
write that put it there. A hit changes nothing and is no action. `overlapped`
is a history variable, per cache: the flags of which a read or a creation ran
between a deletion from the cache and the write behind it, whose deletion
failed, or which were written by way of another cache.

`Evaluation` holds the pure part of the evaluator: the operators of constraints,
segments, rules, buckets, thresholds. A text is known by what the operators ask
of it: what it reads as (a number or `NaN`, a truth value, a date, or nothing), its
prefixes and suffixes, whether it is only white space. `EvaluationServer`
follows one request through its reads of the store (`GetFlag`,
`GetEvaluationRules`, `GetEvaluationDistributions`, `GetEvaluationRollouts`),
each a View of its own, while `Rebuild` replaces snapshots. A request of the
method `Snapshot` is the data server's: the flag is copied part by part, with
the loop over the segments of each rule, for clients that understand several
segments. The two hashes are numbers of the entity. Shares are in hundredths of
a percent, so that the cut to whole buckets is modelled. A flag's configuration
is one of the contents in `MCEvaluationServer`: rules with AND and OR, ALL and
ANY, a 0% share, thirds, shares of more than 100%, a rule without distributions or
without segments, a disabled flag, a damaged segment, a boolean flag, no flag. The
reference the answers are compared with (`Promise`, `Satisfies`) is defined from
the meaning of the configuration and uses none of the evaluator's loops.
`DataAssumption` says which flags and entities there are: rules and rollouts
ranked by their place in the file, finitely many segments and constraints, shares
that are natural numbers, texts that read as one value at most, hashes within
their ranges.

`SqlRanks` is the order of the rules, or of the rollouts, of one flag
(`rule.go`, `rollout.go`): `CountRank` and `Insert` of a creation, `DeleteRow`,
`SelectIds` and `UpdateRank` of a deletion, `UpdateRank` of an ordering,
`ReadPage` of a listing, each a statement. A transaction's writes are invisible
to others until it commits and lock their rows (READ COMMITTED); `Abort` is a
failing statement, a cancelled request or a crash, `BreakDeadlock` the
database's answer to a cycle. `mixed` remembers the requests that may make ranks
collide.

`SqlStore` is the tables, with the foreign keys of the migrations (`Cascade`,
`Acceptable`), and one action for every request that writes them. A transaction
is one step; `DeleteNamespace` of the server, `CreateDistribution`,
`UpdateDistribution` and `GetEvaluationRules` are several. Rules have their ranks,
which `CreateRule` sets, `OrderRules` and `DeleteRule` change and the first query
of `GetEvaluationRules` reads; `updated` remembers for a request what was changed
of which rule since. A constraint has an operator without a value, one that the
schema of the files lists, or one it does not (`Comparison`): the API accepts
`lt`, and lists of dates, and `core/validation/flipt.cue` knows neither.
Identifiers, like the
UUIDs of the code, are given out once. Names, descriptions and attachments are
left out, and with them `UpdateNamespace`.

`Transfer` extends `SqlStore` with `Export` (`ListNamespaces`, `ListFlags`,
`ListRules`, `ListRollouts`, `ListSegments`: a call each, while requests go on)
and `Import` (`DocumentCalls` are its calls in their order, `ImportCall` makes
one, `Interrupt` stops it, `BeginImport` starts it again). `SnapshotOf` is what a
declarative store makes of the same documents, or that it refuses them: for a
segment or a variant that is not there, or for an operator the schema does not list
(`Validated`). Rules are listed by rank and imported with the ranks of their
places. The rest is listed by identifier, which stands for the time of creation;
that two rows of the same time may change places between two pages is left out.

`Authn` is the table of authentications, the cache in front of it, the
interceptors and `Bootstrap`. A request is `CacheGet`, `StoreRead`, `SetToken`,
`SetId`, then `Admit` or `Refuse`; a logout goes on with `ExpireRow`, `IdGet`,
`DeleteToken`, `DeleteId`. Each of these is one access to the cache or the
database and may fail. The histories say for each cache which authentications
had a change of expiry that has returned (`settled`) and which were filled during
one or left behind by a failing access or a dropped entry (`overlap`): an entry of
either kind may go at any time, by its TTL or because the cache is full. The
bootstrap token has the namespace the configured metadata give it (`BootScope`), and
a failing statement keeps an instance from starting.

`MC*` modules give constants, symmetry and the constraints of some runs
(`MCTransfer` is the SQL store with exports and imports, `MCSqlStore` without);
`*_proofs` modules hold the proofs.

## Runs

| run | instance | shows |
|---|---|---|
| `cleanup` | 2 instances, drift 1, 1 fault, crash or shutdown | the lock is implemented and its rate kept, no double run, nothing valid deleted, long expired is deleted, `Shutdown` returns |
| `snapshot_cache` | 4 references, 3 keys, 2 callers, capacity 2 | no dangling reference, no leak, LRU order |
| `git_store` | 3 branches, 3 commits (1 bad), 1 request at a time, the poller, 2 pushes or deletions, 1 failing fetch, capacity 1 | every branch is served from its own history; `View` and `Close` return; the base reference follows upstream, with two exceptions |
| `git_store_stale` | 2 branches, 1 push | finding: it does not once another reference is viewed |
| `storage_cache` | 2 caches, 3 requests, 2 writes, 1 fault, rules included | stale only after an overlap and for no longer than a TTL |
| `evaluation` | 8 contents, 6 entities, 2 references, 1 rebuild, some 300 constraints | answers are what the flag promises, operators mean what they say, shares are fair, torn boolean answers and local evaluation are off only in known ways |
| `evaluation_reference` | no rebuild | finding: rules of the default reference at any reference |
| `evaluation_local` | 1 reference, no rebuild | finding: a client evaluates rules with several segments differently |
| `sql_ranks` | 2 requests at a time of 3, 3 rules or rollouts, orderings of all three, pages of 1 | ranks are distinct, listings complete, deletions keep the order of what remains, requests end |
| `sql_store` | 2 namespaces, 2 flag and 2 segment keys, 2 rules of one flag, 3 requests, 2 clients; 1 request before or during an export, batches of 1 and 2, 1 interrupted import | schema, namespaces, evaluation reads, deletion of namespaces; files agree with the tables or are refused for an operator, imports are faithful, exports end |
| `sql_store_segments` | the same store without exports, one property | finding: a rule with a segment of another namespace |
| `authn` | 2 instances, 1 shared cache, tokens with and without a namespace and a login, 3 targets, times before, at and after the expiry, 2 requests at a time, 2 changes of expiry, 1 fault | admission within the grant, logouts heeded, copies converge, bootstrap |

The bounds: with two acquisitions' worth of time an acquisition, its expiry, a
second one and a loser of each occur; one fault is enough for any single failure
at any step, and the proofs cover any number. Capacity 1 or 2 with more
references than that makes every insertion evict; three keys for four references
make them share. Two pushes let a branch move, or go away, while the first move
is being processed. One rebuild lands between any two reads of a request. The
buckets asked about sit at both ends and on both sides of every boundary of the
configured shares, and `FairShares` goes through all 1000. Three requests on a
flag's ranks give two that overlap and one before or after them. A deletion
among three leaves two, and an ordering of all three is complete, so that it
does not count as `mixed`; `LongListsOnce` leaves out lists of three that repeat
an item. Three requests of `SqlStore` fit two writes between the statements of a
third. An export starts after at most one request and sees at most one
(`MaxTransferRequests`), which is enough to change what any of its later calls
lists; batches of 1 make every listing span pages; `MaxListed` caps the list of
namespaces that an export of all of them would let grow for ever. `BatchMatters`
keeps the states from which no export begins from being counted for every batch
size, `SomethingToCome` goes on from no state in which nothing is left to do,
and `DistributionsByOne` leaves out two requests for distributions at a time,
which meet in no row that either reads. Requests of `Authn` are not bounded in
number, only how many run at a time and how many change an expiry
(`MaxChanges`): a lookup that fills during a logout is followed by any number of
later ones. The constraint `StartedFirst` lets requests come when both instances
are up and one authentication was issued: different authentications meet nowhere
in the cache, except that the configured token may return with a new identifier,
which only the proofs cover. `PairsUnscoped` lets two requests run at a time
only with a token for all namespaces, since what the cache does depends on
neither the token's namespace nor the request's. Times up to 2 with an expiry of
1 let a token be used before, at and after it expires.

`cleanup` switches the deadlock check off: the modelled time ends, and with it
the system. `sql_ranks`, `sql_store`, `sql_store_segments` and `authn` do so
because their bounded numbers of requests, or of authentications and of time,
come to an end. Symmetry is used in `snapshot_cache`, which checks no liveness.

Every property has a mutant, a plausible bug in a mapped definition, that makes
TLC report it.

### Fairness

`Cleanup`: time passes, a timer that is due fires, a statement ends, a cancelled
context is noticed; all weak, as the Go scheduler and the timers justify. Faults
and shutdowns are never forced. `GitStore`: goroutines run and the ticker ticks
(weak); leaving the poll loop is strong, because a `select` over a cancelled
context and a ticker that are both ready picks at random. `StorageCache`:
requests end and every entry reaches its TTL. `SqlRanks`: the database answers a
statement that no lock holds up and breaks deadlocks; nothing forces a failure.
`Authn`: requests run to their end and entries of tokens reach their TTL; that
this is enough depends on a hit leaving the entry as it is, which the mutant of
`CopiesConverge` breaks.
`Transfer`: an export makes its next call. All weak.

## Findings

1. `git_store_stale`: a `View` that misses fetches all tracked references and
   so consumes the update that the poller would have seen.
2. `evaluation_reference`: `Evaluator.Evaluate` drops the request's reference.
3. `evaluation_local`: the data server appends the distributions of a rule, and
   lists the rule, once per segment of the rule. Where the shares do not add up
   to 100%, a client that evaluates by itself gives variants to entities the
   server gives none. For the same reason a rule without segments is not sent,
   while the server matches one that needs all of none.
4. `sql_store_segments`: `UpdateRule` in another namespace than the rule's
   answers "not found" and still leaves the rule with a segment of that
   namespace.

Further behaviour that is easily overlooked; some of it is an exception in a
property, which holds with the exception and not without it:

- `TryAcquire` returns the entry it had read when its conditional update loses,
  not that of the last acquisition (`oplock.go:27`). The cleanup loop tries again
  at once instead of sleeping; `OneCleanupPerAcquisition` holds regardless.
- A tracked branch that is deleted upstream makes every later fetch fail, for all
  references, until the process is started again (`FollowsUnlessFetchedByView`).
- Rules and distributions are read in two Views. After a rebuild in between, with
  the same content, the distributions are not found and a match without a variant
  is answered (`DefaultReferenceKept` is about undisturbed requests).
- Ranks collide after a creation that overlaps another request, a rule created at
  a rank in use, or a partial or repeated list to order (`RanksDistinct`). A
  deletion that is repeated may undo an ordering (`DeletionKeepsOrder`).
- A flag created while its namespace is being deleted goes with it
  (`KnownFlagsSurvive`).
- A constraint with the operator `lt` is accepted, evaluated and exported, but the
  schema of the files has `le` in its place and refuses the file; it refuses lists
  of dates too (`FilesAgree`).
- `NaN` is a number to the evaluator: `neq` holds of it and everything, and none of
  `lt`, `lte`, `gt` and `gte` (`OperatorsAgree`).
- `GetEvaluationRules` sorts by ranks that may be old when `OrderRules` runs between
  its queries, and combines segments by an operator that may be
  (`AnswersCurrentSegments`).
- An export of all namespaces does not end when they are more than a batch, since
  the page token is shadowed (`ExportEnds`). An export fails once a rule has lost
  all its segments. An interrupted import cannot be completed by importing again:
  the first key that is taken is an error (`ImportFaithful` says that it never
  pretends otherwise).
- A logout is undone, for a TTL, by a lookup that read the row before it and fills
  the cache after it, and deleted authentications are admitted until their TTL
  (`JudgedByLatestExpiry`, `CopiesConverge`). With a configured bootstrap token
  all but one of several instances started together fail to start.

## Proofs

All proofs are for arbitrary constants under the named assumptions of the
modules: positive durations and capacities, sentinels outside the sets they are
sentinels for, a drift of the clocks within the grace period, initial tables
that satisfy the schema, caches and profiles of the right types. TLC evaluates
each of them on the runs.

`Cleanup_proofs`, of the lock: `LockTypeCorrect`, `OneWinner`, `WinnerHoldsItsRow`,
`RateIsBounded`, `SqlImplementsLock`. The inductive invariant `LockInv` adds to
the properties that no instance holds an entry newer than the row, that an
entry of the row's version is the row, and that a statement about to be sent
carries a time at or after the end of the entry it was derived from. Without
the last, an UPDATE could be conditional on the right version and still write
too early.

`Cleanup_proofs`, of the loops: `CleanupTypeCorrect`, `CleanupRate`, `CleanupImplementsLock`,
`OneCleanup`, `NothingLiveDeleted`. Every step of the cleanup is one of the lock
or leaves the lock alone (`LockStepsOnly`), so `LockInv`, the rate and the
refinement carry over. `WinnersInv` counts: the winners are a finite set although
the instances need not be, since a step adds one at most. That nothing valid is
deleted rests on `BoundedDrift` and the grace period.

`GitStore_proofs`, of the cache: `CacheTypeCorrect`, `NoReferenceDangles`,
`NoSnapshotLeaks`, `LeastRecentEvicted`. `CacheInv` says that the store holds
exactly the keys some reference points to, each with its own snapshot, that no
reference is both fixed and in the LRU, and that a call past its lookup carries
the snapshot of its key - which is why an eviction between lookup and insertion
does no harm.

`GitStore_proofs`, of the store: `GitTypeCorrect`, `OwnHistoryServed`, `GitUsesCache`,
`GitServesTracked`. The cache's invariant carries over, because View and the
poller call the cache with references and keys of the right kind, which needs
that a goroutine resolves only what was fetched. `HistoryInv` follows a commit
from the upstream head by way of the local head and the call in progress to the
cache: it never leaves the history of its branch.

`StorageCache_proofs`: `TypeCorrect` and `StalenessNeedsOverlap`, for any number
of caches. `OverlapInv` says of a flag outside a cache's `overlapped` that no fill and write of it
are under way together, that a value about to be filled in is the database's,
and that nothing is cached while a write is under way.

`SqlRanks_proofs`: `RanksStayDistinct`, `OrderKeptByDeletion`,
`ListingsComplete`, for any items, requests and page sizes. As long as `mixed` is
false (`CleanInv`), a creation runs alone, open transactions have written rows
that exist and only their own, and a renumbering has in its list every row it can
see, once, and has given those it has passed their positions. That commits keep
ranks distinct needs all of these: the rows a renumbering has not yet written
are exactly those behind its position. For the order of a deletion,
`DeletesInOrder`: nobody commits an ordering while a deletion holds the lock of
its row. For listings, `ListsInOrder`, and that there is only one sequence of the
rows in the order of distinct ranks (`OneOrder`), found by counting the rows in
front of each.

`SqlStore_proofs`: `StoreTypeCorrect`, `NamespacesStaySeparate`, `KnownFlagsKept`,
`CurrentSegmentsAnswered`, for any tables that the schema accepts. `StoreInv` adds
what every request in progress knows: the flags it has counted on are still
there, a namespace about to be deleted has none of them, a rule and a variant
that were validated may be gone but have not come back elsewhere (identifiers are
given out once), and the rules it has read have their operators and ranks but for
those updated since. The proof first shows what every statement does to the tables, in
particular `Cascade`, and then takes the requests one by one. The theorems are
about the `Spec` of `SqlStore`; by `TransferUsesStore` they hold during exports and
imports too.

`Transfer_proofs`: `TransferUsesStore`, `ExportedFilesAgree` and
`ImportIsFaithful`, for any tables,
requests, namespaces and page sizes, from `TransferAssumption`: keys and
identifiers are finitely many, as columns of bounded length are, and identifiers
are ordered. `ExportInv` says of an export that nothing disturbed that each
document written has exactly what its namespace has, and the one being written
what the listing has up to the page token, less the flags of the page that are
still pending. Listings are sets put in an order, so the lemmas before it are about
pages of a sequence (`PageIs`, `NextFlags`) and about rows in the order of their
identifiers (`ByIdLists`) or their ranks (`RankTotal`, `ByRankLists`). `SnapshotOfFull` is the loop of the declarative store
over such documents: every one adds the flags and segments of its namespace and
replaces nothing but by itself, so a namespace may be listed twice. It is refused
exactly when a namespace it has been given has a constraint the schema does not list
(`Listable`, `FullDocValidated`, `AllLoadable`).

The proof for imports is for whatever files an export can write, on a store that
changes or not (`DocInv`: in particular a distribution names at most one variant).
`ImportInv` says of an import under way that the calls left are those after the
first `j`, and that either the target holds exactly the rows of the first `j` calls,
with identifiers in their order (`HasMade`), or a call that is left creates a flag or
a segment whose key is taken (`Doomed`). An attempt that starts over what another one
left is of the second kind, since all a document creates hangs on a flag or a segment
(`Rooted`, `BeginAgain`); it cannot end without an error, and one of the first kind
keeps to it because a call that is not refused adds its own rows and no others
(`CallMakes`, `CallAccepted`). This needs the position of every call in the
concatenation of the documents' calls (`Layout`, `LayoutHolds`): which flag, segment
or rule it is for, and that the parts of each follow it without a gap, so that a
distribution goes to the rule before it. At the end no call is left and the rows are
those of all documents (`Complete`): listed by identifier they are the documents'
lists (`ConstraintsKept`, `VariantsKept`, `RulesKept`, `DistributionsKept`,
`RolloutsKept`), and a rule's segments, which its call found in the target, are those
the snapshot has found by then in this document or earlier ones (`SegmentNamed`). As
every key was accepted once, the snapshot of the documents replaces nothing
(`SnapshotOfOnce`).

`Authn_proofs`: `AuthnTypeCorrect`, `GrantedOnlyAdmitted`, `BootstrapsAlone`,
`LatestExpiryJudges`, for any instances, caches (shared or not), requests and
faults. `CopiesGranted` says of every copy of an authentication - row, cache
entry, request - that it was issued and expires within what was granted, from
which admission follows although copies may be old. `NoneSeen` is the bootstrap's.
The last theorem needs `Invalidation`. An authentication has one token wherever it
is kept (`OneToken`), so deleting one entry deletes every copy in the cache; a copy
has the entry by identifier that leads to it, or a lookup that is about to write
it, or is noted as left behind (`EntriesNamed`); a lookup never fills during a change unless the overlap is
noted (`Apart`). Hence a change that returns leaves no copy, and what is filled
later agrees with the row (`EntriesAgree`, `FillsAgree`, `ChecksAgree`).

`EvaluationServer_proofs`: `EvaluationInvariant`, `ConstraintsMeanWhatTheySay`,
`SharesAreFair`, `DefaultReferencePromised`, `LocalEvaluationPromised`,
`BooleanIsNotTorn`, for any flags, entities, references and rebuilds that satisfy
`ServerAssumption` and `DataAssumption`. The invariant `EvalInv` has three parts
that the properties need and do not state. What a request has read was served
since it began (`ReadMeanwhile`), which is all a torn request can count on; it is
what is served now, if nothing was replaced (`ReadNow`, `OfSnapshot`), which makes
the answer one of a single configuration. And a copy that is half made is what the
loop so far makes of the flag (`CopySound`): a rule is listed once for every
segment that was gone through, with its distributions as often. The rest is about
the evaluator's loops, as lemmas on its operators: the rule it decides by is the
first whose segments match, the running totals of the buckets are the shares cut
to whole buckets, the search among them finds the one distribution that owns a
bucket, and distributions that are repeated past 100% own none
(`OwnerOutcome`, `NobodyIsDue`, `ResponsePromised`). Induction over the length of
a list is had from the well-foundedness of the naturals: the set of lengths for
which a lemma fails has no least member (`LeastExists`, `Inductive`).

Only model-checked: liveness and everything under fairness, which is out of the
prover's reach (`ExpiredIsDeleted`, `ShutdownReturns`, `ViewReturns`,
`CloseReturns`, `FollowsUnlessFetchedByView`, `CachesConverge`, `RequestEnds`,
`ExportEnds`, `CopiesConverge`). Every safety property of the runs has a theorem.
`OneWinnerPerAcquisition` and `WinnerHoldsRow` are proved and no longer part of a
run.

## Not modelled

Login protocols, JWT, the Rego engine, audit sinks, analytics, telemetry,
metrics, configuration, migrations, the command line and the UI keep no state
whose interleavings matter to the core, or are calls into libraries and
services. The largest part of the repository's Go code is generated from the
protocol definitions (`rpc/flipt/**/*.pb.go`, `*.pb.gw.go`, `*_grpc.pb.go`,
`sdk/go/**/*.gen.go`): marshalling and forwarding without behaviour of its own,
so the share of all lines that can be mapped stays small. The in-memory
operation lock and authentication store do each call in one critical section.

Within modelled parts: names, descriptions and attachments; walking and parsing
files, and what their schema asks beyond the operators of constraints (keys and
names, attachments that are scalars, shares of 0% that the encoding drops, rollouts
of a variant flag); versions and encodings of documents; the adaptation of data
snapshots to clients before 1.38, and several flags in one snapshot, which are
copied one after the other into a map of segments they share; batches of several
evaluations, in which one error fails all; the deletion of a namespace behind the
storage cache, which invalidates none of the flags it takes along; hashes and
semantic versions as references of the git store; ranks of rollouts outside
`SqlRanks`; `GetEvaluationRollouts` of the SQL store (one
query); cookies and the other sources of a client token.

## Plan

The authorization engine's polling, and change detection of the object and OCI
stores.
