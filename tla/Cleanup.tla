------------------------------- MODULE Cleanup -------------------------------
(***************************************************************************)
(* The background removal of expired authentications                       *)
(* (internal/cleanup/cleanup.go).  Every instance runs one goroutine per   *)
(* authentication method; the goroutines of one method, one per instance,  *)
(* share the operation lock of SqlOpLock and the table of authentications. *)
(* A goroutine sleeps, tries to acquire the lock for schedule.Interval     *)
(* (the Duration of SqlOpLock), and, when it wins, deletes what has been   *)
(* expired for longer than schedule.GracePeriod by its own clock.          *)
(***************************************************************************)
EXTENDS SqlOpLock, FiniteSets

CONSTANTS
    Auth,                \* authentications of the method
    Absent, Never,       \* not in the table; in the table without an expiry
    Expiry,              \* the expiries authentications are created with
    GracePeriod,         \* schedule.GracePeriod
    MinCleanupInterval,  \* the pause after a failed TryAcquire
    MaxDrift             \* how far one clock may be ahead of another

ASSUME ScheduleAssumption ==
    /\ GracePeriod \in Nat \ {0}
    /\ MinCleanupInterval \in Nat \ {0}
    /\ Expiry \subseteq Nat

\* The deployment's part: clocks agree to within the grace period.
ASSUME DriftAssumption == MaxDrift \in Nat /\ MaxDrift <= GracePeriod

VARIABLES
    acquiredUntil,  \* until when the goroutine of an instance sleeps
    mode,           \* "running", "stopping" (context cancelled), "stopped"
    auths,          \* the table: expiry of every authentication
    cleanups        \* history: how many times DeleteAuthentications was called

cleanupVars == <<acquiredUntil, mode, auths, cleanups>>
vars == <<lockVars, cleanupVars>>

ASSUME SentinelAssumption ==
    Absent \notin Nat /\ Never \notin Nat /\ Absent # Never

Init ==
    /\ LockInit
    /\ acquiredUntil = [i \in Instance |-> 0]
    /\ mode = [i \in Instance |-> "running"]
    /\ auths = [a \in Auth |-> Absent]
    /\ cleanups = 0

\* Time passes for an instance; no clock runs further ahead than MaxDrift.
Advance(i) ==
    /\ \A j \in Instance : clock[i] - clock[j] < MaxDrift
    /\ Tick(i)
    /\ UNCHANGED cleanupVars

\* Mutant of Wake: the timer misses the instant it was set for.
WakeLate(i) ==
    /\ mode[i] # "stopped"
    /\ acquiredUntil[i] = 0 \/ acquiredUntil[i] < clock[i]
    /\ TryAcquire(i)
    /\ UNCHANGED cleanupVars

\* The timer fires and the loop calls TryAcquire.  A select on a cancelled
\* context and a fired timer may still choose the timer.
Wake(i) ==
    /\ mode[i] # "stopped"
    /\ acquiredUntil[i] <= clock[i]
    /\ TryAcquire(i)
    /\ UNCHANGED cleanupVars

InTryAcquire(i) == (LockStep(i) \/ LockFault(i)) /\ UNCHANGED cleanupVars

\* TryAcquire returned an error: pause, unless the sleep target is ahead.
Backoff(i) ==
    /\ pc[i] = "failed"
    /\ acquiredUntil' = [acquiredUntil EXCEPT ![i] =
         IF @ < clock[i] THEN clock[i] + MinCleanupInterval ELSE @]
    /\ Return(i)
    /\ UNCHANGED <<mode, auths, cleanups>>

\* Mutant of NotAcquired: the time since the entry's end is kept for the end.
NotAcquiredSinceEnd(i) ==
    /\ pc[i] = "lost"
    /\ acquiredUntil' = [acquiredUntil EXCEPT ![i] = clock[i] - entry[i].until]
    /\ Return(i)
    /\ UNCHANGED <<mode, auths, cleanups>>

\* The lock is somebody else's: sleep until the entry that was returned ends.
NotAcquired(i) ==
    /\ pc[i] = "lost"
    /\ acquiredUntil' = [acquiredUntil EXCEPT ![i] = entry[i].until]
    /\ Return(i)
    /\ UNCHANGED <<mode, auths, cleanups>>

\* Mutant of Collectable: the grace period is forgotten.
CollectableWithoutGrace(a, i) ==
    auths[a] \notin {Absent, Never} /\ auths[a] < clock[i]

\* DELETE ... WHERE expires_at < now - GracePeriod.
Collectable(a, i) ==
    /\ auths[a] \notin {Absent, Never}
    /\ auths[a] < clock[i] - GracePeriod

\* The lock was acquired: delete, and sleep until the acquisition ends.  A
\* failing DELETE is logged and the loop goes on as if it had succeeded.
DeleteAuthentications(i) ==
    /\ pc[i] = "won"
    /\ acquiredUntil' = [acquiredUntil EXCEPT ![i] = entry[i].until]
    /\ cleanups' = cleanups + 1
    /\ auths' = [a \in Auth |-> IF Collectable(a, i) THEN Absent ELSE auths[a]]
    /\ Return(i)
    /\ UNCHANGED mode

DeleteFails(i) ==
    /\ pc[i] = "won"
    /\ faults < MaxFaults
    /\ faults' = faults + 1
    /\ acquiredUntil' = [acquiredUntil EXCEPT ![i] = entry[i].until]
    /\ cleanups' = cleanups + 1
    /\ Forget(i)
    /\ UNCHANGED <<row, clock, mode, auths>>

\* Shutdown (counted against MaxFaults) cancels the context and then waits for
\* the goroutine, which notices when it is back at its select.
Shutdown(i) ==
    /\ mode[i] = "running"
    /\ faults < MaxFaults
    /\ faults' = faults + 1
    /\ mode' = [mode EXCEPT ![i] = "stopping"]
    /\ UNCHANGED <<row, clock, pc, entry, stamp, acquiredUntil, auths, cleanups>>

\* Mutant of ContextDone: the context is looked at after the sleep only.
ContextDoneAfterSleep(i) ==
    /\ mode[i] = "stopping"
    /\ pc[i] = "idle"
    /\ acquiredUntil[i] <= clock[i]
    /\ mode' = [mode EXCEPT ![i] = "stopped"]
    /\ UNCHANGED <<lockVars, acquiredUntil, auths, cleanups>>

ContextDone(i) ==
    /\ mode[i] = "stopping"
    /\ pc[i] = "idle"
    /\ mode' = [mode EXCEPT ![i] = "stopped"]
    /\ UNCHANGED <<lockVars, acquiredUntil, auths, cleanups>>

\* Run: the first attempt is made at once.
Run(i) ==
    /\ mode[i] = "stopped"
    /\ mode' = [mode EXCEPT ![i] = "running"]
    /\ acquiredUntil' = [acquiredUntil EXCEPT ![i] = clock[i]]
    /\ UNCHANGED <<lockVars, auths, cleanups>>

\* The process dies and is started again.
CrashAndRun(i) ==
    /\ Crash(i)
    /\ mode' = [mode EXCEPT ![i] = "running"]
    /\ acquiredUntil' = [acquiredUntil EXCEPT ![i] = clock[i]]
    /\ UNCHANGED <<auths, cleanups>>

\* A login creates an authentication, which expires later by the clock of
\* the instance that serves it, or never.
CreateAuthentication(i, a, e) ==
    /\ auths[a] = Absent
    /\ e # Never => e > clock[i]
    /\ auths' = [auths EXCEPT ![a] = e]
    /\ UNCHANGED <<lockVars, acquiredUntil, mode, cleanups>>

GoroutineStep(i) ==
    \/ InTryAcquire(i) \/ Backoff(i) \/ NotAcquired(i)
    \/ DeleteAuthentications(i)

Next ==
    \/ \E i \in Instance :
        \/ Advance(i) \/ Wake(i) \/ GoroutineStep(i) \/ DeleteFails(i)
        \/ Shutdown(i) \/ ContextDone(i) \/ Run(i) \/ CrashAndRun(i)
    \/ \E i \in Instance, a \in Auth, e \in Expiry \cup {Never} :
        CreateAuthentication(i, a, e)

\* Time passes, and a goroutine that can run does: timers fire, statements
\* end one way or the other, a cancelled context is noticed.
Fairness == \A i \in Instance :
    /\ WF_vars(Advance(i))
    /\ WF_vars(Wake(i))
    /\ WF_vars(GoroutineStep(i))
    /\ WF_vars(ContextDone(i))

Spec == Init /\ [][Next]_vars /\ Fairness

----------------------------------------------------------------------------
TypeOK ==
    /\ LockTypeOK
    /\ acquiredUntil \in [Instance -> Nat]
    /\ mode \in [Instance -> {"running", "stopping", "stopped"}]
    /\ auths \in [Auth -> Nat \cup {Absent, Never}]
    /\ cleanups \in Nat

\* The clocks agree to within MaxDrift.
BoundedDrift == \A i, j \in Instance : clock[i] - clock[j] <= MaxDrift

\* Between all the instances the cleanup runs at most once per acquisition of
\* the lock: crashes and lost replies may lose a run, nothing doubles one.
OneCleanupPerAcquisition ==
    cleanups + Cardinality({i \in Instance : pc[i] = "won"})
        <= IF row = NoEntry THEN 0 ELSE row.version

\* The grace period covers the drift of the clocks: whatever instance runs
\* the cleanup, it deletes no authentication that another instance's clock
\* still takes for valid.
NoLiveAuthenticationDeleted ==
    [][\A a \in Auth : (auths[a] # Absent /\ auths'[a] = Absent)
          => /\ auths[a] # Never
             /\ \A i \in Instance : auths[a] < clock[i]]_vars

\* An authentication can be collected by every instance's clock.
LongExpired(a) == \A i \in Instance : Collectable(a, i)

\* Nobody will run the cleanup again before the clocks' bound: every instance
\* is stopped or sleeps past it.
PastHorizon ==
    \A i \in Instance : mode[i] = "stopped" \/ acquiredUntil[i] > MaxTime

\* The loop never gets stuck: an authentication that is long expired is
\* deleted, unless the instances are all stopped or sleep past the end of the
\* modelled time.  Failures, crashes, and a row nobody remembers acquiring
\* only delay it.
ExpiredIsDeleted ==
    \A a \in Auth : LongExpired(a) ~> (auths[a] = Absent \/ PastHorizon)

\* Shutdown, which waits for the goroutine, returns.
ShutdownReturns ==
    \A i \in Instance : mode[i] = "stopping" ~> mode[i] # "stopping"

=============================================================================
