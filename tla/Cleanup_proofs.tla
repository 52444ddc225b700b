--------------------------- MODULE Cleanup_proofs ---------------------------
(***************************************************************************)
(* Proofs about the SQL operation lock, for any instances, duration and    *)
(* bounds, and then about the cleanup of expired authentications, for any  *)
(* authentications and schedule, from the invariant of the lock that the   *)
(* goroutines share.                                                       *)
(***************************************************************************)
EXTENDS Cleanup, FiniteSetTheorems, TLAPS

LEMMA WrittenType ==
    ASSUME LockTypeOK, NEW i \in Instance
    PROVE  /\ Written(i) \in Entry
           /\ Written(i).last = stamp[i]
           /\ Written(i).until = stamp[i] + Duration
           /\ entry[i] = NoEntry => Written(i).version = 1
           /\ entry[i] # NoEntry => Written(i).version = entry[i].version + 1
BY DurationAssumption
   DEF LockTypeOK, Written, Lock!Successor, Entry, Lock!LockEntry

LEMMA LockTypeStep == LockTypeOK /\ [LockNext]_lockVars => LockTypeOK'
<1> SUFFICES ASSUME LockTypeOK, [LockNext]_lockVars PROVE LockTypeOK'
    OBVIOUS
<1> USE DEF LockTypeOK
<1>1. CASE UNCHANGED lockVars
    BY <1>1 DEF lockVars
<1>2. ASSUME NEW i \in Instance, Tick(i) PROVE LockTypeOK'
    BY <1>2 DEF Tick
<1>3. ASSUME NEW i \in Instance, TryAcquire(i) PROVE LockTypeOK'
    BY <1>3 DEF TryAcquire, Goto, Place
<1>4. ASSUME NEW i \in Instance, ReadEntry(i) PROVE LockTypeOK'
    BY <1>4 DEF ReadEntry, Goto, Place
<1>5. ASSUME NEW i \in Instance, StillAcquired(i) PROVE LockTypeOK'
    BY <1>5 DEF StillAcquired, Goto, Place
<1>6. ASSUME NEW i \in Instance, TakeStamp(i) PROVE LockTypeOK'
    BY <1>6 DEF TakeStamp, Goto, Place
<1>7. ASSUME NEW i \in Instance, InsertEntry(i) PROVE LockTypeOK'
    BY <1>7, WrittenType DEF InsertEntry, Goto, Place
<1>8. ASSUME NEW i \in Instance, AcquireEntry(i) PROVE LockTypeOK'
    BY <1>8, WrittenType DEF AcquireEntry, Goto, Place
<1>9. ASSUME NEW i \in Instance, RereadEntry(i) PROVE LockTypeOK'
    BY <1>9 DEF RereadEntry, Goto, Place
<1>10. ASSUME NEW i \in Instance, StatementFails(i) PROVE LockTypeOK'
    BY <1>10 DEF StatementFails, Goto, Place
<1>11. ASSUME NEW i \in Instance, ReplyLost(i) PROVE LockTypeOK'
    BY <1>11, WrittenType DEF ReplyLost, Goto, Place
<1>12. ASSUME NEW i \in Instance, Return(i) PROVE LockTypeOK'
    BY <1>12 DEF Return, Forget, Goto, Place
<1>13. ASSUME NEW i \in Instance, Crash(i) PROVE LockTypeOK'
    BY <1>13 DEF Crash, Forget, Goto, Place
<1> QED
    BY <1>1, <1>2, <1>3, <1>4, <1>5, <1>6, <1>7, <1>8, <1>9, <1>10, <1>11,
       <1>12, <1>13 DEF LockNext, LockStep, LockFault

\* Type correctness of the lock: every step of TryAcquire, of its failures and
\* of its callers keeps the row, the clocks and the locals of the calls in
\* their types.
THEOREM LockTypeCorrect == LockSpec => []LockTypeOK
<1>1. LockInit => LockTypeOK
    BY DEF LockInit, LockTypeOK, Place
<1> QED
    BY <1>1, LockTypeStep, PTL DEF LockSpec

----------------------------------------------------------------------------
(***************************************************************************)
(* The inductive invariant.  An entry an instance holds is the row or an   *)
(* older version of it, so the version in the UPDATE's WHERE clause finds  *)
(* the very entry that was read; an instance about to write has seen that  *)
(* entry elapse; a call that returns without an error returns an entry.    *)
(***************************************************************************)
HeldEntries ==
    \A i \in Instance : entry[i] # NoEntry =>
        /\ row # NoEntry
        /\ entry[i] = row \/ entry[i].version < row.version

StampElapsed ==
    \A i \in Instance :
        (pc[i] = "exec" /\ entry[i] # NoEntry) => entry[i].until <= stamp[i]

ResultHasEntry ==
    \A i \in Instance :
        /\ pc[i] \in {"won", "lost"} => entry[i] # NoEntry
        /\ pc[i] = "reread" => row # NoEntry

LockInv ==
    /\ LockTypeOK
    /\ HeldEntries
    /\ StampElapsed
    /\ ResultHasEntry
    /\ OneWinnerPerAcquisition
    /\ AcquisitionRate

\* Any change of the row is an acquisition of the abstract lock.
LEMMA RowChangesByAcquisition ==
    LockInv /\ [LockNext]_lockVars => [Lock!Acquire]_row
<1> SUFFICES ASSUME LockInv, [LockNext]_lockVars, row' # row
             PROVE  Lock!Acquire
    OBVIOUS
<1>1. PICK i \in Instance :
        /\ pc[i] = "exec"
        /\ row' = Written(i)
        /\ IF entry[i] = NoEntry THEN row = NoEntry ELSE RowUnchanged(i)
    BY DEF LockNext, LockStep, LockFault, lockVars, Tick, TryAcquire, ReadEntry,
           StillAcquired, TakeStamp, InsertEntry, AcquireEntry, RereadEntry,
           StatementFails, ReplyLost, Return, Crash, Forget
<1>2. entry[i] = row
    BY <1>1 DEF LockInv, LockTypeOK, HeldEntries, RowUnchanged, Entry,
                Lock!LockEntry
<1>3. row' \in Entry /\ row'.last = stamp[i]
    BY <1>1, WrittenType DEF LockInv
<1>4. row' = Lock!Successor(row, row'.last)
    BY <1>1, <1>2, <1>3 DEF Written
<1>5. row # NoEntry => row.until <= row'.last
    BY <1>1, <1>2, <1>3 DEF LockInv, StampElapsed
<1> QED
    BY <1>3, <1>4, <1>5 DEF Lock!Acquire, Entry

\* An acquisition keeps the rate and has a higher version than all before.
LEMMA AcquisitionKeepsRate ==
    ASSUME LockInv, [Lock!Acquire]_row
    PROVE  /\ AcquisitionRate'
           /\ row # NoEntry => row' # NoEntry /\ row'.version >= row.version
           /\ row' # row => row' # NoEntry
           /\ (row # NoEntry /\ row' # row) => row'.version > row.version
<1> USE DurationAssumption, NoEntryAssumption DEF Entry, Lock!LockEntry
<1>1. CASE row' = row
    BY <1>1 DEF LockInv, AcquisitionRate, LockTypeOK
<1>2. CASE Lock!Acquire /\ row = NoEntry
    <2>1. row'.version = 1 /\ row'.until = row'.last + Duration /\ row' \in Entry
        BY <1>2 DEF Lock!Acquire, Lock!Successor
    <2> QED
        BY <2>1, <1>2 DEF AcquisitionRate
<1>3. CASE Lock!Acquire /\ row # NoEntry
    <2>1. /\ row' \in Entry /\ row \in Entry
          /\ row'.version = row.version + 1
          /\ row'.until = row'.last + Duration
          /\ row.until <= row'.last
        BY <1>3 DEF Lock!Acquire, Lock!Successor, LockInv, LockTypeOK
    <2>2. row.version * Duration <= row.until
        BY <1>3 DEF LockInv, AcquisitionRate
    <2>3. row'.version * Duration = row.version * Duration + Duration
        BY <2>1
    <2>4. row'.version * Duration <= row'.until
        BY <2>1, <2>2, <2>3
    <2> QED
        BY <2>1, <2>4, <1>3 DEF AcquisitionRate
<1> QED
    BY <1>1, <1>2, <1>3

LEMMA LockInvStep == LockInv /\ [LockNext]_lockVars => LockInv'
<1> SUFFICES ASSUME LockInv, [LockNext]_lockVars PROVE LockInv'
    OBVIOUS
<1>t. LockTypeOK /\ LockTypeOK'
    BY LockTypeStep DEF LockInv
<1>r. /\ AcquisitionRate'
      /\ row # NoEntry => row' # NoEntry /\ row'.version >= row.version
      /\ row' # row => row' # NoEntry
      /\ (row # NoEntry /\ row' # row) => row'.version > row.version
    BY RowChangesByAcquisition, AcquisitionKeepsRate
<1> DEFINE Rest == /\ HeldEntries /\ StampElapsed /\ ResultHasEntry
                   /\ OneWinnerPerAcquisition
<1> SUFFICES Rest'
    BY <1>t, <1>r DEF LockInv
<1> USE NoEntryAssumption
    DEF LockInv, HeldEntries, StampElapsed, ResultHasEntry,
        OneWinnerPerAcquisition
<1>1. CASE UNCHANGED lockVars
    BY <1>1 DEF lockVars
<1>2. ASSUME NEW i \in Instance, Tick(i) PROVE Rest'
    BY <1>2 DEF Tick
<1>3. ASSUME NEW i \in Instance, TryAcquire(i) PROVE Rest'
    BY <1>3, <1>t DEF TryAcquire, Goto, LockTypeOK
<1>4. ASSUME NEW i \in Instance, ReadEntry(i) PROVE Rest'
    BY <1>4, <1>t DEF ReadEntry, Goto, LockTypeOK
<1>5. ASSUME NEW i \in Instance, StillAcquired(i) PROVE Rest'
    BY <1>5, <1>t DEF StillAcquired, Goto, LockTypeOK
<1>6. ASSUME NEW i \in Instance, TakeStamp(i) PROVE Rest'
    BY <1>6, <1>t DEF TakeStamp, Goto, LockTypeOK, Entry, Lock!LockEntry
<1>w. ASSUME NEW i \in Instance, pc[i] = "exec", row' = Written(i),
             entry' = [entry EXCEPT ![i] = Written(i)], Goto(i, "won"),
             UNCHANGED stamp,
             IF entry[i] = NoEntry THEN row = NoEntry ELSE RowUnchanged(i)
      PROVE  Rest'
    <2>1. row' # NoEntry /\ entry'[i] = row' /\ row' \in Entry
        BY <1>w, <1>t, WrittenType DEF LockTypeOK
    <2>2. \A j \in Instance \ {i} : entry'[j] = entry[j] /\ pc'[j] = pc[j]
        BY <1>w, <1>t DEF LockTypeOK, Goto
    <2>3. pc'[i] = "won"
        BY <1>w, <1>t DEF LockTypeOK, Goto
    <2>4. row # NoEntry => row'.version > row.version
        BY <1>w, <1>t, <1>r, WrittenType
           DEF RowUnchanged, LockTypeOK, Entry, Lock!LockEntry
    <2>5. \A j \in Instance \ {i} : entry[j] # NoEntry =>
              entry[j].version < row'.version
        BY <2>1, <2>4, <1>t DEF LockTypeOK, Entry, Lock!LockEntry
    <2>6. HeldEntries'
        BY <2>1, <2>2, <2>5
    <2>7. StampElapsed' /\ ResultHasEntry'
        BY <1>w, <1>t, <2>1, <2>2, <2>3
    <2>8. OneWinnerPerAcquisition'
        BY <2>1, <2>2, <2>3, <2>5, <1>t DEF LockTypeOK, Entry, Lock!LockEntry
    <2> QED
        BY <2>6, <2>7, <2>8
<1>7. ASSUME NEW i \in Instance, InsertEntry(i) PROVE Rest'
    <2>1. CASE row = NoEntry
        BY <1>7, <1>w, <2>1 DEF InsertEntry
    <2>2. CASE row # NoEntry
        BY <1>7, <1>t, <2>2 DEF InsertEntry, Goto, LockTypeOK
    <2> QED
        BY <2>1, <2>2
<1>8. ASSUME NEW i \in Instance, AcquireEntry(i) PROVE Rest'
    <2>1. CASE RowUnchanged(i)
        BY <1>8, <1>w, <2>1 DEF AcquireEntry
    <2>2. CASE ~RowUnchanged(i)
        BY <1>8, <1>t, <2>2 DEF AcquireEntry, Goto, LockTypeOK
    <2> QED
        BY <2>1, <2>2
<1>9. ASSUME NEW i \in Instance, RereadEntry(i) PROVE Rest'
    BY <1>9, <1>t DEF RereadEntry, Goto, LockTypeOK
<1>10. ASSUME NEW i \in Instance, StatementFails(i) PROVE Rest'
    BY <1>10, <1>t DEF StatementFails, Goto, LockTypeOK
<1>11. ASSUME NEW i \in Instance, ReplyLost(i) PROVE Rest'
    <2>1. row' # NoEntry
        BY <1>11, <1>t, WrittenType DEF ReplyLost
    <2>2. row # NoEntry => row'.version > row.version
        BY <1>11, <1>t, <1>r, WrittenType
           DEF ReplyLost, RowUnchanged, LockTypeOK, Entry, Lock!LockEntry
    <2>3. \A j \in Instance : entry'[j] # NoEntry =>
              entry'[j].version < row'.version
        BY <1>11, <2>1, <2>2, <1>t
           DEF ReplyLost, LockTypeOK, Entry, Lock!LockEntry
    <2>4. HeldEntries'
        BY <2>1, <2>3
    <2>5. StampElapsed' /\ ResultHasEntry' /\ OneWinnerPerAcquisition'
        BY <1>11, <1>t, <2>1 DEF ReplyLost, Goto, LockTypeOK
    <2> QED
        BY <2>4, <2>5
<1>12. ASSUME NEW i \in Instance, Forget(i), UNCHANGED row PROVE Rest'
    BY <1>12, <1>t DEF Forget, Goto, LockTypeOK
<1> QED
    <2> HIDE DEF Rest
    <2> QED
    BY <1>1, <1>2, <1>3, <1>4, <1>5, <1>6, <1>7, <1>8, <1>9, <1>10, <1>11,
       <1>12 DEF LockNext, LockStep, LockFault, Return, Crash

LEMMA LockInvariance == LockSpec => []LockInv
<1>1. LockInit => LockInv
    BY DEF LockInit, LockInv, LockTypeOK, Place, HeldEntries, StampElapsed,
           ResultHasEntry, OneWinnerPerAcquisition, AcquisitionRate
<1> QED
    BY <1>1, LockInvStep, PTL DEF LockSpec

\* Of the instances that race for an acquisition, by INSERT or by UPDATE, at
\* most one is told that it won it.
THEOREM OneWinner == LockSpec => []OneWinnerPerAcquisition
<1>1. LockInv => OneWinnerPerAcquisition
    BY DEF LockInv
<1> QED
    BY <1>1, LockInvariance, PTL

\* The entry TryAcquire hands to a winner is the row it wrote.
THEOREM WinnerHoldsItsRow == LockSpec => []WinnerHoldsRow
<1>1. LockInv => WinnerHoldsRow
    BY DEF LockInv, LockTypeOK, HeldEntries, ResultHasEntry, WinnerHoldsRow,
           Entry, Lock!LockEntry
<1> QED
    BY <1>1, LockInvariance, PTL

\* n acquisitions take at least n durations of recorded time.
THEOREM RateIsBounded == LockSpec => []AcquisitionRate
<1>1. LockInv => AcquisitionRate
    BY DEF LockInv
<1> QED
    BY <1>1, LockInvariance, PTL

\* The row in operation_lock implements the abstract operation lock: between
\* any number of instances with any clocks it changes only by an acquisition
\* that comes after the previous one has elapsed.
THEOREM SqlImplementsLock == LockSpec => ImplementsLock
<1>1. LockInit => Lock!Init
    BY DEF LockInit, Lock!Init
<1> QED
    BY <1>1, RowChangesByAcquisition, LockInvariance, PTL
       DEF LockSpec, ImplementsLock, Lock!Spec

-----------------------------------------------------------------------------
(* The cleanup.                                                            *)

Winners == {i \in Instance : pc[i] = "won"}

\* What the lock sees of the cleanup: steps of its own, and the counting of a
\* shutdown among the faults.
LEMMA LockStepsOnly ==
    ASSUME [Next]_vars
    PROVE  \/ [LockNext]_lockVars
           \/ faults' = faults + 1 /\ UNCHANGED <<row, clock, pc, entry, stamp>>
<1> USE DEF LockNext
<1>1. CASE UNCHANGED vars
    BY <1>1 DEF vars
<1>2. ASSUME NEW i \in Instance, Advance(i) \/ Wake(i)
      PROVE  LockNext
    BY <1>2 DEF Advance, Wake
<1>3. ASSUME NEW i \in Instance, GoroutineStep(i)
      PROVE  LockNext
    BY <1>3 DEF GoroutineStep, InTryAcquire, Backoff, NotAcquired,
                DeleteAuthentications
<1>4. ASSUME NEW i \in Instance, DeleteFails(i)
      PROVE  LockNext
    BY <1>4 DEF DeleteFails, Crash
<1>5. ASSUME NEW i \in Instance, CrashAndRun(i)
      PROVE  LockNext
    BY <1>5 DEF CrashAndRun
<1>6. ASSUME NEW i \in Instance, ContextDone(i) \/ Run(i)
      PROVE  UNCHANGED lockVars
    BY <1>6 DEF ContextDone, Run
<1>7. ASSUME NEW i \in Instance, NEW a \in Auth, NEW e \in Expiry \cup {Never},
             CreateAuthentication(i, a, e)
      PROVE  UNCHANGED lockVars
    BY <1>7 DEF CreateAuthentication
<1>8. ASSUME NEW i \in Instance, Shutdown(i)
      PROVE  faults' = faults + 1 /\ UNCHANGED <<row, clock, pc, entry, stamp>>
    BY <1>8 DEF Shutdown
<1> QED
    BY <1>1, <1>2, <1>3, <1>4, <1>5, <1>6, <1>7, <1>8 DEF Next

LEMMA LockInvKept == LockInv /\ [Next]_vars => LockInv'
<1> SUFFICES ASSUME LockInv, [Next]_vars PROVE LockInv'
    OBVIOUS
<1>1. CASE [LockNext]_lockVars
    BY <1>1, LockInvStep
<1>2. CASE faults' = faults + 1 /\ UNCHANGED <<row, clock, pc, entry, stamp>>
    BY <1>2 DEF LockInv, LockTypeOK, HeldEntries, StampElapsed, ResultHasEntry,
                OneWinnerPerAcquisition, AcquisitionRate
<1> QED
    BY <1>1, <1>2, LockStepsOnly

LEMMA CleanupLockInvariance == Spec => []LockInv
<1>1. Init => LockInv
    BY DEF Init, LockInit, LockInv, LockTypeOK, Place, HeldEntries, StampElapsed,
           ResultHasEntry, OneWinnerPerAcquisition, AcquisitionRate
<1> QED
    BY <1>1, LockInvKept, PTL DEF Spec

\* The goroutines that use the lock, crash and are shut down keep its rate.
THEOREM CleanupRate == Spec => []AcquisitionRate
<1>1. LockInv => AcquisitionRate
    BY DEF LockInv
<1> QED
    BY <1>1, CleanupLockInvariance, PTL

\* Under the cleanup, too, the row is the abstract operation lock.
THEOREM CleanupImplementsLock == Spec => ImplementsLock
<1>1. Init => Lock!Init
    BY DEF Init, LockInit, Lock!Init
<1>2. LockInv /\ [Next]_vars => [Lock!Acquire]_row
    <2> SUFFICES ASSUME LockInv, [Next]_vars PROVE [Lock!Acquire]_row
        OBVIOUS
    <2> QED
        BY LockStepsOnly, RowChangesByAcquisition
<1> QED
    BY <1>1, <1>2, CleanupLockInvariance, PTL DEF Spec, ImplementsLock, Lock!Spec

----------------------------------------------------------------------------
LEMMA TypeStep == LockInv /\ TypeOK /\ [Next]_vars => TypeOK'
<1> SUFFICES ASSUME LockInv, TypeOK, [Next]_vars PROVE TypeOK'
    OBVIOUS
<1>l. LockTypeOK'
    BY LockInvKept DEF LockInv
<1>t. LockTypeOK
    BY DEF TypeOK
<1> SUFFICES /\ acquiredUntil' \in [Instance -> Nat]
             /\ mode' \in [Instance -> {"running", "stopping", "stopped"}]
             /\ auths' \in [Auth -> Nat \cup {Absent, Never}]
             /\ cleanups' \in Nat
    BY <1>l DEF TypeOK
<1> USE DEF TypeOK
<1>1. CASE UNCHANGED cleanupVars
    BY <1>1 DEF cleanupVars
<1>e. ASSUME NEW i \in Instance, pc[i] \in {"won", "lost"}
      PROVE  entry[i].until \in Nat
    BY <1>e, <1>t DEF LockInv, ResultHasEntry, LockTypeOK, Entry, Lock!LockEntry
<1>2. ASSUME NEW i \in Instance, Backoff(i)
      PROVE  acquiredUntil' \in [Instance -> Nat] /\ UNCHANGED <<mode, auths, cleanups>>
    BY <1>2, <1>t, ScheduleAssumption DEF Backoff, LockTypeOK
<1>3. ASSUME NEW i \in Instance, NotAcquired(i)
      PROVE  acquiredUntil' \in [Instance -> Nat] /\ UNCHANGED <<mode, auths, cleanups>>
    BY <1>3, <1>e DEF NotAcquired
<1>4. ASSUME NEW i \in Instance, DeleteAuthentications(i)
      PROVE  /\ acquiredUntil' \in [Instance -> Nat] /\ UNCHANGED mode
             /\ auths' \in [Auth -> Nat \cup {Absent, Never}] /\ cleanups' \in Nat
    BY <1>4, <1>e DEF DeleteAuthentications
<1>5. ASSUME NEW i \in Instance, DeleteFails(i)
      PROVE  /\ acquiredUntil' \in [Instance -> Nat] /\ UNCHANGED <<mode, auths>>
             /\ cleanups' \in Nat
    BY <1>5, <1>e DEF DeleteFails
<1>6. ASSUME NEW i \in Instance, Shutdown(i) \/ ContextDone(i)
      PROVE  /\ mode' \in [Instance -> {"running", "stopping", "stopped"}]
             /\ UNCHANGED <<acquiredUntil, auths, cleanups>>
    BY <1>6 DEF Shutdown, ContextDone
<1>7. ASSUME NEW i \in Instance, Run(i) \/ CrashAndRun(i)
      PROVE  /\ mode' \in [Instance -> {"running", "stopping", "stopped"}]
             /\ acquiredUntil' \in [Instance -> Nat]
             /\ UNCHANGED <<auths, cleanups>>
    BY <1>7, <1>t DEF Run, CrashAndRun, LockTypeOK
<1>8. ASSUME NEW i \in Instance, NEW a \in Auth, NEW e \in Expiry \cup {Never},
             CreateAuthentication(i, a, e)
      PROVE  /\ auths' \in [Auth -> Nat \cup {Absent, Never}]
             /\ UNCHANGED <<acquiredUntil, mode, cleanups>>
    BY <1>8, ScheduleAssumption DEF CreateAuthentication
<1> QED
    BY <1>1, <1>2, <1>3, <1>4, <1>5, <1>6, <1>7, <1>8
       DEF Next, vars, Advance, Wake, GoroutineStep, InTryAcquire

\* Type correctness: in particular a goroutine always sleeps until a time, since
\* TryAcquire returns an entry whenever it returns without an error.
THEOREM CleanupTypeCorrect == Spec => []TypeOK
<1>1. Init => TypeOK
    BY DEF Init, LockInit, TypeOK, LockTypeOK, Place
<1> QED
    BY <1>1, TypeStep, CleanupLockInvariance, PTL DEF Spec

----------------------------------------------------------------------------
\* How a step changes the set of those who have won and not yet cleaned up.
WonOne(i) ==
    /\ i \notin Winners /\ Winners' = Winners \cup {i} /\ UNCHANGED cleanups
    /\ row' # NoEntry
    /\ row'.version = IF row = NoEntry THEN 1 ELSE row.version + 1

CleanedUp(i) ==
    i \in Winners /\ Winners' = Winners \ {i} /\ cleanups' = cleanups + 1 /\ UNCHANGED row

LostOne(i) == Winners' = Winners \ {i} /\ UNCHANGED <<row, cleanups>>

LostReply ==
    /\ Winners' = Winners /\ UNCHANGED cleanups
    /\ row' # NoEntry
    /\ row # NoEntry => row'.version > row.version

NoChange == Winners' = Winners /\ UNCHANGED <<row, cleanups>>

LEMMA WinnersStep ==
    ASSUME LockInv, [Next]_vars
    PROVE  \/ NoChange \/ LostReply
           \/ \E i \in Instance : WonOne(i) \/ CleanedUp(i) \/ LostOne(i)
<1>t. LockTypeOK
    BY DEF LockInv
<1>n. ASSUME UNCHANGED pc, UNCHANGED row, UNCHANGED cleanups PROVE NoChange
    BY <1>n DEF NoChange, Winners
<1>g. ASSUME NEW i \in Instance, NEW p \in Place \ {"won"}, Goto(i, p), pc[i] # "won",
             UNCHANGED <<row, cleanups>>
      PROVE  NoChange
    BY <1>g, <1>t DEF Goto, NoChange, Winners, LockTypeOK
<1>1. CASE UNCHANGED vars
    BY <1>1, <1>n DEF vars, lockVars, cleanupVars
<1>2. ASSUME NEW i \in Instance, Advance(i) \/ Shutdown(i) \/ ContextDone(i) \/ Run(i)
      PROVE  NoChange
    BY <1>2, <1>n DEF Advance, Tick, Shutdown, ContextDone, Run, cleanupVars, lockVars
<1>3. ASSUME NEW i \in Instance, NEW a \in Auth, NEW e \in Expiry \cup {Never},
             CreateAuthentication(i, a, e)
      PROVE  NoChange
    BY <1>3, <1>n DEF CreateAuthentication, lockVars
<1>4. ASSUME NEW i \in Instance, Wake(i) PROVE NoChange
    BY <1>4, <1>g DEF Wake, TryAcquire, cleanupVars, Place
<1>w. ASSUME NEW i \in Instance, pc[i] = "exec", row' = Written(i), Goto(i, "won"),
             UNCHANGED cleanups,
             IF entry[i] = NoEntry THEN row = NoEntry ELSE RowUnchanged(i)
      PROVE  WonOne(i)
    <2>1. Winners' = Winners \cup {i} /\ i \notin Winners
        BY <1>w, <1>t DEF Winners, Goto, LockTypeOK
    <2>2. row' \in Entry /\ row' # NoEntry
        BY <1>w, <1>t, WrittenType, NoEntryAssumption
    <2>3. row'.version = IF row = NoEntry THEN 1 ELSE row.version + 1
        BY <1>w, <1>t, WrittenType DEF RowUnchanged
    <2> QED
        BY <1>w, <2>1, <2>2, <2>3 DEF WonOne
<1>5. ASSUME NEW i \in Instance, LockStep(i), UNCHANGED cleanups
      PROVE  NoChange \/ WonOne(i)
    <2>1. CASE ReadEntry(i) \/ StillAcquired(i) \/ TakeStamp(i) \/ RereadEntry(i)
        BY <2>1, <1>5, <1>g DEF ReadEntry, StillAcquired, TakeStamp, RereadEntry, Place
    <2>2. CASE InsertEntry(i)
        BY <2>2, <1>5, <1>g, <1>w DEF InsertEntry, Place
    <2>3. CASE AcquireEntry(i)
        BY <2>3, <1>5, <1>g, <1>w DEF AcquireEntry, Place
    <2> QED
        BY <2>1, <2>2, <2>3, <1>5 DEF LockStep
<1>6. ASSUME NEW i \in Instance, StatementFails(i), UNCHANGED cleanups
      PROVE  NoChange
    BY <1>6, <1>g DEF StatementFails, Place
<1>7. ASSUME NEW i \in Instance, ReplyLost(i), UNCHANGED cleanups
      PROVE  LostReply
    <2>1. Winners' = Winners
        BY <1>7, <1>t DEF ReplyLost, Goto, Winners, LockTypeOK
    <2>2. row' \in Entry /\ row' # NoEntry
        BY <1>7, <1>t, WrittenType, NoEntryAssumption DEF ReplyLost
    <2>3. row # NoEntry => row'.version > row.version
        BY <1>7, <1>t, WrittenType DEF ReplyLost, RowUnchanged, LockTypeOK, Entry,
                                       Lock!LockEntry
    <2> QED
        BY <1>7, <2>1, <2>2, <2>3 DEF LostReply
<1>8. ASSUME NEW i \in Instance, Backoff(i) \/ NotAcquired(i)
      PROVE  NoChange
    BY <1>8, <1>g DEF Backoff, NotAcquired, Return, Forget, Place
<1>9. ASSUME NEW i \in Instance, DeleteAuthentications(i) \/ DeleteFails(i)
      PROVE  CleanedUp(i)
    BY <1>9, <1>t DEF DeleteAuthentications, DeleteFails, Return, Forget, Goto, CleanedUp,
                      Winners, LockTypeOK
<1>10. ASSUME NEW i \in Instance, CrashAndRun(i)
       PROVE  LostOne(i)
    BY <1>10, <1>t DEF CrashAndRun, Crash, Forget, Goto, LostOne, Winners, LockTypeOK
<1> QED
    BY <1>1, <1>2, <1>3, <1>4, <1>5, <1>6, <1>7, <1>8, <1>9, <1>10
       DEF Next, GoroutineStep, InTryAcquire, LockFault, cleanupVars

\* The set of winners needs no bound on the instances to be finite: a step adds
\* one at most.
WinnersInv == IsFiniteSet(Winners) /\ OneCleanupPerAcquisition

LEMMA WinnersInvStep ==
    LockInv /\ TypeOK /\ WinnersInv /\ [Next]_vars => WinnersInv'
<1> SUFFICES ASSUME LockInv, TypeOK, WinnersInv, [Next]_vars PROVE WinnersInv'
    OBVIOUS
<1> DEFINE version == IF row = NoEntry THEN 0 ELSE row.version
<1>v. version \in Nat /\ cleanups \in Nat
    BY DEF TypeOK, LockTypeOK, Entry, Lock!LockEntry
<1>v2. version' \in Nat
    BY LockInvKept DEF LockInv, LockTypeOK, Entry, Lock!LockEntry
<1>c. Cardinality(Winners) \in Nat /\ cleanups + Cardinality(Winners) <= version
    BY FS_CardinalityType DEF WinnersInv, OneCleanupPerAcquisition, Winners
<1>f. IsFiniteSet(Winners)
    BY DEF WinnersInv
<1> SUFFICES IsFiniteSet(Winners') /\ cleanups' + Cardinality(Winners') <= version'
    BY DEF WinnersInv, OneCleanupPerAcquisition, Winners
<1>1. CASE NoChange
    BY <1>1, <1>c, <1>f DEF NoChange
<1>2. CASE LostReply
    BY <1>2, <1>c, <1>f, <1>v, <1>v2 DEF LostReply
<1>3. ASSUME NEW i \in Instance, WonOne(i)
      PROVE  IsFiniteSet(Winners') /\ cleanups' + Cardinality(Winners') <= version'
    <2>1. IsFiniteSet(Winners') /\ Cardinality(Winners') = Cardinality(Winners) + 1
        BY <1>3, <1>f, FS_AddElement DEF WonOne
    <2>2. version' = version + 1 /\ cleanups' = cleanups
        BY <1>3, <1>v DEF WonOne
    <2> QED
        BY <2>1, <2>2, <1>c, <1>v
<1>4. ASSUME NEW i \in Instance, CleanedUp(i)
      PROVE  IsFiniteSet(Winners') /\ cleanups' + Cardinality(Winners') <= version'
    <2>1. IsFiniteSet(Winners') /\ Cardinality(Winners') = Cardinality(Winners) - 1
        BY <1>4, <1>f, FS_RemoveElement DEF CleanedUp
    <2>2. version' = version /\ cleanups' = cleanups + 1
        BY <1>4 DEF CleanedUp
    <2> QED
        BY <2>1, <2>2, <1>c, <1>v
<1>5. ASSUME NEW i \in Instance, LostOne(i)
      PROVE  IsFiniteSet(Winners') /\ cleanups' + Cardinality(Winners') <= version'
    <2>1. IsFiniteSet(Winners') /\ Cardinality(Winners') <= Cardinality(Winners)
        BY <1>5, <1>f, FS_Subset DEF LostOne
    <2>2. Cardinality(Winners') \in Nat
        BY <2>1, FS_CardinalityType
    <2>3. version' = version /\ cleanups' = cleanups
        BY <1>5 DEF LostOne
    <2> QED
        BY <2>1, <2>2, <2>3, <1>c, <1>v
<1> QED
    BY <1>1, <1>2, <1>3, <1>4, <1>5, WinnersStep

\* Between any number of instances, through crashes, lost replies, failing
\* deletions and shutdowns, DeleteAuthentications is called at most once for an
\* acquisition of the lock.
THEOREM OneCleanup == Spec => []OneCleanupPerAcquisition
<1>1. Init => WinnersInv
    <2> SUFFICES ASSUME Init PROVE WinnersInv
        OBVIOUS
    <2>1. Winners = {}
        BY DEF Init, LockInit, Winners
    <2>2. IsFiniteSet(Winners) /\ Cardinality(Winners) = 0
        BY <2>1, FS_EmptySet
    <2> QED
        BY <2>2 DEF Init, LockInit, WinnersInv, OneCleanupPerAcquisition, Winners
<1>2. WinnersInv => OneCleanupPerAcquisition
    BY DEF WinnersInv
<1> QED
    BY <1>1, <1>2, WinnersInvStep, CleanupLockInvariance, CleanupTypeCorrect, PTL DEF Spec

----------------------------------------------------------------------------
LEMMA DriftStep == TypeOK /\ BoundedDrift /\ [Next]_vars => BoundedDrift'
<1> SUFFICES ASSUME TypeOK, BoundedDrift, [Next]_vars PROVE BoundedDrift'
    OBVIOUS
<1>1. ASSUME NEW i \in Instance, Advance(i) PROVE BoundedDrift'
    BY <1>1, DriftAssumption DEF Advance, Tick, TypeOK, LockTypeOK, BoundedDrift
<1>2. ASSUME UNCHANGED clock PROVE BoundedDrift'
    BY <1>2 DEF BoundedDrift
<1> QED
    BY <1>1, <1>2 DEF Next, vars, lockVars, Wake, GoroutineStep, InTryAcquire, LockStep,
       LockFault, Backoff, NotAcquired, DeleteAuthentications, DeleteFails, Shutdown,
       ContextDone, Run, CrashAndRun, CreateAuthentication, TryAcquire, ReadEntry,
       StillAcquired, TakeStamp, InsertEntry, AcquireEntry, RereadEntry, StatementFails,
       ReplyLost, Return, Crash

\* The grace period makes up for the drift of the clocks: an authentication that
\* the cleanup deletes has expired by the clock of every instance, not only by
\* that of the instance that deletes it.
THEOREM NothingLiveDeleted == Spec => NoLiveAuthenticationDeleted
<1> DEFINE Deletes ==
        \A a \in Auth : (auths[a] # Absent /\ auths'[a] = Absent)
          => /\ auths[a] # Never
             /\ \A i \in Instance : auths[a] < clock[i]
<1>1. Init => BoundedDrift
    BY DriftAssumption DEF Init, LockInit, BoundedDrift
<1>2. TypeOK /\ BoundedDrift /\ [Next]_vars => [Deletes]_vars
    <2> SUFFICES ASSUME TypeOK, BoundedDrift, Next PROVE Deletes
        OBVIOUS
    <2>1. ASSUME UNCHANGED auths PROVE Deletes
        BY <2>1
    <2>2. ASSUME NEW i \in Instance, NEW a \in Auth, NEW e \in Expiry \cup {Never},
                 CreateAuthentication(i, a, e)
          PROVE  Deletes
        BY <2>2, ScheduleAssumption, SentinelAssumption DEF CreateAuthentication, TypeOK
    <2>3. ASSUME NEW i \in Instance, DeleteAuthentications(i) PROVE Deletes
        <3> SUFFICES ASSUME NEW a \in Auth, auths[a] # Absent, auths'[a] = Absent,
                            NEW j \in Instance
                     PROVE  auths[a] # Never /\ auths[a] < clock[j]
            OBVIOUS
        <3>1. Collectable(a, i)
            BY <2>3 DEF DeleteAuthentications
        <3>2. /\ auths[a] \in Nat /\ auths[a] # Never
              /\ auths[a] < clock[i] - GracePeriod
            BY <3>1 DEF Collectable, TypeOK
        <3>3. clock[i] \in Nat /\ clock[j] \in Nat /\ clock[i] - clock[j] <= MaxDrift
            BY DEF TypeOK, LockTypeOK, BoundedDrift
        <3> QED
            BY <3>2, <3>3, DriftAssumption, ScheduleAssumption
    <2> HIDE DEF Deletes
    <2> QED
        BY <2>1, <2>2, <2>3 DEF Next, Advance, Wake, GoroutineStep, InTryAcquire, Backoff,
           NotAcquired, DeleteFails, Shutdown, ContextDone, Run, CrashAndRun, cleanupVars
<1> QED
    BY <1>1, <1>2, DriftStep, CleanupTypeCorrect, PTL
       DEF Spec, NoLiveAuthenticationDeleted

=============================================================================
