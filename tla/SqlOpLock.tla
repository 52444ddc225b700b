------------------------------ MODULE SqlOpLock ------------------------------
(***************************************************************************)
(* The operation lock kept in the table operation_lock and shared by all   *)
(* the Flipt instances of a deployment                                     *)
(* (internal/storage/oplock/sql/sql.go).  TryAcquire is not one            *)
(* transaction: an instance reads the row, looks at its own clock, and     *)
(* then inserts or conditionally updates the row; the steps of other       *)
(* instances, failures and crashes fall in between.  The clocks of the     *)
(* instances advance independently of each other.                          *)
(***************************************************************************)
EXTENDS Integers

CONSTANTS
    Instance,   \* the Flipt instances sharing the database
    Duration,   \* the interval every instance asks the lock for
    NoEntry,    \* no row (in the table), no entry (in an instance)
    MaxTime,    \* bound: the clocks stop here
    MaxFaults   \* bound: failed calls, lost replies and crashes

\* The configuration refuses a cleanup interval that is not positive.
ASSUME DurationAssumption == Duration \in Nat \ {0}
ASSUME BoundsAssumption == MaxTime \in Nat /\ MaxFaults \in Nat

VARIABLES
    row,        \* the row of the operation in operation_lock
    clock,      \* time.Now() of every instance
    pc,         \* where every instance is in TryAcquire
    entry,      \* the variable entry of TryAcquire
    stamp,      \* the variable now of acquireEntry / insertEntry
    faults      \* how many faults have happened

lockVars == <<row, clock, pc, entry, stamp, faults>>

\* What the service promises, with the row as the lock's entry.
Lock == INSTANCE OpLock WITH entry <- row

Entry == Lock!LockEntry

ASSUME NoEntryAssumption == NoEntry \notin Entry

Place == {"idle", "read", "stamp", "exec", "reread", "won", "lost", "failed"}

LockInit ==
    /\ row = NoEntry
    /\ clock = [i \in Instance |-> 0]
    /\ pc = [i \in Instance |-> "idle"]
    /\ entry = [i \in Instance |-> NoEntry]
    /\ stamp = [i \in Instance |-> 0]
    /\ faults = 0

Goto(i, p) == pc' = [pc EXCEPT ![i] = p]

Tick(i) ==
    /\ clock[i] < MaxTime
    /\ clock' = [clock EXCEPT ![i] = @ + 1]
    /\ UNCHANGED <<row, pc, entry, stamp, faults>>

\* TryAcquire is called.
TryAcquire(i) ==
    /\ pc[i] = "idle"
    /\ Goto(i, "read")
    /\ UNCHANGED <<row, clock, entry, stamp, faults>>

\* SELECT ... WHERE operation = op; no row is ErrNotFound.
ReadEntry(i) ==
    /\ pc[i] = "read"
    /\ entry' = [entry EXCEPT ![i] = row]
    /\ Goto(i, "stamp")
    /\ UNCHANGED <<row, clock, stamp, faults>>

\* The entry's duration has not elapsed by this instance's clock.
StillAcquired(i) ==
    /\ pc[i] = "stamp"
    /\ entry[i] # NoEntry
    /\ clock[i] < entry[i].until
    /\ Goto(i, "lost")
    /\ UNCHANGED <<row, clock, entry, stamp, faults>>

\* Mutant of TakeStamp: the elapsed duration is not checked.
TakeStampUnchecked(i) ==
    /\ pc[i] = "stamp"
    /\ stamp' = [stamp EXCEPT ![i] = clock[i]]
    /\ Goto(i, "exec")
    /\ UNCHANGED <<row, clock, entry, faults>>

\* There is no entry, or it has elapsed: the time the statement is about to
\* write is taken from this instance's clock before the statement is sent.
TakeStamp(i) ==
    /\ pc[i] = "stamp"
    /\ entry[i] # NoEntry => clock[i] >= entry[i].until
    /\ stamp' = [stamp EXCEPT ![i] = clock[i]]
    /\ Goto(i, "exec")
    /\ UNCHANGED <<row, clock, entry, faults>>

\* Mutant of Written: the new end is counted from the old one.
WrittenFromEntry(i) ==
    [Lock!Successor(entry[i], stamp[i]) EXCEPT !.until =
        Duration + (IF entry[i] = NoEntry THEN stamp[i] ELSE entry[i].until)]

\* The row this instance's statement writes.
Written(i) == Lock!Successor(entry[i], stamp[i])

\* INSERT: refused by the primary key when another instance was first, and
\* the row is then read again.
InsertEntry(i) ==
    /\ pc[i] = "exec"
    /\ entry[i] = NoEntry
    /\ \/ /\ row = NoEntry
          /\ row' = Written(i)
          /\ entry' = [entry EXCEPT ![i] = Written(i)]
          /\ Goto(i, "won")
       \/ /\ row # NoEntry
          /\ Goto(i, "reread")
          /\ UNCHANGED <<row, entry>>
    /\ UNCHANGED <<clock, stamp, faults>>

\* Mutant of RowUnchanged: the WHERE clause without the version.
RowUnchangedAlways(i) == row # NoEntry

\* The row is still the one this instance read: the UPDATE's WHERE clause.
RowUnchanged(i) == row # NoEntry /\ row.version = entry[i].version

\* UPDATE ... WHERE version = entry.Version; when no row is affected the
\* entry that was read is returned as it is.
AcquireEntry(i) ==
    /\ pc[i] = "exec"
    /\ entry[i] # NoEntry
    /\ \/ /\ RowUnchanged(i)
          /\ row' = Written(i)
          /\ entry' = [entry EXCEPT ![i] = Written(i)]
          /\ Goto(i, "won")
       \/ /\ ~RowUnchanged(i)
          /\ Goto(i, "lost")
          /\ UNCHANGED <<row, entry>>
    /\ UNCHANGED <<clock, stamp, faults>>

\* The second SELECT, after a refused INSERT.
RereadEntry(i) ==
    /\ pc[i] = "reread"
    /\ entry' = [entry EXCEPT ![i] = row]
    /\ Goto(i, "lost")
    /\ UNCHANGED <<row, clock, stamp, faults>>

\* A statement fails in the database and TryAcquire returns the error.
StatementFails(i) ==
    /\ pc[i] \in {"read", "exec", "reread"}
    /\ faults < MaxFaults
    /\ faults' = faults + 1
    /\ Goto(i, "failed")
    /\ UNCHANGED <<row, clock, entry, stamp>>

\* The statement takes effect, but its reply is lost: the database holds the
\* acquisition and the caller sees an error.
ReplyLost(i) ==
    /\ pc[i] = "exec"
    /\ IF entry[i] = NoEntry THEN row = NoEntry ELSE RowUnchanged(i)
    /\ faults < MaxFaults
    /\ faults' = faults + 1
    /\ row' = Written(i)
    /\ Goto(i, "failed")
    /\ UNCHANGED <<clock, entry, stamp>>

\* The call is over and its variables are gone.
Forget(i) ==
    /\ Goto(i, "idle")
    /\ entry' = [entry EXCEPT ![i] = NoEntry]
    /\ stamp' = [stamp EXCEPT ![i] = 0]

\* The caller has seen the result.
Return(i) ==
    /\ pc[i] \in {"won", "lost", "failed"}
    /\ Forget(i)
    /\ UNCHANGED <<row, clock, faults>>

\* The process dies in TryAcquire or before its caller acts on the result.
Crash(i) ==
    /\ pc[i] # "idle"
    /\ faults < MaxFaults
    /\ faults' = faults + 1
    /\ Forget(i)
    /\ UNCHANGED <<row, clock>>

\* The steps of TryAcquire between its call and its return.
LockStep(i) ==
    \/ ReadEntry(i) \/ StillAcquired(i) \/ TakeStamp(i)
    \/ InsertEntry(i) \/ AcquireEntry(i) \/ RereadEntry(i)

LockFault(i) == StatementFails(i) \/ ReplyLost(i)

LockNext == \E i \in Instance :
    \/ Tick(i) \/ TryAcquire(i) \/ LockStep(i) \/ LockFault(i)
    \/ Return(i) \/ Crash(i)

LockSpec == LockInit /\ [][LockNext]_lockVars

----------------------------------------------------------------------------
LockTypeOK ==
    /\ row \in Entry \cup {NoEntry}
    /\ clock \in [Instance -> Nat]
    /\ pc \in [Instance -> Place]
    /\ entry \in [Instance -> Entry \cup {NoEntry}]
    /\ stamp \in [Instance -> Nat]
    /\ faults \in Nat

\* TryAcquire tells at most one instance that it made a given acquisition:
\* the primary key (first acquisition) and the version in the UPDATE's WHERE
\* clause (all others) decide between instances that read the same row.
OneWinnerPerAcquisition ==
    \A i, j \in Instance :
        (i # j /\ pc[i] = "won" /\ pc[j] = "won")
            => entry[i].version # entry[j].version

\* "Given the lock was acquired successfully this will be the entry just
\* created": an instance that won holds the very row in the table until
\* somebody makes a later acquisition, although it computed its copy itself.
WinnerHoldsRow ==
    \A i \in Instance : pc[i] = "won" =>
        /\ row # NoEntry
        /\ row = entry[i] \/ row.version > entry[i].version

\* The operation "occurs once per the provided elapsed duration": over any
\* run, n acquisitions take at least n durations, whatever the clocks, crashes
\* and lost replies do.
AcquisitionRate == row # NoEntry => row.version * Duration <= row.until

\* The row implements the lock: it only changes by an acquisition that comes
\* after the previous one has elapsed.
ImplementsLock == Lock!Spec

=============================================================================
