------------------------------- MODULE OpLock -------------------------------
(***************************************************************************)
(* What oplock.Service promises its callers: a named operation may be      *)
(* acquired, and it is acquired again only when the previous acquisition   *)
(* has run its full duration.  Every acquisition is numbered.  Who asks,   *)
(* how often, and how an implementation decides is left open; SqlOpLock    *)
(* is shown to implement this specification.                               *)
(***************************************************************************)
EXTENDS Integers

CONSTANTS
    Duration,   \* the duration every caller passes to TryAcquire
    NoEntry     \* the operation was never acquired

VARIABLE entry  \* the entry of the last acquisition, or NoEntry

\* LockEntry, without the operation's name: one operation is modelled.
LockEntry == [version : Nat, last : Nat, until : Nat]

\* The entry an acquisition at time t creates after entry e.
Successor(e, t) ==
    [version |-> IF e = NoEntry THEN 1 ELSE e.version + 1,
     last    |-> t,
     until   |-> t + Duration]

Init == entry = NoEntry

\* An acquisition: the previous one, if any, has run its duration.
Acquire ==
    /\ entry' \in LockEntry
    /\ entry' = Successor(entry, entry'.last)
    /\ entry # NoEntry => entry.until <= entry'.last

Spec == Init /\ [][Acquire]_entry

=============================================================================
