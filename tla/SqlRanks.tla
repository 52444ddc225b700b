------------------------------ MODULE SqlRanks ------------------------------
(***************************************************************************)
(* The order of the rules, or of the rollouts, of one flag in the SQL      *)
(* store (internal/storage/sql/common/rule.go and rollout.go).  Evaluation *)
(* takes rules and rollouts by rank, so two of them with one rank make it  *)
(* depend on the database which is taken first.                            *)
(*                                                                         *)
(* A request is a sequence of statements, in one transaction except for    *)
(* the check of CreateRollout and the pages of a listing.  The database    *)
(* reads what is committed, locks a row that is written until the          *)
(* transaction ends, and breaks a deadlock by aborting a transaction of    *)
(* the cycle (READ COMMITTED; a database that serialises transactions      *)
(* allows fewer behaviours).                                               *)
(***************************************************************************)
EXTENDS Integers, Sequences, FiniteSets

CONSTANTS
    Client,       \* concurrent requests, of one instance or of several
    Item,         \* identifiers of rules or rollouts, the ones to come too
    Initial,      \* the items of the flag at the start, in their order
    MaxRank,      \* bound: the highest rank a creation asks for
    MaxList,      \* bound: the longest list of an ordering request
    MaxRequests,  \* bound: requests started
    Limit         \* page size of a listing

Absent == -1      \* the rank of an item that has no row
Ranks == 0..MaxRank

ASSUME ListsAssumption ==
    /\ IsFiniteSet(Item)
    /\ Initial \in Seq(Item)
    /\ \A j, k \in DOMAIN Initial : Initial[j] = Initial[k] => j = k
    /\ MaxRank \in Nat /\ MaxList \in Nat /\ MaxRequests \in Nat
    /\ Limit \in Nat \ {0}

VARIABLES
    table,     \* "rules" or "rollouts"
    rank,      \* committed rows: the rank of every item
    unused,    \* identifiers not yet given out
    pc, op,    \* where the request of a client is, and what it does
    arg,       \* its item or its rank
    ids, pos,  \* its list of items and the position reached in it
    writes,    \* uncommitted: the ranks its transaction has written
    requests,  \* requests started so far
    mixed,     \* history: a request was started that may make ranks collide
    undisturbed  \* history: nothing was committed since the request started

vars == <<table, rank, unused, pc, op, arg, ids, pos, writes, requests, mixed,
          undisturbed>>

Present == {i \in Item : rank[i] # Absent}
Distinct(r) == \A i, j \in Item : r[i] # Absent /\ r[i] = r[j] => i = j

\* What a statement of c reads: committed rows and its own writes.
Visible(c) ==
    [i \in Item |-> IF i \in DOMAIN writes[c] THEN writes[c][i] ELSE rank[i]]

\* Nobody else has written the row and not yet ended the transaction.
Unlocked(c, i) == \A d \in Client \ {c} : i \notin DOMAIN writes[d]

\* ORDER BY rank: items of equal rank come in any order.
InRankOrder(r) ==
    LET S == {i \in Item : r[i] # Absent}
    IN  {s \in [1..Cardinality(S) -> S] :
           /\ \A j, k \in DOMAIN s : s[j] = s[k] => j = k
           /\ \A j, k \in DOMAIN s : j < k => r[s[j]] <= r[s[k]]}

\* LIMIT n OFFSET from - 1.
Rows(s, from, n) ==
    SubSeq(s, from, IF from + n - 1 < Len(s) THEN from + n - 1 ELSE Len(s))

NoWrites == [i \in {} |-> Absent]
Write(w, i, r) == [j \in DOMAIN w \cup {i} |-> IF j = i THEN r ELSE w[j]]

Init ==
    /\ table \in {"rules", "rollouts"}
    /\ rank = [i \in Item |->
                 IF \E k \in DOMAIN Initial : Initial[k] = i
                 THEN CHOOSE k \in DOMAIN Initial : Initial[k] = i
                 ELSE Absent]
    /\ unused = {i \in Item : \A k \in DOMAIN Initial : Initial[k] # i}
    /\ pc = [c \in Client |-> "idle"]
    /\ op = [c \in Client |-> "none"]
    /\ arg = [c \in Client |-> Absent]
    /\ ids = [c \in Client |-> <<>>]
    /\ pos = [c \in Client |-> 1]
    /\ writes = [c \in Client |-> NoWrites]
    /\ requests = 0
    /\ mixed = FALSE
    /\ undisturbed = [c \in Client |-> TRUE]

-----------------------------------------------------------------------------
Changing(c) == op[c] \in {"create", "delete", "order"}

\* A request begins.  It may make ranks collide when it creates while another
\* request changes the flag's items, or the other way round, when it creates a
\* rule at a rank that is taken (nothing checks it), and when it orders a list
\* that is not the list of all items.
Start(c, o, a, s, at, hazard) ==
    /\ pc[c] = "idle"
    /\ requests < MaxRequests
    /\ requests' = requests + 1
    /\ pc' = [pc EXCEPT ![c] = at]
    /\ op' = [op EXCEPT ![c] = o]
    /\ arg' = [arg EXCEPT ![c] = a]
    /\ ids' = [ids EXCEPT ![c] = s]
    /\ pos' = [pos EXCEPT ![c] = 1]
    /\ undisturbed' = [undisturbed EXCEPT ![c] = TRUE]
    /\ mixed' = (mixed \/ hazard
                 \/ \E d \in Client \ {c} :
                      \/ op[d] = "create" /\ o # "list"
                      \/ Changing(d) /\ o = "create")
    /\ UNCHANGED <<table, rank, writes>>

\* Commit or roll back, and answer.
End(c) ==
    /\ pc' = [pc EXCEPT ![c] = "idle"]
    /\ op' = [op EXCEPT ![c] = "none"]
    /\ writes' = [writes EXCEPT ![c] = NoWrites]
    /\ arg' = [arg EXCEPT ![c] = Absent]
    /\ ids' = [ids EXCEPT ![c] = <<>>]
    /\ pos' = [pos EXCEPT ![c] = 1]
    /\ UNCHANGED <<table, unused, requests, mixed>>

Commit(c) ==
    /\ rank' = Visible(c)
    /\ undisturbed' = [d \in Client |-> undisturbed[d] /\ rank' = rank]
    /\ End(c)

Fail(c) == End(c) /\ UNCHANGED <<rank, undisturbed>>

-----------------------------------------------------------------------------
\* CreateRule takes the rank of the request; CreateRollout first counts the
\* rollouts that have it, outside the transaction.  The identifier is new.
StartCreate(c) ==
    \E i \in unused :
      /\ unused' = unused \ {i}
      /\ \/ \E r \in Ranks \ {0} :
              /\ table = "rules"
              /\ Start(c, "create", r, <<i>>, "insert", \E j \in Item : rank[j] = r)
         \/ \E r \in Ranks :
              /\ table = "rollouts"
              /\ Start(c, "create", r, <<i>>, "count", FALSE)

CountRank(c) ==
    /\ pc[c] = "count"
    /\ IF \E i \in Item : rank[i] = arg[c]
       THEN Fail(c)
       ELSE /\ pc' = [pc EXCEPT ![c] = "insert"]
            /\ UNCHANGED <<table, rank, unused, op, arg, ids, pos, writes,
                           requests, mixed, undisturbed>>

\* INSERT; the rows of its segments or its threshold are inserted in the same
\* transaction.
Insert(c) ==
    /\ pc[c] = "insert"
    /\ writes' = [writes EXCEPT ![c] = Write(@, ids[c][1], arg[c])]
    /\ pc' = [pc EXCEPT ![c] = "commit"]
    /\ UNCHANGED <<table, rank, unused, op, arg, ids, pos, requests, mixed,
                   undisturbed>>

CommitCreate(c) == pc[c] = "commit" /\ Commit(c)

-----------------------------------------------------------------------------
\* DeleteRule, DeleteRollout: delete the row, read what remains by rank, and
\* number it from one.  Deleting what is gone already is not an error.
StartDelete(c) ==
    /\ \E i \in Item \ unused : Start(c, "delete", i, <<>>, "delete", FALSE)
    /\ UNCHANGED unused

DeleteRow(c) ==
    /\ pc[c] = "delete"
    /\ Unlocked(c, arg[c])
    /\ writes' = IF rank[arg[c]] # Absent
                 THEN [writes EXCEPT ![c] = Write(@, arg[c], Absent)]
                 ELSE writes
    /\ pc' = [pc EXCEPT ![c] = "select"]
    /\ UNCHANGED <<table, rank, unused, op, arg, ids, pos, requests, mixed,
                   undisturbed>>

\* Mutant of SelectIds: the remaining items are read in any order.
SelectUnordered(c) ==
    /\ pc[c] = "select"
    /\ \E s \in InRankOrder([i \in Item |-> IF Visible(c)[i] = Absent THEN Absent ELSE 0]) :
         ids' = [ids EXCEPT ![c] = s]
    /\ pc' = [pc EXCEPT ![c] = "update"]
    /\ UNCHANGED <<table, rank, unused, op, arg, pos, writes, requests, mixed,
                   undisturbed>>

SelectIds(c) ==
    /\ pc[c] = "select"
    /\ \E s \in InRankOrder(Visible(c)) : ids' = [ids EXCEPT ![c] = s]
    /\ pc' = [pc EXCEPT ![c] = "update"]
    /\ UNCHANGED <<table, rank, unused, op, arg, pos, writes, requests, mixed,
                   undisturbed>>

\* OrderRules, OrderRollouts: the list is the client's; only its length is
\* validated.
Permutes(s, S) ==
    /\ \A i \in S : \E k \in DOMAIN s : s[k] = i
    /\ \A j, k \in DOMAIN s : s[j] = s[k] => j = k

StartOrder(c) ==
    /\ \E n \in 2..MaxList : \E s \in [1..n -> Item \ unused] :
         Start(c, "order", Absent, s, "update", ~Permutes(s, Present))
    /\ UNCHANGED unused

\* Mutant of UpdateRank: the updates run outside the transaction, each one
\* committed by itself.
UpdateAtOnce(c) ==
    /\ pc[c] = "update"
    /\ pos[c] \in DOMAIN ids[c]
    /\ Unlocked(c, ids[c][pos[c]])
    /\ rank' = IF Visible(c)[ids[c][pos[c]]] # Absent
               THEN [rank EXCEPT ![ids[c][pos[c]]] = pos[c]] ELSE rank
    /\ pos' = [pos EXCEPT ![c] = @ + 1]
    /\ UNCHANGED <<table, writes, unused, pc, op, arg, ids, requests, mixed,
                   undisturbed>>

\* One UPDATE of orderRules, orderRollouts; a row that is gone is not an error.
UpdateRank(c) ==
    /\ pc[c] = "update"
    /\ pos[c] \in DOMAIN ids[c]
    /\ LET i == ids[c][pos[c]]
       IN  /\ Unlocked(c, i)
           /\ writes' = IF Visible(c)[i] # Absent
                        THEN [writes EXCEPT ![c] = Write(@, i, pos[c])]
                        ELSE writes
    /\ pos' = [pos EXCEPT ![c] = @ + 1]
    /\ UNCHANGED <<table, rank, unused, pc, op, arg, ids, requests, mixed,
                   undisturbed>>

CommitOrder(c) ==
    /\ pc[c] = "update"
    /\ pos[c] \notin DOMAIN ids[c]
    /\ Commit(c)

-----------------------------------------------------------------------------
\* ListRules, ListRollouts, page after page: LIMIT one more than the page, to
\* know whether there is a next one, whose token is the offset reached.  ids
\* collects what was listed.
StartList(c) ==
    /\ Start(c, "list", Absent, <<>>, "page", FALSE)
    /\ UNCHANGED unused

\* Mutant of ReadPage: the next page starts after the row that only showed
\* that there is one.
ReadPageSkipping(c) ==
    /\ pc[c] = "page"
    /\ \E s \in InRankOrder(rank) :
         LET page == Rows(s, pos[c], Limit + 1)
         IN  /\ ids' = [ids EXCEPT ![c] = @ \o Rows(page, 1, Limit)]
             /\ pos' = [pos EXCEPT ![c] = @ + Len(page)]
             /\ pc' = [pc EXCEPT ![c] = IF Len(page) > Limit THEN "page" ELSE "listed"]
    /\ UNCHANGED <<table, rank, unused, op, arg, writes, requests, mixed,
                   undisturbed>>

ReadPage(c) ==
    /\ pc[c] = "page"
    /\ \E s \in InRankOrder(rank) :
         LET rows == Rows(s, pos[c], Limit + 1)
             more == Len(rows) > Limit
             page == Rows(rows, 1, Limit)
         IN  /\ ids' = [ids EXCEPT ![c] = @ \o page]
             /\ pos' = [pos EXCEPT ![c] = @ + Len(page)]
             /\ pc' = [pc EXCEPT ![c] = IF more THEN "page" ELSE "listed"]
    /\ UNCHANGED <<table, rank, unused, op, arg, writes, requests, mixed,
                   undisturbed>>

Listed(c) == pc[c] = "listed" /\ Fail(c)

-----------------------------------------------------------------------------
\* Mutant of Abort: the transaction is left open when a statement fails.
AbortLeavingLocks(c) ==
    /\ pc[c] # "idle"
    /\ pc' = [pc EXCEPT ![c] = "idle"]
    /\ op' = [op EXCEPT ![c] = "none"]
    /\ UNCHANGED <<table, rank, unused, arg, ids, pos, writes, requests, mixed,
                   undisturbed>>

\* A statement fails, the request is cancelled or the instance dies: whatever
\* the transaction has written is rolled back.
Abort(c) == pc[c] # "idle" /\ Fail(c)

\* The row the next statement of c writes; it waits for the others that have.
WaitsFor(c) ==
    {d \in Client \ {c} :
       \/ pc[c] = "delete" /\ arg[c] \in DOMAIN writes[d]
       \/ /\ pc[c] = "update" /\ pos[c] \in DOMAIN ids[c]
          /\ ids[c][pos[c]] \in DOMAIN writes[d]}

InCycle(c) ==
    \E S \in SUBSET Client :
      /\ c \in S
      /\ \A d \in S : WaitsFor(d) \cap S # {}
      /\ \A d \in S : \E e \in S : d \in WaitsFor(e)

BreakDeadlock(c) == InCycle(c) /\ Fail(c)

Step(c) ==
    \/ CountRank(c) \/ Insert(c) \/ CommitCreate(c)
    \/ DeleteRow(c) \/ SelectIds(c) \/ UpdateRank(c) \/ CommitOrder(c)
    \/ ReadPage(c) \/ Listed(c)

Next ==
    \E c \in Client :
      \/ StartCreate(c) \/ StartDelete(c) \/ StartOrder(c) \/ StartList(c)
      \/ Step(c)
      \/ Abort(c) \/ BreakDeadlock(c)

\* The database answers, and breaks deadlocks.
Fairness == \A c \in Client : WF_vars(Step(c)) /\ WF_vars(BreakDeadlock(c))

Spec == Init /\ [][Next]_vars /\ Fairness

-----------------------------------------------------------------------------
\* Two rules, or two rollouts, of a flag have one rank only after a creation
\* overlapped another request, a rule was created at a rank in use or a partial
\* or repeated list was ordered: deletions and complete orderings may overlap
\* each other, fail half-way or run one after the other as they like, and a
\* rollout created alone finds out that its rank is taken (CreateRollout,
\* DeleteRule, OrderRules, orderRules).
RanksDistinct == ~mixed => Distinct(rank)

\* A deletion that found its row renumbers what remains in the order it has when
\* the deletion commits, so it never undoes an ordering that was committed while
\* it ran (DeleteRule: select and updates in one transaction, under the lock of
\* the deleted row).  A deletion that is repeated finds no row, locks none, and
\* may undo one.
DeletionKeepsOrder ==
    [][\A c \in Client :
         op[c] = "delete" /\ CommitOrder(c) /\ arg[c] \in DOMAIN writes[c] /\ ~mixed
           => \A i, j \in Item :
                rank[i] < rank[j] /\ rank'[i] # Absent /\ rank'[j] # Absent
                  => rank'[i] < rank'[j]]_vars

\* A listing during which nothing was committed has every item of the flag
\* once, in the order of the ranks, whatever the page size (ListRules,
\* ListRollouts: one row too many is read, and the token is an offset).
ListingComplete ==
    \A c \in Client :
      pc[c] = "listed" /\ undisturbed[c] /\ Distinct(rank) =>
        ids[c] \in InRankOrder(rank)

\* Every request ends: two requests that lock rows in opposite orders do not
\* wait for each other for ever, and none waits for a request that failed.
RequestEnds == \A c \in Client : pc[c] # "idle" ~> pc[c] = "idle"

=============================================================================
