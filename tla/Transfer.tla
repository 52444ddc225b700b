------------------------------ MODULE Transfer ------------------------------
(***************************************************************************)
(* Export and import (internal/ext), and the snapshot a declarative store  *)
(* builds from the same documents (addDoc of internal/storage/fs).         *)
(*                                                                         *)
(* An export lists a live SQL store, page by page and flag by flag, while  *)
(* the requests of SqlStore go on.  An import makes one call after the     *)
(* other to an empty installation, and may be interrupted and started      *)
(* again.  Every call is a step, and its statements are one step with it.  *)
(* Rules are listed by rank; rollouts (which have theirs in SqlRanks),     *)
(* constraints and distributions by identifier, which stands for their     *)
(* rank or their time of creation.                                         *)
(***************************************************************************)
EXTENDS SqlStore, SequencesExt

CONSTANTS
    BatchSizes,           \* batchSize: 25 in the code
    MaxListed,            \* bound: namespaces of an export, repeated ones too
    MaxTransferRequests,  \* bound: requests before and during an export
    MaxInterrupts         \* bound: interrupted imports

\* Keys and identifiers are columns of bounded length; the order of the identifiers
\* stands for that of the times of creation.
ASSUME TransferAssumption ==
    /\ IsFiniteSet(Namespace) /\ IsFiniteSet(FlagKey) /\ IsFiniteSet(SegmentKey)
    /\ IsFiniteSet(Id) /\ Id \subseteq Nat
    /\ Protected \in Namespace
    /\ BatchSizes \subseteq Nat \ {0} /\ MaxListed \in Nat

VARIABLES
    phase,      \* where the export or the import is
    batch,      \* the export's batch size
    offset,     \* the page token of its listing
    all,        \* --all-namespaces
    names,      \* namespaces still to export
    pending,    \* flags of the page whose rules and rollouts are to be listed
    doc, docs,  \* the document being made, and those written
    calls,      \* the calls the import has still to make
    made,       \* variants it has created
    target,     \* the tables of the installation imported into
    created,    \* calls that succeeded, by any attempt
    interrupts, \* imports interrupted so far
    disturbed   \* history: the store changed during the export

exportVars == <<batch, offset, all, names, pending, doc, docs>>
importVars == <<calls, made, target, created, interrupts>>
transferVars == <<phase, exportVars, importVars, disturbed>>
allVars == <<vars, transferVars>>

Exporting == phase \in {"namespaces", "flags", "rules", "rollouts", "segments"}

Empty ==
    [namespaces |-> {Protected}, flags |-> {}, variants |-> {}, segments |-> {},
     constraints |-> {}, rules |-> {}, ruleSegments |-> {}, distributions |-> {},
     rollouts |-> {}, rolloutSegments |-> {}]

NoDoc == [ns |-> Protected, flags |-> <<>>, segments |-> <<>>]

TransferInit ==
    /\ Init
    /\ phase = "idle"
    /\ batch \in BatchSizes /\ offset = 0 /\ all = FALSE
    /\ names = <<>> /\ pending = <<>> /\ doc = NoDoc /\ docs = <<>>
    /\ calls = <<>> /\ made = {} /\ target = Empty /\ created = 0 /\ interrupts = 0
    /\ disturbed = FALSE

-----------------------------------------------------------------------------
(* Listings.                                                               *)

ById(S) ==
    [k \in 1..Cardinality(S) |->
        CHOOSE x \in S : Cardinality({y \in S : y.id < x.id}) = k - 1]

\* Equal ranks may come in any order: here as above.
Precedes(y, x) == y.rank < x.rank \/ (y.rank = x.rank /\ y.id < x.id)
ByRank(S) ==
    [k \in 1..Cardinality(S) |->
        CHOOSE x \in S : Cardinality({y \in S : Precedes(y, x)}) = k - 1]

\* LIMIT and OFFSET.
Rows(s, from, limit) == SubSeq(s, from + 1, Min({from + limit, Len(s)}))

\* LIMIT one more than the page; the token is the offset of the next one.
Page(s, from, limit) ==
    LET rows == Rows(s, from, limit + 1)
    IN  [rows |-> Rows(rows, 0, limit),
         next |-> IF Len(rows) > limit THEN from + limit ELSE 0]

KeysOfRule(d, i) == {x.segment : x \in {x \in d.ruleSegments : x.rule = i}}
KeysOfRollout(d, r) ==
    {x.segment : x \in {x \in d.rolloutSegments : x.rollout = r.id /\ r.operator # "threshold"}}

FlagVariants(d, n, f) == ById({v \in d.variants : v.ns = n /\ v.flag = f})
Constraints(d, n, s) == ById({k \in d.constraints : k.ns = n /\ k.segment = s})

-----------------------------------------------------------------------------
(* Export.                                                                 *)

BeginExport(some, everything) ==
    /\ phase = "idle"
    /\ requests <= MaxTransferRequests
    /\ all' = everything
    /\ names' = IF everything THEN <<>> ELSE some
    /\ phase' = IF everything THEN "namespaces" ELSE "flags"
    /\ UNCHANGED <<batch, offset, pending, doc, docs, importVars, disturbed>>

\* Mutant of ListNamespaces: a page is the last one when it is empty.
ListNamespacesToEmpty ==
    /\ phase = "namespaces"
    /\ LET page == Page(SetToSeq(db.namespaces), 0, batch)
       IN  /\ names' = Rows(names \o page.rows, 0, MaxListed)
           /\ phase' = IF page.rows # <<>> THEN "namespaces" ELSE "flags"
    /\ UNCHANGED <<batch, offset, all, pending, doc, docs, importVars, disturbed>>

\* The page token is assigned to a variable of the loop's body, so every call
\* asks for the first page.
ListNamespaces ==
    /\ phase = "namespaces"
    /\ LET page == Page(SetToSeq(db.namespaces), 0, batch)
       IN  /\ names' = Rows(names \o page.rows, 0, MaxListed)
           /\ phase' = IF page.next # 0 THEN "namespaces" ELSE "flags"
    /\ UNCHANGED <<batch, offset, all, pending, doc, docs, importVars, disturbed>>

\* A page of flags, with their variants.
ListFlags ==
    /\ phase = "flags" /\ names # <<>>
    /\ LET n == Head(names)
           page == Page(SetToSeq({x \in db.flags : x.ns = n}), offset, batch)
       IN  /\ pending' = [k \in DOMAIN page.rows |->
                            [row |-> page.rows[k],
                             variants |-> FlagVariants(db, n, page.rows[k].key),
                             rules |-> <<>>]]
           /\ doc' = [doc EXCEPT !.ns = n]
           /\ offset' = page.next
    /\ phase' = "rules"
    /\ UNCHANGED <<batch, all, names, docs, importVars, disturbed>>

\* The key of a variant among those listed with the flag; none for another one.
VariantKeyOf(variants, i) ==
    {variants[k].key : k \in {k \in DOMAIN variants : variants[k].id = i}}

\* A single segment is exported without its operator.
ExportedRule(d, r, variants) ==
    LET dists == ById({x \in d.distributions : x.rule = r.id})
    IN  [segments |-> KeysOfRule(d, r.id),
         operator |-> SegmentOperator(KeysOfRule(d, r.id), r.operator),
         distributions |-> [k \in DOMAIN dists |-> VariantKeyOf(variants, dists[k].variant)]]

ListRules ==
    /\ phase = "rules" /\ pending # <<>>
    /\ LET f == Head(pending)
           rules == ByRank({r \in db.rules : r.ns = f.row.ns /\ r.flag = f.row.key})
       IN  IF \E k \in DOMAIN rules : KeysOfRule(db, rules[k].id) = {}
           THEN phase' = "failed" /\ UNCHANGED pending
           ELSE /\ phase' = "rollouts"
                /\ pending' = [pending EXCEPT ![1].rules =
                     [k \in DOMAIN rules |-> ExportedRule(db, rules[k], f.variants)]]
    /\ UNCHANGED <<batch, offset, all, names, doc, docs, importVars, disturbed>>

\* Mutant of ExportedRollout: the operator is left out.
ExportedRolloutPlain(d, r) ==
    [segments |-> KeysOfRollout(d, r),
     operator |-> IF r.operator = "threshold" THEN "threshold"
                  ELSE IF KeysOfRollout(d, r) = {} THEN "none" ELSE "OR"]

\* A rollout whose segments are all gone is listed, and exported, without a rule.
ExportedRollout(d, r) ==
    [segments |-> KeysOfRollout(d, r),
     operator |-> IF r.operator # "threshold" /\ KeysOfRollout(d, r) = {}
                  THEN "none" ELSE r.operator]

ListRollouts ==
    /\ phase = "rollouts"
    /\ LET f == Head(pending)
           rollouts == ById({r \in db.rollouts : r.ns = f.row.ns /\ r.flag = f.row.key})
       IN  doc' = [doc EXCEPT !.flags = Append(@,
             [key |-> f.row.key, enabled |-> f.row.enabled,
              variants |-> [k \in DOMAIN f.variants |-> f.variants[k].key],
              rules |-> f.rules,
              rollouts |-> [k \in DOMAIN rollouts |-> ExportedRollout(db, rollouts[k])]])]
    /\ pending' = Tail(pending)
    /\ phase' = "rules"
    /\ UNCHANGED <<batch, offset, all, names, docs, importVars, disturbed>>

PageDone ==
    /\ phase = "rules" /\ pending = <<>>
    /\ phase' = IF offset # 0 THEN "flags" ELSE "segments"
    /\ UNCHANGED <<exportVars, importVars, disturbed>>

\* A page of segments with their constraints; the last one ends the document.
ListSegments ==
    /\ phase = "segments"
    /\ LET n == Head(names)
           page == Page(SetToSeq({x \in db.segments : x.ns = n}), offset, batch)
           rows == [k \in DOMAIN page.rows |->
                      LET s == page.rows[k]
                          c == Constraints(db, n, s.key)
                      IN  [key |-> s.key, match |-> s.match,
                           constraints |-> [j \in DOMAIN c |-> c[j].value]]]
           new == [doc EXCEPT !.segments = @ \o rows]
       IN  /\ offset' = page.next
           /\ IF page.next # 0
              THEN phase' = phase /\ doc' = new /\ UNCHANGED <<names, docs>>
              ELSE /\ docs' = Append(docs, new)
                   /\ doc' = NoDoc
                   /\ names' = Tail(names)
                   /\ phase' = IF Len(names) > 1 THEN "flags" ELSE "exported"
    /\ UNCHANGED <<batch, all, pending, importVars, disturbed>>

-----------------------------------------------------------------------------
(* Import: the calls of a document, in their order.                        *)

ConcatMap(s, Of(_)) == FlattenSeq([k \in DOMAIN s |-> Of(s[k])])

FlagCalls(n, f) ==
    <<[op |-> "flag", ns |-> n, flag |-> f.key, enabled |-> f.enabled]>> \o
    [k \in DOMAIN f.variants |->
        [op |-> "variant", ns |-> n, flag |-> f.key, key |-> f.variants[k]]]

SegmentCalls(n, s) ==
    <<[op |-> "segment", ns |-> n, key |-> s.key, match |-> s.match]>> \o
    [k \in DOMAIN s.constraints |->
        [op |-> "constraint", ns |-> n, key |-> s.key, value |-> s.constraints[k]]]

\* The files have no ranks: a rule gets that of its place.
RuleCalls(n, f, i) ==
    LET r == f.rules[i] IN
    <<[op |-> "rule", ns |-> n, flag |-> f.key, rank |-> i, rule |-> r]>> \o
    [k \in DOMAIN r.distributions |->
        [op |-> "distribution", ns |-> n, flag |-> f.key, keys |-> r.distributions[k]]]

StrategyCalls(n, f) ==
    FlattenSeq([i \in DOMAIN f.rules |-> RuleCalls(n, f, i)]) \o
    [k \in DOMAIN f.rollouts |->
        [op |-> "rollout", ns |-> n, flag |-> f.key, rollout |-> f.rollouts[k]]]

DocumentCalls(d) ==
    (IF d.ns = Protected THEN <<>> ELSE <<[op |-> "namespace", ns |-> d.ns]>>) \o
    ConcatMap(d.flags, LAMBDA f : FlagCalls(d.ns, f)) \o
    ConcatMap(d.segments, LAMBDA s : SegmentCalls(d.ns, s)) \o
    ConcatMap(d.flags, LAMBDA f : StrategyCalls(d.ns, f))

\* The import begins, or begins again after it was interrupted.
BeginImport ==
    /\ phase \in {"exported", "interrupted"}
    /\ phase' = "importing"
    /\ calls' = ConcatMap(docs, DocumentCalls)
    /\ made' = {}
    /\ UNCHANGED <<exportVars, target, created, interrupts, disturbed>>

\* Identifiers are in the order of creation.
NextId == created + 1

\* The rule created last, and its distributions' variant among those created.
LastRule == CHOOSE x \in target.rules : \A y \in target.rules : y.id <= x.id
MadeVariants(c) == {v \in made : v.ns = c.ns /\ v.flag = c.flag /\ v.key \in c.keys}

\* The tables after a call.
Called(c) ==
    LET i == NextId IN
    CASE c.op = "namespace" -> [target EXCEPT !.namespaces = @ \cup {c.ns}]
      [] c.op = "flag" ->
           [target EXCEPT !.flags = @ \cup
              {[ns |-> c.ns, key |-> c.flag, enabled |-> c.enabled]}]
      [] c.op = "variant" ->
           [target EXCEPT !.variants = @ \cup
              {[id |-> i, ns |-> c.ns, flag |-> c.flag, key |-> c.key]}]
      [] c.op = "segment" ->
           [target EXCEPT !.segments = @ \cup {[ns |-> c.ns, key |-> c.key, match |-> c.match]}]
      [] c.op = "constraint" ->
           [target EXCEPT !.constraints = @ \cup {ConstraintRow(i, c.ns, c.key, c.value)}]
      [] c.op = "rule" ->
           [target EXCEPT
              !.rules = @ \cup {[id |-> i, ns |-> c.ns, flag |-> c.flag, rank |-> c.rank,
                                 operator |-> SegmentOperator(c.rule.segments, c.rule.operator)]},
              !.ruleSegments = @ \cup RuleSegments(i, c.ns, c.rule.segments)]
      [] c.op = "distribution" ->
           [target EXCEPT !.distributions = @ \cup
              {[id |-> i, rule |-> LastRule.id, variant |-> v.id] : v \in MadeVariants(c)}]
      [] c.op = "rollout" ->
           [target EXCEPT
              !.rollouts = @ \cup {[id |-> i, ns |-> c.ns, flag |-> c.flag,
                                    operator |-> RolloutOperator(c.rollout.segments,
                                                                 c.rollout.operator)]},
              !.rolloutSegments = @ \cup RolloutSegments(i, c.ns, c.rollout.segments)]

\* Mutant of Refused: what exists already is left as it is.
RefusedNever(c) ==
    \/ c.op = "distribution" /\ MadeVariants(c) = {}
    \/ c.op = "rollout" /\ c.rollout.operator = "none"

\* An error of the call: the key is taken, a parent is missing, the document names
\* a variant it does not have, a rollout has no rule.
Refused(c) ==
    \/ c.op = "flag" /\ HasFlag(target, c.ns, c.flag)
    \/ c.op = "segment" /\ HasSegment(target, c.ns, c.key)
    \/ c.op = "distribution" /\ MadeVariants(c) = {}
    \/ c.op = "rollout" /\ c.rollout.operator = "none"
    \/ ~Acceptable(Called(c))

ImportCall ==
    /\ phase = "importing" /\ calls # <<>>
    /\ LET c == Head(calls)
       IN  \/ /\ Refused(c)
              /\ phase' = "failed"
              /\ UNCHANGED <<calls, made, target, created>>
           \/ /\ ~Refused(c)
              /\ target' = Called(c)
              /\ made' = made \cup (target'.variants \ target.variants)
              /\ calls' = Tail(calls)
              /\ created' = created + 1
              /\ UNCHANGED phase
    /\ UNCHANGED <<exportVars, interrupts, disturbed>>

Imported ==
    /\ phase = "importing" /\ calls = <<>>
    /\ phase' = "imported"
    /\ UNCHANGED <<exportVars, importVars, disturbed>>

\* The command is stopped, or loses its connection.
Interrupt ==
    /\ phase = "importing" /\ interrupts < MaxInterrupts
    /\ phase' = "interrupted"
    /\ interrupts' = interrupts + 1
    /\ UNCHANGED <<exportVars, calls, made, target, created, disturbed>>

-----------------------------------------------------------------------------
ExportStep ==
    \/ ListNamespaces \/ ListFlags \/ ListRules \/ ListRollouts \/ PageDone \/ ListSegments

TransferStep ==
    /\ \/ \E n \in Namespace : BeginExport(<<n>>, FALSE)
       \/ BeginExport(SetToSeq(Namespace), FALSE)
       \/ BeginExport(<<>>, TRUE)
       \/ ExportStep
       \/ BeginImport \/ ImportCall \/ Imported \/ Interrupt
    /\ UNCHANGED vars

\* The store goes on meanwhile; what it does after an export is of no interest.
StoreStep ==
    /\ phase = "idle" \/ Exporting
    /\ Next
    /\ Exporting => requests' <= MaxTransferRequests
    /\ disturbed' = (disturbed \/ (Exporting /\ db' # db))
    /\ UNCHANGED <<phase, exportVars, importVars>>

TransferNext == TransferStep \/ StoreStep

TransferSpec ==
    TransferInit /\ [][TransferNext]_allVars /\ WF_allVars(ExportStep /\ UNCHANGED vars)

-----------------------------------------------------------------------------
(* What a declarative store makes of the documents.                        *)

EvaluatedSegments(segments, keys) == {s \in segments : s.key \in keys}

SnapshotSegments(d) ==
    {[ns |-> d.ns, key |-> d.segments[k].key, match |-> d.segments[k].match,
      constraints |-> d.segments[k].constraints] : k \in DOMAIN d.segments}

SnapshotRule(r, segments) ==
    [operator |-> r.operator, segments |-> EvaluatedSegments(segments, r.segments),
     distributions |-> r.distributions]

SnapshotRollout(r, segments) ==
    [operator |-> r.operator, segments |-> EvaluatedSegments(segments, r.segments)]

SnapshotFlag(n, f, segments) ==
    [ns |-> n, key |-> f.key, enabled |-> f.enabled, variants |-> f.variants,
     rules |-> [k \in DOMAIN f.rules |-> SnapshotRule(f.rules[k], segments)],
     rollouts |-> [k \in DOMAIN f.rollouts |-> SnapshotRollout(f.rollouts[k], segments)]]

\* Every segment and every variant a flag names is known; if not, the snapshot
\* is not built.
Resolvable(f, segments) ==
    LET Known(keys) == \A key \in keys : \E s \in segments : s.key = key
    IN  /\ \A j \in DOMAIN f.rules :
             /\ Known(f.rules[j].segments)
             /\ \A keys \in ToSet(f.rules[j].distributions) : keys \cap ToSet(f.variants) # {}
        /\ \A j \in DOMAIN f.rollouts : Known(f.rollouts[j].segments)

\* The schema of the files knows every operator (documentsFromFile); of all it
\* may refuse, only constraints can tell.
Validated(d) == \A k \in DOMAIN d.segments : "unlisted" \notin ToSet(d.segments[k].constraints)

\* What is new replaces what has its namespace and key.
Replacing(old, new) == {x \in old : ~\E y \in new : y.ns = x.ns /\ y.key = x.key} \cup new

AddDoc(ss, d) ==
    LET segments == Replacing(ss.segments, SnapshotSegments(d))
        own == {s \in segments : s.ns = d.ns}
    IN  [ok |-> ss.ok /\ Validated(d) /\ \A f \in ToSet(d.flags) : Resolvable(f, own),
         segments |-> segments,
         flags |-> Replacing(ss.flags, {SnapshotFlag(d.ns, f, own) : f \in ToSet(d.flags)})]

\* SnapshotFromFiles: the snapshot after so many documents.
NoSnapshot == [ok |-> TRUE, segments |-> {}, flags |-> {}]
SnapshotAfter(ds) ==
    LET after[k \in 0..Len(ds)] ==
          IF k = 0 THEN NoSnapshot ELSE AddDoc(after[k - 1], ds[k])
    IN  after
SnapshotOf(ds) == SnapshotAfter(ds)[Len(ds)]

-----------------------------------------------------------------------------
(* What the tables say, in the same form.                                  *)

SegmentsOf(d, n) ==
    {[ns |-> s.ns, key |-> s.key, match |-> s.match,
      constraints |-> [k \in DOMAIN Constraints(d, n, s.key) |->
                         Constraints(d, n, s.key)[k].value]] :
       s \in {s \in d.segments : s.ns = n}}

StrategiesOf(d, n, f) ==
    LET rules == ByRank({r \in d.rules : r.ns = n /\ r.flag = f})
        rollouts == ById({r \in d.rollouts : r.ns = n /\ r.flag = f})
        Keys(r) == KeysOfRule(d, r.id)
        Dists(r) == ById({x \in d.distributions : x.rule = r.id})
        KeyOf(x) == (CHOOSE v \in d.variants : v.id = x.variant).key
    IN  [rules |-> [k \in DOMAIN rules |->
            [operator |-> SegmentOperator(Keys(rules[k]), rules[k].operator),
             segments |-> EvaluatedSegments(SegmentsOf(d, n), Keys(rules[k])),
             distributions |-> [j \in DOMAIN Dists(rules[k]) |->
                                  {KeyOf(Dists(rules[k])[j])}]]],
         rollouts |-> [k \in DOMAIN rollouts |->
            LET keys == KeysOfRollout(d, rollouts[k])
            IN  [operator |-> IF rollouts[k].operator # "threshold" /\ keys = {} THEN "none"
                              ELSE rollouts[k].operator,
                 segments |-> EvaluatedSegments(SegmentsOf(d, n), keys)]]]

FlagsOf(d, n) ==
    {[ns |-> n, key |-> x.key, enabled |-> x.enabled,
      variants |-> [k \in DOMAIN FlagVariants(d, n, x.key) |-> FlagVariants(d, n, x.key)[k].key],
      rules |-> StrategiesOf(d, n, x.key).rules,
      rollouts |-> StrategiesOf(d, n, x.key).rollouts] : x \in {x \in d.flags : x.ns = n}}

\* The operator of a rollout that is left with one segment makes no difference.
Settled(r) == [r EXCEPT !.operator = IF Cardinality(r.segments) = 1 THEN "OR" ELSE @]
Effective(f) == [f EXCEPT !.rollouts = [k \in DOMAIN f.rollouts |-> Settled(f.rollouts[k])]]

Agrees(ss, d, n) ==
    /\ {Effective(x) : x \in {x \in ss.flags : x.ns = n}} = {Effective(x) : x \in FlagsOf(d, n)}
    /\ {s \in ss.segments : s.ns = n} = SegmentsOf(d, n)

OwnVariants == \A x \in db.distributions : \E r \in db.rules, v \in db.variants :
    r.id = x.rule /\ v.id = x.variant /\ r.flag = v.flag

\* Files exported while nothing changed give, in a declarative store, the flags,
\* rules in their order, segments, distributions and rollouts the SQL store has,
\* whatever the page size (Export, documentsFromFile, addDoc); unless a rule uses
\* segments of another namespace or variants of another flag.  They are refused
\* exactly when a constraint has an operator the schema of the files does not list.
FilesAgree ==
    phase = "exported" /\ ~disturbed /\ RulesUseOwnSegments /\ OwnVariants =>
        LET ss == SnapshotOf(docs)
        IN  /\ ss.ok <=> \A k \in DOMAIN docs : \A x \in db.constraints :
                            x.ns = docs[k].ns => x.value # "unlisted"
            /\ ss.ok => \A k \in DOMAIN docs : Agrees(ss, db, docs[k].ns)

\* An import that ends without an error has created what the files say and nothing
\* else, also when an earlier attempt was interrupted half-way, and also when the
\* files were written while the store changed (Import: every key that is taken is
\* an error).
ImportFaithful ==
    phase = "imported" =>
        \A k \in DOMAIN docs : Agrees(SnapshotOf(docs), target, docs[k].ns)

\* An export ends, unless it is of all namespaces and they are more than a batch:
\* the first page is then asked for again and again (Export).
ExportEnds ==
    Exporting ~> (~Exporting \/ (all /\ Cardinality(db.namespaces) > batch))

=============================================================================
