--------------------------- MODULE SqlStore_proofs ---------------------------
(***************************************************************************)
(* Proofs about the tables of the SQL store, for any clients, namespaces,  *)
(* keys, identifiers and initial tables.                                   *)
(***************************************************************************)
EXTENDS SqlStore, TLAPS

FlagRow == [ns : Namespace, key : FlagKey, enabled : BOOLEAN]
VariantRow == [id : Id, ns : Namespace, flag : FlagKey, key : VariantKey]
SegmentRow == [ns : Namespace, key : SegmentKey, match : {"all", "any"}]
ConstraintsRow == [id : Id, ns : Namespace, segment : SegmentKey, value : Comparison]
RuleRow == [id : Id, ns : Namespace, flag : FlagKey, rank : Nat, operator : Operators]
RuleSegmentRow == [rule : Id, ns : Namespace, segment : SegmentKey]
DistributionRow == [id : Id, rule : Id, variant : Id]
RolloutRow == [id : Id, ns : Namespace, flag : FlagKey, operator : Operators \cup {"threshold"}]
RolloutSegmentRow == [rollout : Id, ns : Namespace, segment : SegmentKey]

-----------------------------------------------------------------------------
(* The tables one by one.                                                  *)

LEMMA Fields ==
    ASSUME NEW d \in Database
    PROVE  /\ d.namespaces \subseteq Namespace /\ d.flags \subseteq FlagRow
           /\ d.variants \subseteq VariantRow /\ d.segments \subseteq SegmentRow
           /\ d.constraints \subseteq ConstraintsRow /\ d.rules \subseteq RuleRow
           /\ d.ruleSegments \subseteq RuleSegmentRow
           /\ d.distributions \subseteq DistributionRow
           /\ d.rollouts \subseteq RolloutRow
           /\ d.rolloutSegments \subseteq RolloutSegmentRow
BY DEF Database, FlagRow, VariantRow, SegmentRow, ConstraintsRow, RuleRow, RuleSegmentRow,
       DistributionRow, RolloutRow, RolloutSegmentRow

\* Tables are equal when each of them is.
LEMMA SameTables ==
    ASSUME NEW d \in Database, NEW e \in Database,
           d.namespaces = e.namespaces, d.flags = e.flags, d.variants = e.variants,
           d.segments = e.segments, d.constraints = e.constraints, d.rules = e.rules,
           d.ruleSegments = e.ruleSegments, d.distributions = e.distributions,
           d.rollouts = e.rollouts, d.rolloutSegments = e.rolloutSegments
    PROVE  d = e
BY DEF Database

\* The rows of Cascade: those whose parents are there, and theirs.
LEMMA CascadeFields ==
    ASSUME NEW d \in Database, NEW e, e = Cascade(d)
    PROVE  /\ e \in Database /\ e.namespaces = d.namespaces
           /\ e.flags = {x \in d.flags : x.ns \in d.namespaces}
           /\ e.segments = {x \in d.segments : x.ns \in d.namespaces}
           /\ e.variants = {x \in d.variants : HasFlag(e, x.ns, x.flag)}
           /\ e.rules = {x \in d.rules : HasFlag(e, x.ns, x.flag)}
           /\ e.rollouts = {x \in d.rollouts : HasFlag(e, x.ns, x.flag)}
           /\ e.constraints = {x \in d.constraints : HasSegment(e, x.ns, x.segment)}
           /\ e.ruleSegments = {x \in d.ruleSegments :
                                  HasId(e.rules, x.rule) /\ HasSegment(e, x.ns, x.segment)}
           /\ e.distributions = {x \in d.distributions :
                                  HasId(e.rules, x.rule) /\ HasId(e.variants, x.variant)}
           /\ e.rolloutSegments = {x \in d.rolloutSegments :
                                  HasId(e.rollouts, x.rollout) /\ HasSegment(e, x.ns, x.segment)}
<1> DEFINE ns == [d EXCEPT !.flags = {x \in @ : x.ns \in d.namespaces},
                           !.segments = {x \in @ : x.ns \in d.namespaces}]
           fs == [ns EXCEPT !.variants = {x \in @ : HasFlag(ns, x.ns, x.flag)},
                            !.rules = {x \in @ : HasFlag(ns, x.ns, x.flag)},
                            !.rollouts = {x \in @ : HasFlag(ns, x.ns, x.flag)},
                            !.constraints = {x \in @ : HasSegment(ns, x.ns, x.segment)}]
<1>1. /\ ns \in Database /\ ns.namespaces = d.namespaces
      /\ ns.flags = {x \in d.flags : x.ns \in d.namespaces}
      /\ ns.segments = {x \in d.segments : x.ns \in d.namespaces}
      /\ ns.variants = d.variants /\ ns.rules = d.rules /\ ns.rollouts = d.rollouts
      /\ ns.constraints = d.constraints /\ ns.ruleSegments = d.ruleSegments
      /\ ns.distributions = d.distributions /\ ns.rolloutSegments = d.rolloutSegments
    BY DEF Database
<1> HIDE DEF ns
<1>2. /\ fs \in Database /\ fs.namespaces = ns.namespaces /\ fs.flags = ns.flags
      /\ fs.segments = ns.segments
      /\ fs.variants = {x \in ns.variants : HasFlag(ns, x.ns, x.flag)}
      /\ fs.rules = {x \in ns.rules : HasFlag(ns, x.ns, x.flag)}
      /\ fs.rollouts = {x \in ns.rollouts : HasFlag(ns, x.ns, x.flag)}
      /\ fs.constraints = {x \in ns.constraints : HasSegment(ns, x.ns, x.segment)}
      /\ fs.ruleSegments = ns.ruleSegments
      /\ fs.distributions = ns.distributions /\ fs.rolloutSegments = ns.rolloutSegments
    BY <1>1 DEF Database
<1> DEFINE rs == {x \in fs.ruleSegments : /\ HasId(fs.rules, x.rule)
                                           /\ HasSegment(fs, x.ns, x.segment)}
           ds == {x \in fs.distributions : /\ HasId(fs.rules, x.rule)
                                            /\ HasId(fs.variants, x.variant)}
           os == {x \in fs.rolloutSegments : /\ HasId(fs.rollouts, x.rollout)
                                              /\ HasSegment(fs, x.ns, x.segment)}
           es == [fs EXCEPT !.ruleSegments = rs, !.distributions = ds, !.rolloutSegments = os]
<1>3. e = es
    BY DEF Cascade, ns
<1>4. /\ e \in Database /\ e.namespaces = fs.namespaces /\ e.flags = fs.flags
      /\ e.segments = fs.segments /\ e.variants = fs.variants /\ e.rules = fs.rules
      /\ e.rollouts = fs.rollouts /\ e.constraints = fs.constraints
      /\ e.ruleSegments = rs /\ e.distributions = ds /\ e.rolloutSegments = os
    <2>1. rs \subseteq fs.ruleSegments /\ ds \subseteq fs.distributions
          /\ os \subseteq fs.rolloutSegments
        OBVIOUS
    <2>2. fs \in Database
        BY <1>2
    <2> HIDE DEF fs, rs, ds, os
    <2>3. /\ es \in Database /\ es.namespaces = fs.namespaces /\ es.flags = fs.flags
          /\ es.segments = fs.segments /\ es.variants = fs.variants /\ es.rules = fs.rules
          /\ es.rollouts = fs.rollouts /\ es.constraints = fs.constraints
          /\ es.ruleSegments = rs /\ es.distributions = ds /\ es.rolloutSegments = os
        BY <2>1, <2>2 DEF Database
    <2> QED
        BY <1>3, <2>3
<1> HIDE DEF fs, rs, ds, os, es
<1>5. /\ \A n, f : HasFlag(ns, n, f) <=> HasFlag(e, n, f)
      /\ \A n, s : HasSegment(ns, n, s) <=> HasSegment(e, n, s)
      /\ \A n, s : HasSegment(fs, n, s) <=> HasSegment(e, n, s)
    BY <1>2, <1>4 DEF HasFlag, HasSegment
<1>6. /\ e.variants = {x \in d.variants : HasFlag(e, x.ns, x.flag)}
      /\ e.rules = {x \in d.rules : HasFlag(e, x.ns, x.flag)}
      /\ e.rollouts = {x \in d.rollouts : HasFlag(e, x.ns, x.flag)}
      /\ e.constraints = {x \in d.constraints : HasSegment(e, x.ns, x.segment)}
    BY <1>1, <1>2, <1>4, <1>5
<1>7. e.ruleSegments = {x \in d.ruleSegments :
                          HasId(e.rules, x.rule) /\ HasSegment(e, x.ns, x.segment)}
    BY <1>1, <1>2, <1>4, <1>5 DEF rs
<1>8. e.rolloutSegments = {x \in d.rolloutSegments :
                          HasId(e.rollouts, x.rollout) /\ HasSegment(e, x.ns, x.segment)}
    BY <1>1, <1>2, <1>4, <1>5 DEF os
<1>9. e.distributions = {x \in d.distributions :
                          HasId(e.rules, x.rule) /\ HasId(e.variants, x.variant)}
    BY <1>1, <1>2, <1>4 DEF ds
<1> QED
    BY <1>1, <1>2, <1>4, <1>6, <1>7, <1>8, <1>9

\* Every row has its parents.
Closed(d) ==
    /\ \A x \in d.flags : x.ns \in d.namespaces
    /\ \A x \in d.segments : x.ns \in d.namespaces
    /\ \A x \in d.variants : HasFlag(d, x.ns, x.flag)
    /\ \A x \in d.rules : HasFlag(d, x.ns, x.flag)
    /\ \A x \in d.rollouts : HasFlag(d, x.ns, x.flag)
    /\ \A x \in d.constraints : HasSegment(d, x.ns, x.segment)
    /\ \A x \in d.ruleSegments : HasId(d.rules, x.rule) /\ HasSegment(d, x.ns, x.segment)
    /\ \A x \in d.distributions : HasId(d.rules, x.rule) /\ HasId(d.variants, x.variant)
    /\ \A x \in d.rolloutSegments :
         HasId(d.rollouts, x.rollout) /\ HasSegment(d, x.ns, x.segment)

\* What the database accepts is what has its parents.
LEMMA AcceptableIsClosed ==
    ASSUME NEW d \in Database
    PROVE  Cascade(d) = d <=> Closed(d)
<1> DEFINE e == Cascade(d)
<1>1. /\ e \in Database /\ e.namespaces = d.namespaces
      /\ e.flags = {x \in d.flags : x.ns \in d.namespaces}
      /\ e.segments = {x \in d.segments : x.ns \in d.namespaces}
      /\ e.variants = {x \in d.variants : HasFlag(e, x.ns, x.flag)}
      /\ e.rules = {x \in d.rules : HasFlag(e, x.ns, x.flag)}
      /\ e.rollouts = {x \in d.rollouts : HasFlag(e, x.ns, x.flag)}
      /\ e.constraints = {x \in d.constraints : HasSegment(e, x.ns, x.segment)}
      /\ e.ruleSegments = {x \in d.ruleSegments :
                             HasId(e.rules, x.rule) /\ HasSegment(e, x.ns, x.segment)}
      /\ e.distributions = {x \in d.distributions :
                             HasId(e.rules, x.rule) /\ HasId(e.variants, x.variant)}
      /\ e.rolloutSegments = {x \in d.rolloutSegments :
                             HasId(e.rollouts, x.rollout) /\ HasSegment(e, x.ns, x.segment)}
    BY CascadeFields
<1> HIDE DEF e
<1>2. ASSUME e = d PROVE Closed(d)
    BY <1>1, <1>2 DEF Closed
<1>3. ASSUME Closed(d) PROVE e = d
    <2>1. e.namespaces = d.namespaces /\ e.flags = d.flags /\ e.segments = d.segments
        BY <1>1, <1>3 DEF Closed
    <2>2. /\ \A n, f : HasFlag(e, n, f) <=> HasFlag(d, n, f)
          /\ \A n, k : HasSegment(e, n, k) <=> HasSegment(d, n, k)
        BY <2>1 DEF HasFlag, HasSegment
    <2>3. /\ e.variants = d.variants /\ e.rules = d.rules /\ e.rollouts = d.rollouts
          /\ e.constraints = d.constraints
        BY <1>1, <1>3, <2>2 DEF Closed
    <2>4. /\ e.ruleSegments = d.ruleSegments /\ e.distributions = d.distributions
          /\ e.rolloutSegments = d.rolloutSegments
        BY <1>1, <1>3, <2>2, <2>3 DEF Closed
    <2> QED
        BY <1>1, <2>1, <2>3, <2>4, SameTables
<1> QED
    BY <1>2, <1>3 DEF e

\* The cascade ends: what it leaves has its parents.
LEMMA CascadeAccepted ==
    ASSUME NEW d \in Database, UniqueKeys(d)
    PROVE  Acceptable(Cascade(d))
<1> DEFINE e == Cascade(d)
<1>1. /\ e \in Database /\ e.namespaces = d.namespaces
      /\ e.flags = {x \in d.flags : x.ns \in d.namespaces}
      /\ e.segments = {x \in d.segments : x.ns \in d.namespaces}
      /\ e.variants = {x \in d.variants : HasFlag(e, x.ns, x.flag)}
      /\ e.rules = {x \in d.rules : HasFlag(e, x.ns, x.flag)}
      /\ e.rollouts = {x \in d.rollouts : HasFlag(e, x.ns, x.flag)}
      /\ e.constraints = {x \in d.constraints : HasSegment(e, x.ns, x.segment)}
      /\ e.ruleSegments = {x \in d.ruleSegments :
                             HasId(e.rules, x.rule) /\ HasSegment(e, x.ns, x.segment)}
      /\ e.distributions = {x \in d.distributions :
                             HasId(e.rules, x.rule) /\ HasId(e.variants, x.variant)}
      /\ e.rolloutSegments = {x \in d.rolloutSegments :
                             HasId(e.rollouts, x.rollout) /\ HasSegment(e, x.ns, x.segment)}
    BY CascadeFields
<1> HIDE DEF e
<1>2. Closed(e)
    BY <1>1 DEF Closed
<1>3. UniqueKeys(e)
    BY <1>1 DEF UniqueKeys
<1> QED
    BY <1>1, <1>2, <1>3, AcceptableIsClosed DEF Acceptable, e

-----------------------------------------------------------------------------
(***************************************************************************)
(* What a change does.  A row that has an identifier was there before, in  *)
(* its namespace, or has an identifier that was given out.  A distribution *)
(* joins a rule and a variant that one joined before.  A rollout's segment *)
(* was there before, or is of the rollout's namespace.  A rule has the     *)
(* operator and the rank it had, or that column of it is renewed.          *)
(***************************************************************************)
Kept(t, u, given) == \A y \in u : y.id \in given \/ \E x \in t : x.id = y.id
KeptInNamespace(t, u, given) ==
    \A y \in u : y.id \in given \/ \E x \in t : x.id = y.id /\ x.ns = y.ns
JoinsKept(d) ==
    \A y \in d.distributions : \E x \in db.distributions : x.rule = y.rule /\ x.variant = y.variant
SegmentsOwn(d) ==
    \A y \in d.rolloutSegments :
      y \in db.rolloutSegments \/ \A r \in d.rollouts : r.id = y.rollout => r.ns = y.ns
SameRule(x, y, renewed) ==
    /\ x.operator = y.operator \/ <<y.id, "operator">> \in renewed
    /\ x.rank = y.rank \/ <<y.id, "rank">> \in renewed
ColumnsKept(d, renewed) ==
    \A y \in d.rules, x \in db.rules : x.id = y.id => SameRule(x, y, renewed)

IdsKept(d, given) ==
    /\ d \in Database /\ UniqueIds(d)
    /\ KeptInNamespace(db.variants, d.variants, given)
    /\ KeptInNamespace(db.rules, d.rules, given)
    /\ KeptInNamespace(db.rollouts, d.rollouts, given)
    /\ Kept(db.constraints, d.constraints, given)
    /\ Kept(db.distributions, d.distributions, given)

Change(d, given, renewed) ==
    IdsKept(d, given) /\ JoinsKept(d) /\ SegmentsOwn(d) /\ ColumnsKept(d, renewed)

LEMMA UniqueTables ==
    ASSUME NEW d
    PROVE  UniqueIds(d) <=>
             /\ \A x, y \in d.variants : x.id = y.id => x = y
             /\ \A x, y \in d.rules : x.id = y.id => x = y
             /\ \A x, y \in d.rollouts : x.id = y.id => x = y
             /\ \A x, y \in d.constraints : x.id = y.id => x = y
             /\ \A x, y \in d.distributions : x.id = y.id => x = y
BY DEF UniqueIds, IdTables

\* No row has an identifier that is to come.
LEMMA UnusedTables ==
    ASSUME TypeOK
    PROVE  /\ \A x \in db.variants : x.id \notin unused
           /\ \A x \in db.rules : x.id \notin unused
           /\ \A x \in db.rollouts : x.id \notin unused
           /\ \A x \in db.constraints : x.id \notin unused
           /\ \A x \in db.distributions : x.id \notin unused
BY DEF TypeOK, IdTables

\* Changes that only take rows with identifiers away, such as a cascade.
LEMMA Shrinks ==
    ASSUME TypeOK, NEW d \in Database, d.variants \subseteq db.variants,
           d.rules \subseteq db.rules, d.rollouts \subseteq db.rollouts,
           d.constraints \subseteq db.constraints, d.distributions \subseteq db.distributions,
           d.rolloutSegments \subseteq db.rolloutSegments
    PROVE  Change(d, {}, {})
<1>1. UniqueIds(db)
    BY DEF TypeOK
<1>2. UniqueIds(d) /\ \A x, y \in db.rules : x.id = y.id => x = y
    BY <1>1, UniqueTables
<1>3. IdsKept(d, {})
    BY <1>2 DEF IdsKept, Kept, KeptInNamespace
<1>4. JoinsKept(d) /\ SegmentsOwn(d) /\ ColumnsKept(d, {})
    BY <1>2 DEF JoinsKept, SegmentsOwn, ColumnsKept, SameRule
<1> QED
    BY <1>3, <1>4 DEF Change

\* What follows from a change is a change of the same kind.
LEMMA CascadeChanges ==
    ASSUME NEW d, NEW given, NEW renewed, Change(d, given, renewed)
    PROVE  Change(Cascade(d), given, renewed)
<1> DEFINE e == Cascade(d)
<1>1. d \in Database /\ UniqueIds(d)
    BY DEF Change, IdsKept
<1>2. /\ e \in Database /\ e.variants \subseteq d.variants
      /\ e.rules \subseteq d.rules /\ e.rollouts \subseteq d.rollouts
      /\ e.constraints \subseteq d.constraints /\ e.distributions \subseteq d.distributions
      /\ e.rolloutSegments \subseteq d.rolloutSegments
    BY <1>1, CascadeFields
<1> HIDE DEF e
<1>3. UniqueIds(e)
    BY <1>1, <1>2, UniqueTables
<1>4. IdsKept(e, given)
    BY <1>2, <1>3 DEF Change, IdsKept, Kept, KeptInNamespace
<1>5. JoinsKept(e) /\ SegmentsOwn(e) /\ ColumnsKept(e, renewed)
    BY <1>2 DEF Change, JoinsKept, SegmentsOwn, ColumnsKept
<1>6. Change(e, given, renewed)
    BY <1>4, <1>5 DEF Change
<1> QED
    BY <1>6 DEF e

-----------------------------------------------------------------------------
(* The requests of one transaction.                                        *)

LEMMA NamespaceChanges ==
    ASSUME TypeOK, NEW n
    PROVE  /\ n \in Namespace => Change([db EXCEPT !.namespaces = @ \cup {n}], {}, {})
           /\ Change(Cascade([db EXCEPT !.namespaces = @ \ {n}]), {}, {})
<1> DEFINE d == [db EXCEPT !.namespaces = @ \cup {n}]
           e == [db EXCEPT !.namespaces = @ \ {n}]
<1>1. db \in Database
    BY DEF TypeOK
<1>2. /\ n \in Namespace => d \in Database
      /\ d.variants = db.variants /\ d.rules = db.rules
      /\ d.rollouts = db.rollouts /\ d.constraints = db.constraints
      /\ d.distributions = db.distributions /\ d.rolloutSegments = db.rolloutSegments
    BY <1>1 DEF Database
<1>3. /\ e \in Database /\ e.variants = db.variants /\ e.rules = db.rules
      /\ e.rollouts = db.rollouts /\ e.constraints = db.constraints
      /\ e.distributions = db.distributions /\ e.rolloutSegments = db.rolloutSegments
    BY <1>1 DEF Database
<1> HIDE DEF d, e
<1>4. (n \in Namespace => Change(d, {}, {})) /\ Change(Cascade(e), {}, {})
    BY <1>2, <1>3, Shrinks, CascadeChanges
<1> QED
    BY <1>4 DEF d, e

LEMMA FlagChanges ==
    ASSUME TypeOK, NEW F \in SUBSET FlagRow
    PROVE  /\ Change([db EXCEPT !.flags = F], {}, {})
           /\ Change(Cascade([db EXCEPT !.flags = F]), {}, {})
<1> DEFINE d == [db EXCEPT !.flags = F]
<1>1. db \in Database
    BY DEF TypeOK
<1>2. /\ d \in Database /\ d.variants = db.variants /\ d.rules = db.rules
      /\ d.rollouts = db.rollouts /\ d.constraints = db.constraints
      /\ d.distributions = db.distributions /\ d.rolloutSegments = db.rolloutSegments
    BY <1>1 DEF Database, FlagRow
<1> HIDE DEF d
<1>4. Change(d, {}, {}) /\ Change(Cascade(d), {}, {})
    BY <1>2, Shrinks, CascadeChanges
<1> QED
    BY <1>4 DEF d

LEMMA SegmentChanges ==
    ASSUME TypeOK, NEW T \in SUBSET SegmentRow
    PROVE  /\ Change([db EXCEPT !.segments = T], {}, {})
           /\ Change(Cascade([db EXCEPT !.segments = T]), {}, {})
<1> DEFINE d == [db EXCEPT !.segments = T]
<1>1. db \in Database
    BY DEF TypeOK
<1>2. /\ d \in Database /\ d.variants = db.variants /\ d.rules = db.rules
      /\ d.rollouts = db.rollouts /\ d.constraints = db.constraints
      /\ d.distributions = db.distributions /\ d.rolloutSegments = db.rolloutSegments
    BY <1>1 DEF Database, SegmentRow
<1> HIDE DEF d
<1>4. Change(d, {}, {}) /\ Change(Cascade(d), {}, {})
    BY <1>2, Shrinks, CascadeChanges
<1> QED
    BY <1>4 DEF d

\* A table of rows with identifiers that gets a row with a new one, or has a row
\* replaced by one with the same.
Extends(t, u, given) ==
    /\ KeptInNamespace(t, u, given)
    /\ \A x, y \in u : x.id = y.id => x = y

LEMMA RowAdded ==
    ASSUME NEW t, NEW row, \A x, y \in t : x.id = y.id => x = y, \A x \in t : x.id # row.id
    PROVE  Extends(t, t \cup {row}, {row.id})
BY DEF Extends, KeptInNamespace

LEMMA RowReplaced ==
    ASSUME NEW t, NEW old \in t, NEW row, row.id = old.id, row.ns = old.ns,
           \A x, y \in t : x.id = y.id => x = y
    PROVE  Extends(t, (t \ {old}) \cup {row}, {})
BY DEF Extends, KeptInNamespace

LEMMA VariantChanges ==
    ASSUME TypeOK, NEW V \in SUBSET VariantRow, NEW given, Extends(db.variants, V, given)
    PROVE  Change([db EXCEPT !.variants = V], given, {})
<1> DEFINE d == [db EXCEPT !.variants = V]
<1>1. db \in Database /\ UniqueIds(db)
    BY DEF TypeOK
<1>2. /\ d \in Database /\ d.variants = V /\ d.rules = db.rules
      /\ d.rollouts = db.rollouts /\ d.constraints = db.constraints
      /\ d.distributions = db.distributions /\ d.rolloutSegments = db.rolloutSegments
    BY <1>1 DEF Database, VariantRow
<1> HIDE DEF d
<1>3. UniqueIds(d) /\ \A x, y \in db.rules : x.id = y.id => x = y
    BY <1>1, <1>2, UniqueTables DEF Extends
<1>4. IdsKept(d, given)
    BY <1>2, <1>3 DEF IdsKept, Extends, Kept, KeptInNamespace
<1>5. JoinsKept(d) /\ SegmentsOwn(d) /\ ColumnsKept(d, {})
    BY <1>2, <1>3 DEF JoinsKept, SegmentsOwn, ColumnsKept, SameRule
<1> QED
    BY <1>4, <1>5 DEF Change, d

LEMMA ConstraintChanges ==
    ASSUME TypeOK, NEW T \in SUBSET ConstraintsRow, NEW given, Extends(db.constraints, T, given)
    PROVE  Change([db EXCEPT !.constraints = T], given, {})
<1> DEFINE d == [db EXCEPT !.constraints = T]
<1>1. db \in Database /\ UniqueIds(db)
    BY DEF TypeOK
<1>2. /\ d \in Database /\ d.constraints = T /\ d.rules = db.rules
      /\ d.rollouts = db.rollouts /\ d.variants = db.variants
      /\ d.distributions = db.distributions /\ d.rolloutSegments = db.rolloutSegments
    BY <1>1 DEF Database, ConstraintsRow
<1> HIDE DEF d
<1>3. UniqueIds(d) /\ \A x, y \in db.rules : x.id = y.id => x = y
    BY <1>1, <1>2, UniqueTables DEF Extends
<1>4. IdsKept(d, given)
    BY <1>2, <1>3 DEF IdsKept, Extends, Kept, KeptInNamespace
<1>5. JoinsKept(d) /\ SegmentsOwn(d) /\ ColumnsKept(d, {})
    BY <1>2, <1>3 DEF JoinsKept, SegmentsOwn, ColumnsKept, SameRule
<1> QED
    BY <1>4, <1>5 DEF Change, d

LEMMA RuleChanges ==
    ASSUME TypeOK, NEW R \in SUBSET RuleRow, NEW T \in SUBSET RuleSegmentRow, NEW given,
           NEW renewed, Extends(db.rules, R, given),
           \A y \in R, x \in db.rules : x.id = y.id => SameRule(x, y, renewed)
    PROVE  Change([db EXCEPT !.rules = R, !.ruleSegments = T], given, renewed)
<1> DEFINE d == [db EXCEPT !.rules = R, !.ruleSegments = T]
<1>1. db \in Database /\ UniqueIds(db)
    BY DEF TypeOK
<1>2. /\ d \in Database /\ d.rules = R /\ d.constraints = db.constraints
      /\ d.rollouts = db.rollouts /\ d.variants = db.variants
      /\ d.distributions = db.distributions /\ d.rolloutSegments = db.rolloutSegments
    BY <1>1 DEF Database, RuleRow, RuleSegmentRow
<1> HIDE DEF d
<1>3. UniqueIds(d)
    BY <1>1, <1>2, UniqueTables DEF Extends
<1>4. IdsKept(d, given)
    BY <1>2, <1>3 DEF IdsKept, Extends, Kept, KeptInNamespace
<1>5. JoinsKept(d) /\ SegmentsOwn(d) /\ ColumnsKept(d, renewed)
    BY <1>2, <1>3 DEF JoinsKept, SegmentsOwn, ColumnsKept, SameRule
<1> QED
    BY <1>4, <1>5 DEF Change, d

LEMMA RolloutChanges ==
    ASSUME TypeOK, NEW R \in SUBSET RolloutRow, NEW T \in SUBSET RolloutSegmentRow, NEW given,
           Extends(db.rollouts, R, given),
           \A y \in T : y \in db.rolloutSegments \/ \A r \in R : r.id = y.rollout => r.ns = y.ns
    PROVE  Change([db EXCEPT !.rollouts = R, !.rolloutSegments = T], given, {})
<1> DEFINE d == [db EXCEPT !.rollouts = R, !.rolloutSegments = T]
<1>1. db \in Database /\ UniqueIds(db)
    BY DEF TypeOK
<1>2. /\ d \in Database /\ d.rollouts = R /\ d.constraints = db.constraints
      /\ d.rules = db.rules /\ d.variants = db.variants
      /\ d.distributions = db.distributions /\ d.rolloutSegments = T
    BY <1>1 DEF Database, RolloutRow, RolloutSegmentRow
<1> HIDE DEF d
<1>3. UniqueIds(d) /\ \A x, y \in db.rules : x.id = y.id => x = y
    BY <1>1, <1>2, UniqueTables DEF Extends
<1>4. IdsKept(d, given)
    BY <1>2, <1>3 DEF IdsKept, Extends, Kept, KeptInNamespace
<1>5. JoinsKept(d) /\ SegmentsOwn(d) /\ ColumnsKept(d, {})
    BY <1>2, <1>3 DEF JoinsKept, SegmentsOwn, ColumnsKept, SameRule
<1> QED
    BY <1>4, <1>5 DEF Change, d

\* Rows of a table with identifiers taken away, with what follows from it.
LEMMA RowsDeleted ==
    ASSUME TypeOK, NEW T, NEW d \in {[db EXCEPT !.variants = @ \ T], [db EXCEPT !.rules = @ \ T],
             [db EXCEPT !.rollouts = @ \ T], [db EXCEPT !.constraints = @ \ T],
             [db EXCEPT !.distributions = @ \ T]}
    PROVE  Change(d, {}, {}) /\ Change(Cascade(d), {}, {})
<1>1. db \in Database
    BY DEF TypeOK
<1>2. /\ d \in Database /\ d.variants \subseteq db.variants /\ d.rules \subseteq db.rules
      /\ d.rollouts \subseteq db.rollouts /\ d.constraints \subseteq db.constraints
      /\ d.distributions \subseteq db.distributions
      /\ d.rolloutSegments \subseteq db.rolloutSegments
    BY <1>1 DEF Database
<1> QED
    BY <1>2, Shrinks, CascadeChanges

-----------------------------------------------------------------------------
Stages ==
    {"idle", "namespace", "countFlags", "deleteNamespace", "validate", "write", "rules",
     "segments"}

RuleColumns == Id \X {"operator", "rank"}

\* What the requests keep, and what they know, by client.
Shape ==
    /\ pc \in [Client -> Stages]
    /\ req = [c \in Client |-> req[c]]
    /\ got \in [Client -> SUBSET RuleRow]
    /\ answer = [c \in Client |-> answer[c]]
    /\ updated \in [Client -> SUBSET RuleColumns]
    /\ since \in [Client -> SUBSET (Namespace \X FlagKey)]

\* A request of one transaction, whatever it is.
Transaction(d, given, renewed) ==
    /\ Single(d) /\ Change(d, given, renewed)
    /\ given \subseteq unused /\ unused' = unused \ given
    /\ updated' = [c \in Client |->
         updated[c] \cup (IF pc[c] = "segments" THEN renewed ELSE {})]

Transacts ==
    \E d \in Database, given \in SUBSET Id, renewed \in SUBSET RuleColumns :
      Transaction(d, given, renewed)

LEMMA Quietly ==
    ASSUME TypeOK, Shape, NEW d, Single(d), Quiet, Change(d, {}, {})
    PROVE  Transacts
<1>1. updated' = [c \in Client |-> updated[c] \cup (IF pc[c] = "segments" THEN {} ELSE {})] /\ unused' = unused \ {}
    BY DEF Quiet, Shape
<1>2. Transaction(d, {}, {}) /\ d \in Database
    BY <1>1 DEF Transaction, Change, IdsKept
<1> QED
    BY <1>2 DEF Transacts

LEMMA Notedly ==
    ASSUME TypeOK, Shape, NEW d, NEW ids \in SUBSET Id, NEW column \in {"operator", "rank"},
           Single(d), Noted(ids, column), Change(d, {}, ids \X {column})
    PROVE  Transacts
<1>1. /\ unused' = unused \ {} /\ ids \X {column} \in SUBSET RuleColumns
      /\ updated' = [c \in Client |->
           updated[c] \cup (IF pc[c] = "segments" THEN ids \X {column} ELSE {})]
    BY DEF Noted, RuleColumns
<1> DEFINE renewed == ids \X {column}
<1>2. /\ updated' = [c \in Client |->
           updated[c] \cup (IF pc[c] = "segments" THEN renewed ELSE {})]
      /\ Change(d, {}, renewed) /\ renewed \in SUBSET RuleColumns
    BY <1>1
<1> HIDE DEF renewed
<1>3. Transaction(d, {}, renewed) /\ d \in Database
    BY <1>1, <1>2 DEF Transaction, Change, IdsKept
<1> QED
    BY <1>2, <1>3 DEF Transacts

LEMMA Freshly ==
    ASSUME TypeOK, Shape, NEW d, NEW i, Single(d), Fresh(i), Change(d, {i}, {})
    PROVE  Transacts
<1>1. /\ updated' = [c \in Client |-> updated[c] \cup (IF pc[c] = "segments" THEN {} ELSE {})] /\ unused' = unused \ {i}
      /\ i \in unused /\ i \in Id
    BY DEF Fresh, Shape, TypeOK
<1>2. Transaction(d, {i}, {}) /\ d \in Database
    BY <1>1 DEF Transaction, Change, IdsKept
<1> QED
    BY <1>1, <1>2 DEF Transacts

\* The tables of the state, as sets of rows with identifiers of their own.
LEMMA TableRows ==
    ASSUME TypeOK
    PROVE  /\ db \in Database
           /\ db.namespaces \subseteq Namespace /\ db.flags \subseteq FlagRow
           /\ db.variants \subseteq VariantRow /\ db.segments \subseteq SegmentRow
           /\ db.constraints \subseteq ConstraintsRow /\ db.rules \subseteq RuleRow
           /\ db.ruleSegments \subseteq RuleSegmentRow
           /\ db.distributions \subseteq DistributionRow
           /\ db.rollouts \subseteq RolloutRow
           /\ db.rolloutSegments \subseteq RolloutSegmentRow
           /\ \A x, y \in db.variants : x.id = y.id => x = y
           /\ \A x, y \in db.rules : x.id = y.id => x = y
           /\ \A x, y \in db.rollouts : x.id = y.id => x = y
           /\ \A x, y \in db.constraints : x.id = y.id => x = y
           /\ \A x, y \in db.distributions : x.id = y.id => x = y
<1>1. db \in Database /\ UniqueIds(db)
    BY DEF TypeOK
<1> QED
    BY <1>1, Fields, UniqueTables

LEMMA CatalogueTransacts ==
    ASSUME TypeOK, Shape, Catalogue
    PROVE  Transacts
<1>1. ASSUME NEW n \in Namespace, CreateNamespace(n) PROVE Transacts
    BY <1>1, Quietly, NamespaceChanges DEF CreateNamespace
<1>2. ASSUME NEW n \in Namespace, NEW f \in FlagKey, CreateFlag(n, f) PROVE Transacts
    <2> DEFINE row == [ns |-> n, key |-> f, enabled |-> TRUE]
    <2>a. row \in FlagRow
        BY Zenon DEF FlagRow
    <2>1. db.flags \cup {row} \in SUBSET FlagRow
        BY <2>a, TableRows
    <2> QED
        BY <1>2, <2>1, Quietly, FlagChanges DEF CreateFlag
<1>3. ASSUME NEW x \in db.flags, UpdateFlag(x) \/ DeleteFlag(x) PROVE Transacts
    <2>1. (db.flags \ {x}) \cup {[x EXCEPT !.enabled = ~@]} \in SUBSET FlagRow
        BY TableRows DEF FlagRow
    <2>2. db.flags \ {x} \in SUBSET FlagRow
        BY TableRows
    <2> QED
        BY <1>3, <2>1, <2>2, Quietly, FlagChanges DEF UpdateFlag, DeleteFlag
<1>4. ASSUME NEW i \in unused, NEW n \in Namespace, NEW f \in FlagKey, NEW k \in VariantKey,
             CreateVariant(i, n, f, k)
      PROVE  Transacts
    <2> DEFINE row == [id |-> i, ns |-> n, flag |-> f, key |-> k]
    <2>1. db.variants \cup {row} \in SUBSET VariantRow /\ row.id = i
        BY TableRows DEF VariantRow, TypeOK
    <2>2. Extends(db.variants, db.variants \cup {row}, {row.id})
        <3> HIDE DEF row
        <3> QED
            BY <2>1, TableRows, UnusedTables, RowAdded
    <2>3. Change([db EXCEPT !.variants = db.variants \cup {row}], {i}, {})
        BY <2>1, <2>2, VariantChanges
    <2> QED
        BY <1>4, <2>3, Freshly DEF CreateVariant
<1>5. ASSUME NEW x \in db.variants, NEW k \in VariantKey, UpdateVariant(x, k) PROVE Transacts
    <2> DEFINE row == [x EXCEPT !.key = k]
    <2>1. (db.variants \ {x}) \cup {row} \in SUBSET VariantRow /\ row.id = x.id /\ row.ns = x.ns
        BY TableRows DEF VariantRow
    <2>2. Extends(db.variants, (db.variants \ {x}) \cup {row}, {})
        BY <2>1, TableRows, RowReplaced
    <2>3. Change([db EXCEPT !.variants = (db.variants \ {x}) \cup {row}], {}, {})
        BY <2>1, <2>2, VariantChanges
    <2> QED
        BY <1>5, <2>3, Quietly DEF UpdateVariant
<1>6. ASSUME NEW x \in db.variants, DeleteVariant(x) PROVE Transacts
    BY <1>6, Quietly, RowsDeleted DEF DeleteVariant
<1>7. ASSUME NEW n \in Namespace, NEW k \in SegmentKey, CreateSegment(n, k) PROVE Transacts
    <2>1. db.segments \cup {[ns |-> n, key |-> k, match |-> "all"]} \in SUBSET SegmentRow
        BY TableRows DEF SegmentRow
    <2> QED
        BY <1>7, <2>1, Quietly, SegmentChanges DEF CreateSegment
<1>8. ASSUME NEW x \in db.segments, UpdateSegment(x) \/ DeleteSegment(x) PROVE Transacts
    <2>1. (db.segments \ {x}) \cup {[x EXCEPT !.match = IF @ = "all" THEN "any" ELSE "all"]}
            \in SUBSET SegmentRow
        BY TableRows DEF SegmentRow
    <2>2. db.segments \ {x} \in SUBSET SegmentRow
        BY TableRows
    <2> QED
        BY <1>8, <2>1, <2>2, Quietly, SegmentChanges DEF UpdateSegment, DeleteSegment
<1>9. ASSUME NEW i \in unused, NEW n \in Namespace, NEW k \in SegmentKey, NEW b \in Comparison,
             CreateConstraint(i, n, k, b)
      PROVE  Transacts
    <2> DEFINE row == ConstraintRow(i, n, k, b)
    <2>1. db.constraints \cup {row} \in SUBSET ConstraintsRow /\ row.id = i
        BY TableRows DEF ConstraintsRow, TypeOK, ConstraintRow
    <2>2. Extends(db.constraints, db.constraints \cup {row}, {row.id})
        <3> HIDE DEF row
        <3> QED
            BY <2>1, TableRows, UnusedTables, RowAdded
    <2>3. Change([db EXCEPT !.constraints = db.constraints \cup {row}], {i}, {})
        BY <2>1, <2>2, ConstraintChanges
    <2> QED
        BY <1>9, <2>3, Freshly DEF CreateConstraint
<1>10. ASSUME NEW x \in db.constraints, NEW b \in Comparison, UpdateConstraint(x, b) PROVE Transacts
    <2> DEFINE row == ConstraintRow(x.id, x.ns, x.segment, b)
    <2>1. /\ (db.constraints \ {x}) \cup {row} \in SUBSET ConstraintsRow
          /\ row.id = x.id /\ row.ns = x.ns
        BY TableRows DEF ConstraintsRow, ConstraintRow
    <2>2. Extends(db.constraints, (db.constraints \ {x}) \cup {row}, {})
        BY <2>1, TableRows, RowReplaced
    <2>3. Change([db EXCEPT !.constraints = (db.constraints \ {x}) \cup {row}], {}, {})
        BY <2>1, <2>2, ConstraintChanges
    <2> QED
        BY <1>10, <2>3, Quietly DEF UpdateConstraint
<1>11. ASSUME NEW x \in db.constraints, DeleteConstraint(x) PROVE Transacts
    BY <1>11, Quietly, RowsDeleted DEF DeleteConstraint
<1> QED
    BY <1>1, <1>2, <1>3, <1>4, <1>5, <1>6, <1>7, <1>8, <1>9, <1>10, <1>11, Zenon DEF Catalogue

LEMMA OperatorType ==
    ASSUME NEW S, NEW o \in Operators
    PROVE  /\ SegmentOperator(S, o) \in Operators
           /\ RolloutOperator(S, o) \in Operators \cup {"threshold"}
BY DEF SegmentOperator, RolloutOperator, Operators

LEMMA CreateRuleTransacts ==
    ASSUME TypeOK, Shape, NEW n \in Namespace, NEW f \in FlagKey, NEW o \in Operators,
           NEW i \in unused, NEW k \in Rank, NEW S \in SomeSegments, CreateRule(i, n, f, k, S, o)
    PROVE  Transacts
<1> DEFINE row == [id |-> i, ns |-> n, flag |-> f, rank |-> k,
                   operator |-> SegmentOperator(S, o)]
           T == db.ruleSegments \cup RuleSegments(i, n, S)
<1>1. row \in RuleRow /\ row.id = i
    BY OperatorType, StoreAssumption DEF RuleRow, TypeOK
<1>2. T \in SUBSET RuleSegmentRow
    BY TableRows DEF RuleSegments, RuleSegmentRow, SomeSegments, TypeOK
<1>3. Fresh(i) /\ Single([db EXCEPT !.rules = db.rules \cup {row}, !.ruleSegments = T])
    BY DEF CreateRule
<1> HIDE DEF row, T
<1>4. db.rules \cup {row} \in SUBSET RuleRow
    BY <1>1, TableRows
<1>5. Extends(db.rules, db.rules \cup {row}, {row.id})
    BY <1>1, TableRows, UnusedTables, RowAdded
<1>6. \A y \in db.rules \cup {row}, x \in db.rules :
        x.id = y.id => SameRule(x, y, {})
    BY <1>1, TableRows, UnusedTables DEF SameRule
<1>7. Change([db EXCEPT !.rules = db.rules \cup {row}, !.ruleSegments = T], {i}, {})
    BY <1>1, <1>2, <1>4, <1>5, <1>6, RuleChanges
<1> QED
    BY <1>3, <1>7, Freshly

LEMMA UpdateRuleTransacts ==
    ASSUME TypeOK, Shape, NEW n \in Namespace, NEW f \in FlagKey, NEW o \in Operators,
           NEW i \in Id, NEW S \in SomeSegments, UpdateRule(i, n, f, S, o)
    PROVE  Transacts
<1> DEFINE F(x) == IF x.id = i /\ x.ns = n /\ x.flag = f
                   THEN [x EXCEPT !.operator = SegmentOperator(S, o)] ELSE x
           R == {F(x) : x \in db.rules}
           T == {x \in db.ruleSegments : ~(x.rule = i /\ x.ns = n)} \cup RuleSegments(i, n, S)
<1>1. \A x \in db.rules : /\ F(x) \in RuleRow /\ F(x).id = x.id /\ F(x).ns = x.ns
                          /\ F(x).rank = x.rank
                          /\ x.id # i => F(x).operator = x.operator
    BY TableRows, OperatorType DEF RuleRow
<1>2. T \in SUBSET RuleSegmentRow
    BY TableRows DEF RuleSegments, RuleSegmentRow, SomeSegments, TypeOK
<1>3. Single([db EXCEPT !.rules = R, !.ruleSegments = T]) /\ Noted({i}, "operator")
    BY DEF UpdateRule
<1> HIDE DEF F, T
<1>4. R \in SUBSET RuleRow
    BY <1>1
<1>5. Extends(db.rules, R, {})
    BY <1>1, TableRows DEF Extends, KeptInNamespace
<1>6. \A y \in R, x \in db.rules : x.id = y.id => SameRule(x, y, {i} \X {"operator"})
    BY <1>1, TableRows DEF SameRule
<1> HIDE DEF R
<1> DEFINE d == [db EXCEPT !.rules = R, !.ruleSegments = T]
<1>7. Change(d, {}, {i} \X {"operator"})
    BY <1>2, <1>4, <1>5, <1>6, RuleChanges
<1> HIDE DEF d
<1>8. Single(d)
    BY <1>3 DEF d
<1> QED
    BY <1>3, <1>7, <1>8, Notedly

\* Rules of the table that get other ranks, and the others of these rows.
LEMMA RankedChanges ==
    ASSUME TypeOK, NEW S \in SUBSET db.rules, NEW n, NEW f, NEW ids, NEW place \in [ids -> Nat]
    PROVE  Change([db EXCEPT !.rules = Ranked(S, n, f, place)], {}, ids \X {"rank"})
<1> DEFINE F(x) == IF x.id \in ids /\ x.ns = n /\ x.flag = f
                   THEN [x EXCEPT !.rank = place[x.id]] ELSE x
           R == {F(x) : x \in S}
           T == db.ruleSegments
<1>1. \A x \in S : /\ F(x) \in RuleRow /\ F(x).id = x.id /\ F(x).ns = x.ns
                   /\ F(x).operator = x.operator
                   /\ x.id \notin ids => F(x).rank = x.rank
    BY TableRows DEF RuleRow
<1>2. Ranked(S, n, f, place) = R
    BY DEF Ranked
<1> HIDE DEF F
<1>3. R \in SUBSET RuleRow
    BY <1>1
<1>4. Extends(db.rules, R, {})
    BY <1>1, TableRows DEF Extends, KeptInNamespace
<1>5. \A y \in R, x \in db.rules : x.id = y.id => SameRule(x, y, ids \X {"rank"})
    BY <1>1, TableRows DEF SameRule
<1> HIDE DEF R
<1>6. T \in SUBSET RuleSegmentRow
    BY TableRows
<1>7. Change([db EXCEPT !.rules = R, !.ruleSegments = T], {}, ids \X {"rank"})
    BY <1>3, <1>4, <1>5, <1>6, RuleChanges
<1>8. [db EXCEPT !.rules = R, !.ruleSegments = T] = [db EXCEPT !.rules = R]
    BY TableRows DEF Database
<1> QED
    BY <1>2, <1>7, <1>8

\* An order of rules is a function from their identifiers to places.
LEMMA PlacesAre ==
    ASSUME NEW S, NEW place \in Places(S)
    PROVE  DOMAIN place = S /\ place \in [S -> Nat]
<1>1. place \in [S -> 1..Cardinality(S)]
    BY DEF Places
<1> QED
    BY <1>1

LEMMA OrderRulesTransacts ==
    ASSUME TypeOK, Shape, NEW n, NEW f, NEW S \in SUBSET Id, NEW place \in Places(S),
           OrderRules(n, f, place)
    PROVE  Transacts
<1> DEFINE d == [db EXCEPT !.rules = Ranked(db.rules, n, f, place)]
<1>1. DOMAIN place = S /\ place \in [S -> Nat]
    BY PlacesAre
<1>2. Single(d) /\ Noted(S, "rank")
    BY <1>1 DEF OrderRules
<1>3. Change(d, {}, S \X {"rank"})
    BY <1>1, RankedChanges
<1> HIDE DEF d
<1> QED
    BY <1>2, <1>3, Notedly

LEMMA DeleteRuleTransacts ==
    ASSUME TypeOK, Shape, NEW x \in db.rules, DeleteRule(x)
    PROVE  Transacts
<1> DEFINE rest == {y \in db.rules : y.ns = x.ns /\ y.flag = x.flag /\ y # x}
           S == {y.id : y \in rest}
<1>1. PICK place \in Places(S) :
        /\ Single(Cascade([db EXCEPT !.rules = Ranked(@ \ {x}, x.ns, x.flag, place)]))
        /\ Noted(DOMAIN place, "rank")
    BY DEF DeleteRule
<1>2. S \in SUBSET Id
    BY TableRows DEF RuleRow
<1> HIDE DEF S
<1> DEFINE left == db.rules \ {x}
           n == x.ns
           f == x.flag
           d == [db EXCEPT !.rules = Ranked(left, n, f, place)]
<1>3. DOMAIN place = S /\ place \in [S -> Nat]
    BY <1>1, PlacesAre
<1>4. Single(Cascade(d)) /\ Noted(S, "rank")
    BY <1>1, <1>3
<1>5. left \in SUBSET db.rules
    OBVIOUS
<1> HIDE DEF left, n, f
<1>6. Change(d, {}, S \X {"rank"})
    BY <1>3, <1>5, RankedChanges
<1> HIDE DEF d
<1>7. Change(Cascade(d), {}, S \X {"rank"})
    BY <1>6, CascadeChanges
<1> QED
    BY <1>2, <1>4, <1>7, Notedly

LEMMA CreateRolloutTransacts ==
    ASSUME TypeOK, Shape, NEW n \in Namespace, NEW f \in FlagKey, NEW o \in Operators,
           NEW i \in unused, NEW S \in SUBSET SegmentKey, CreateRollout(i, n, f, S, o)
    PROVE  Transacts
<1> DEFINE row == [id |-> i, ns |-> n, flag |-> f, operator |-> RolloutOperator(S, o)]
           T == db.rolloutSegments \cup RolloutSegments(i, n, S)
<1>1. row \in RolloutRow /\ row.id = i /\ row.ns = n
    BY OperatorType DEF RolloutRow, TypeOK
<1>2. T \in SUBSET RolloutSegmentRow
    BY TableRows DEF RolloutSegments, RolloutSegmentRow, TypeOK
<1>3. Fresh(i) /\ Single([db EXCEPT !.rollouts = db.rollouts \cup {row}, !.rolloutSegments = T])
    BY DEF CreateRollout
<1>t. \A y \in T : y \in db.rolloutSegments \/ (y.rollout = i /\ y.ns = n)
    BY DEF RolloutSegments
<1> HIDE DEF row, T
<1>4. db.rollouts \cup {row} \in SUBSET RolloutRow
    BY <1>1, TableRows
<1>5. Extends(db.rollouts, db.rollouts \cup {row}, {row.id})
    BY <1>1, TableRows, UnusedTables, RowAdded
<1>6. \A y \in T : y \in db.rolloutSegments
                   \/ \A r \in db.rollouts \cup {row} : r.id = y.rollout => r.ns = y.ns
    BY <1>1, <1>t, UnusedTables
<1>7. Change([db EXCEPT !.rollouts = db.rollouts \cup {row}, !.rolloutSegments = T], {i}, {})
    BY <1>1, <1>2, <1>4, <1>5, <1>6, RolloutChanges
<1> QED
    BY <1>3, <1>7, Freshly

LEMMA UpdateRolloutTransacts ==
    ASSUME TypeOK, Shape, NEW n \in Namespace, NEW f \in FlagKey, NEW o \in Operators,
           NEW i \in Id, NEW S \in SUBSET SegmentKey, UpdateRollout(i, n, f, S, o)
    PROVE  Transacts
<1> DEFINE F(x) == IF x.id = i THEN [x EXCEPT !.operator = RolloutOperator(S, o)] ELSE x
           R == {F(x) : x \in db.rollouts}
           T == {x \in db.rolloutSegments : x.rollout # i} \cup RolloutSegments(i, n, S)
           new == [db EXCEPT !.rollouts = R, !.rolloutSegments = T]
           found == \E x \in db.rollouts : /\ x.id = i /\ x.ns = n /\ x.flag = f
                                           /\ (x.operator = "threshold") = (S = {})
<1>1. \A x \in db.rollouts : F(x) \in RolloutRow /\ F(x).id = x.id /\ F(x).ns = x.ns
    BY TableRows, OperatorType DEF RolloutRow
<1>2. T \in SUBSET RolloutSegmentRow
    BY TableRows DEF RolloutSegments, RolloutSegmentRow, TypeOK
<1>3. Single(IF found THEN new ELSE db) /\ Quiet
    BY DEF UpdateRollout
<1>t. \A y \in T : y \in db.rolloutSegments \/ (y.rollout = i /\ y.ns = n)
    BY DEF RolloutSegments
<1> HIDE DEF F
<1>4. R \in SUBSET RolloutRow
    BY <1>1
<1>5. Extends(db.rollouts, R, {})
    BY <1>1, TableRows DEF Extends, KeptInNamespace
<1>6. ASSUME found PROVE Change(new, {}, {})
    <2>1. \A r \in R : r.id = i => r.ns = n
        BY <1>1, <1>6, TableRows
    <2> HIDE DEF R, T
    <2>2. \A y \in T : y \in db.rolloutSegments \/ \A r \in R : r.id = y.rollout => r.ns = y.ns
        BY <2>1, <1>t
    <2> QED
        BY <1>2, <1>4, <1>5, <2>2, RolloutChanges
<1>7. Change(db, {}, {})
    BY TableRows, Shrinks
<1> HIDE DEF new, found
<1> QED
    BY <1>3, <1>6, <1>7, Quietly

LEMMA StrategiesTransact ==
    ASSUME TypeOK, Shape, Strategies
    PROVE  Transacts
<1>1. \A x \in db.rules : x.id \in Id
    BY TableRows DEF RuleRow
<1>2. \A x \in db.rollouts : x.id \in Id
    BY TableRows DEF RolloutRow
<1>3. CASE \E n \in Namespace, f \in FlagKey, o \in Operators, i \in unused, k \in Rank,
              S \in SomeSegments : CreateRule(i, n, f, k, S, o)
    BY <1>3, CreateRuleTransacts, Zenon
<1>4. CASE \E n \in Namespace, f \in FlagKey, o \in Operators, x \in db.rules,
              S \in SomeSegments : UpdateRule(x.id, n, f, S, o)
    <2>1. PICK n \in Namespace, f \in FlagKey, o \in Operators, x \in db.rules, S \in SomeSegments :
            UpdateRule(x.id, n, f, S, o)
        BY <1>4
    <2> DEFINE i == x.id
    <2>2. i \in Id /\ UpdateRule(i, n, f, S, o)
        BY <1>1, <2>1
    <2> HIDE DEF i
    <2> QED
        BY <2>2, UpdateRuleTransacts
<1>5. CASE \E n \in Namespace, f \in FlagKey, o \in Operators, i \in unused,
              S \in SUBSET SegmentKey : CreateRollout(i, n, f, S, o)
    BY <1>5, CreateRolloutTransacts, Zenon
<1>6. CASE \E n \in Namespace, f \in FlagKey, o \in Operators, x \in db.rollouts,
              S \in SUBSET SegmentKey : UpdateRollout(x.id, n, f, S, o)
    <2>1. PICK n \in Namespace, f \in FlagKey, o \in Operators, x \in db.rollouts,
               S \in SUBSET SegmentKey : UpdateRollout(x.id, n, f, S, o)
        BY <1>6
    <2> DEFINE i == x.id
    <2>2. i \in Id /\ UpdateRollout(i, n, f, S, o)
        BY <1>2, <2>1
    <2> HIDE DEF i
    <2> QED
        BY <2>2, UpdateRolloutTransacts
<1>7. ASSUME NEW x \in db.rules, DeleteRule(x) PROVE Transacts
    BY <1>7, DeleteRuleTransacts
<1>10. CASE \E n \in Namespace, f \in FlagKey :
              \E S \in SUBSET {x.id : x \in {x \in db.rules : x.ns = n /\ x.flag = f}} :
                \E place \in Places(S) : OrderRules(n, f, place)
    <2>1. PICK n \in Namespace, f \in FlagKey :
            \E S \in SUBSET {x.id : x \in {x \in db.rules : x.ns = n /\ x.flag = f}} :
              \E place \in Places(S) : OrderRules(n, f, place)
        BY <1>10
    <2>2. PICK S \in SUBSET {x.id : x \in {x \in db.rules : x.ns = n /\ x.flag = f}} :
            \E place \in Places(S) : OrderRules(n, f, place)
        BY <2>1
    <2>3. S \in SUBSET Id
        BY <1>1
    <2> QED
        BY <2>2, <2>3, OrderRulesTransacts
<1>8. ASSUME NEW x \in db.rollouts, DeleteRollout(x) PROVE Transacts
    BY <1>8, Quietly, RowsDeleted DEF DeleteRollout
<1>9. ASSUME NEW x \in db.distributions, DeleteDistribution(x) PROVE Transacts
    BY <1>9, Quietly, RowsDeleted DEF DeleteDistribution
<1> QED
    BY <1>3, <1>4, <1>5, <1>6, <1>7, <1>8, <1>9, <1>10, Zenon DEF Strategies

-----------------------------------------------------------------------------
(***************************************************************************)
(* The inductive invariant: what a request of several statements knows     *)
(* stays true while the others run.  The flags it counts on are there, and *)
(* none of them is in the namespace it is about to delete.  The rule and   *)
(* the variant it has validated may be gone, but have not come back with   *)
(* another namespace.  The rules it has read have their operators and      *)
(* their ranks, except for those updated since.                            *)
(***************************************************************************)
Live(e) == \A x \in since[e] : HasFlag(db, x[1], x[2])

Counted(e) == pc[e] = "deleteNamespace" => \A x \in since[e] : x[1] # req[e].ns

Valid(e) ==
    /\ pc[e] \in {"validate", "write"} =>
         req[e].rule \in Id \ unused /\ req[e].variant \in Id \ unused
    /\ pc[e] = "write" =>
         /\ \A r \in db.rules : r.id = req[e].rule => r.ns = req[e].ns
         /\ \A v \in db.variants : v.id = req[e].variant => v.ns = req[e].ns

Current(e) ==
    pc[e] = "segments" =>
      \A g \in got[e] :
        /\ g.id \notin unused
        /\ \A r \in db.rules : r.id = g.id => SameRule(g, r, updated[e])

Knows(e) == Live(e) /\ Counted(e) /\ Valid(e) /\ Current(e)

StoreInv == TypeOK /\ Shape /\ NamespacesSeparate /\ \A e \in Client : Knows(e)

\* The tables after a step, accepted by the database.
TablesStep(given) ==
    /\ IdsKept(db', given) /\ Acceptable(db') /\ given \subseteq unused /\ unused' = unused \ given
    /\ requests' \in 0..MaxRequests

LEMMA TablesType ==
    ASSUME TypeOK, NEW given, TablesStep(given)
    PROVE  TypeOK'
<1>1. db' \in Database /\ Acceptable(db') /\ UniqueIds(db')
    BY DEF TablesStep, IdsKept
<1>2. /\ \A x \in db'.variants : x.id \notin unused'
      /\ \A x \in db'.rules : x.id \notin unused'
      /\ \A x \in db'.rollouts : x.id \notin unused'
      /\ \A x \in db'.constraints : x.id \notin unused'
      /\ \A x \in db'.distributions : x.id \notin unused'
    BY UnusedTables DEF TablesStep, IdsKept, Kept, KeptInNamespace
<1>3. \A t \in IdTables(db') : \A x \in t : x.id \notin unused'
    BY <1>2 DEF IdTables
<1>4. unused' \subseteq Id /\ requests' \in 0..MaxRequests
    BY DEF TypeOK, TablesStep
<1>5. /\ Acceptable(db)' <=> Acceptable(db')
      /\ UniqueIds(db)' <=> UniqueIds(db')
      /\ IdTables(db)' = IdTables(db')
      /\ (db \in Database)' <=> db' \in Database
    BY DEF Acceptable, Cascade, UniqueKeys, HasFlag, HasSegment, HasId, UniqueIds, IdTables,
           Database
<1> QED
    BY <1>1, <1>3, <1>4, <1>5 DEF TypeOK

\* A distribution joins a rule and a variant that are, if they are still there,
\* of one namespace.
JoinsSound(d) ==
    \A y \in d.distributions :
      /\ y.rule \notin unused /\ y.variant \notin unused
      /\ \A r \in db.rules, v \in db.variants :
           r.id = y.rule /\ v.id = y.variant => r.ns = v.ns

Sound(d, given, renewed) ==
    IdsKept(d, given) /\ JoinsSound(d) /\ SegmentsOwn(d) /\ ColumnsKept(d, renewed)

LEMMA ChangeIsSound ==
    ASSUME TypeOK, NamespacesSeparate, NEW d, NEW given, NEW renewed, Change(d, given, renewed)
    PROVE  Sound(d, given, renewed)
<1>1. \A y \in d.distributions : \E r \in db.rules, v \in db.variants :
        r.id = y.rule /\ v.id = y.variant /\ r.ns = v.ns
    BY DEF Change, JoinsKept, NamespacesSeparate, Separate
<1>2. JoinsSound(d)
    BY <1>1, UnusedTables, TableRows DEF JoinsSound
<1> QED
    BY <1>2 DEF Change, Sound

LEMMA TrySound ==
    ASSUME TypeOK, NamespacesSeparate, NEW d, NEW given, NEW renewed, Sound(d, given, renewed),
           Try(d)
    PROVE  Sound(db', given, renewed) /\ Acceptable(db')
<1>1. CASE Acceptable(d)
    BY <1>1 DEF Try, Store
<1>2. CASE ~Acceptable(d)
    <2>1. db' = db /\ Acceptable(db)
        BY <1>2 DEF Try, Store, TypeOK
    <2>2. Sound(db, {}, {})
        BY TableRows, Shrinks, ChangeIsSound
    <2>3. Sound(db, given, renewed)
        BY <2>2 DEF Sound, IdsKept, Kept, KeptInNamespace, ColumnsKept, SameRule
    <2> QED
        BY <2>1, <2>3
<1> QED
    BY <1>1, <1>2

\* Rows with identifiers do not move to another namespace, and what the database
\* accepts has its parents: so what is joined stays of one namespace.
LEMMA SeparateStep ==
    ASSUME TypeOK, NamespacesSeparate, NEW d, NEW given, NEW renewed, given \subseteq unused,
           Sound(d, given, renewed), Acceptable(d)
    PROVE  Separate(d)
<1>1. d \in Database /\ Closed(d)
    BY AcceptableIsClosed DEF Sound, IdsKept, Acceptable
<1>2. \A r \in d.rules : r.id \notin unused => \E x \in db.rules : x.id = r.id /\ x.ns = r.ns
    BY DEF Sound, IdsKept, KeptInNamespace
<1>3. \A r \in d.variants :
        r.id \notin unused => \E x \in db.variants : x.id = r.id /\ x.ns = r.ns
    BY DEF Sound, IdsKept, KeptInNamespace
<1>4. \A r \in d.rollouts :
        r.id \notin unused => \E x \in db.rollouts : x.id = r.id /\ x.ns = r.ns
    BY DEF Sound, IdsKept, KeptInNamespace
<1>5. ASSUME NEW y \in d.distributions
      PROVE  \E r \in d.rules, v \in d.variants :
               r.id = y.rule /\ v.id = y.variant /\ r.ns = v.ns
    <2>1. /\ y.rule \notin unused /\ y.variant \notin unused
          /\ \A r \in db.rules, v \in db.variants :
               r.id = y.rule /\ v.id = y.variant => r.ns = v.ns
        BY DEF Sound, JoinsSound
    <2>2. PICK r \in d.rules : r.id = y.rule
        BY <1>1 DEF Closed, HasId
    <2>3. PICK v \in d.variants : v.id = y.variant
        BY <1>1 DEF Closed, HasId
    <2>4. r.ns = v.ns
        BY <1>2, <1>3, <2>1, <2>2, <2>3
    <2> QED
        BY <2>2, <2>3, <2>4
<1>6. ASSUME NEW y \in d.rolloutSegments
      PROVE  \E r \in d.rollouts : r.id = y.rollout /\ r.ns = y.ns
    <2>1. PICK r \in d.rollouts : r.id = y.rollout
        BY <1>1 DEF Closed, HasId
    <2>2. CASE y \in db.rolloutSegments
        <3>1. PICK x \in db.rollouts : x.id = y.rollout /\ x.ns = y.ns
            BY <2>2 DEF NamespacesSeparate, Separate
        <3> QED
            BY <1>4, <2>1, <3>1, TableRows, UnusedTables
    <2>3. CASE y \notin db.rolloutSegments
        BY <2>1, <2>3 DEF Sound, SegmentsOwn
    <2> QED
        BY <2>2, <2>3
<1> QED
    BY <1>5, <1>6 DEF Separate

\* What a client knows stays true in a step that does not touch its request.
LEMMA StillKnows ==
    ASSUME TypeOK, NEW e \in Client, Knows(e), NEW given, NEW renewed, given \subseteq unused,
           IdsKept(db', given), ColumnsKept(db', renewed), unused' \subseteq unused,
           pc'[e] = pc[e], req'[e] = req[e], got'[e] = got[e],
           updated[e] \subseteq updated'[e], pc[e] = "segments" => renewed \subseteq updated'[e],
           since'[e] \subseteq since[e], Live(e)'
    PROVE  Knows(e)'
<1>1. Counted(e)'
    BY DEF Knows, Counted
<1>2. \A r \in db'.rules : r.id \notin unused => \E x \in db.rules : x.id = r.id /\ x.ns = r.ns
    BY DEF IdsKept, KeptInNamespace
<1>3. \A r \in db'.variants :
        r.id \notin unused => \E x \in db.variants : x.id = r.id /\ x.ns = r.ns
    BY DEF IdsKept, KeptInNamespace
<1>4. Valid(e)'
    BY <1>2, <1>3 DEF Knows, Valid
<1>5. Current(e)'
    <2> SUFFICES ASSUME pc[e] = "segments", NEW g \in got[e]
                 PROVE  /\ g.id \notin unused'
                        /\ \A r \in db'.rules : r.id = g.id => SameRule(g, r, updated'[e])
        BY DEF Current, SameRule
    <2>1. /\ g.id \notin unused
          /\ \A r \in db.rules : r.id = g.id => SameRule(g, r, updated[e])
        BY DEF Knows, Current
    <2>2. ASSUME NEW r \in db'.rules, r.id = g.id
          PROVE  SameRule(g, r, updated'[e])
        <3>1. PICK x \in db.rules : x.id = r.id
            BY <1>2, <2>1, <2>2
        <3>2. SameRule(x, r, renewed) /\ SameRule(g, x, updated[e])
            BY <2>1, <2>2, <3>1 DEF ColumnsKept
        <3> QED
            BY <3>1, <3>2 DEF SameRule
    <2> QED
        BY <2>1, <2>2
<1> QED
    BY <1>1, <1>4, <1>5 DEF Knows

\* The flags that remain, after a change of the tables.
LEMMA StoreSince ==
    ASSUME Shape, NEW d \in Database, Store(d)
    PROVE  /\ since' \in [Client -> SUBSET (Namespace \X FlagKey)]
           /\ \A e \in Client : since'[e] \subseteq since[e] /\ Live(e)'
<1>1. db' = d /\ since' = [c \in Client |-> since[c] \cap {<<x.ns, x.key>> : x \in d.flags}]
    BY DEF Store
<1>2. ASSUME NEW e \in Client
      PROVE  since'[e] \subseteq since[e] /\ Live(e)'
    BY <1>1 DEF Live, HasFlag
<1>3. since' \in [Client -> SUBSET (Namespace \X FlagKey)]
    BY <1>1 DEF Shape
<1> QED
    BY <1>2, <1>3

-----------------------------------------------------------------------------
(* The invariant, step by step.                                            *)

LEMMA TransactionStep ==
    ASSUME StoreInv, Transacts
    PROVE  StoreInv'
<1>1. PICK d \in Database, given \in SUBSET Id, renewed \in SUBSET RuleColumns :
        Transaction(d, given, renewed)
    BY DEF Transacts
<1>2. TypeOK /\ Shape /\ NamespacesSeparate /\ \A e \in Client : Knows(e)
    BY DEF StoreInv
<1>3. Sound(db', given, renewed) /\ Acceptable(db') /\ given \subseteq unused
    BY <1>1, <1>2, ChangeIsSound, TrySound DEF Transaction, Single
<1>4. TablesStep(given)
    BY <1>1, <1>2, <1>3, StoreAssumption
       DEF TablesStep, Transaction, Single, Request, Sound, TypeOK
<1>5. TypeOK'
    BY <1>2, <1>4, TablesType
<1>6. NamespacesSeparate'
    <2>1. Separate(db')
        BY <1>2, <1>3, SeparateStep
    <2> QED
        BY <2>1 DEF NamespacesSeparate, Separate
<1>7. db' \in Database /\ Store(db')
    <2>1. db' \in Database
        BY <1>3 DEF Sound, IdsKept
    <2> QED
        BY <1>1, <2>1 DEF Transaction, Single, Try, Store
<1>8. /\ since' \in [Client -> SUBSET (Namespace \X FlagKey)]
      /\ \A e \in Client : since'[e] \subseteq since[e] /\ Live(e)'
    BY <1>2, <1>7, StoreSince
<1>9. /\ UNCHANGED <<pc, req, got, answer>>
      /\ updated' = [c \in Client |->
           updated[c] \cup (IF pc[c] = "segments" THEN renewed ELSE {})]
    BY <1>1 DEF Transaction, Single
<1>10. Shape'
    BY <1>2, <1>8, <1>9 DEF Shape
<1>11. ASSUME NEW e \in Client PROVE Knows(e)'
    BY <1>2, <1>3, <1>4, <1>8, <1>9, StillKnows DEF TablesStep, Sound
<1> QED
    BY <1>5, <1>6, <1>10, <1>11 DEF StoreInv

\* Steps that leave the tables as they are.
LEMMA TablesUntouched ==
    ASSUME StoreInv, UNCHANGED <<db, unused>>, requests' \in 0..MaxRequests
    PROVE  /\ TypeOK' /\ NamespacesSeparate'
           /\ IdsKept(db', {}) /\ ColumnsKept(db', {}) /\ unused' \subseteq unused
<1>1. TypeOK /\ NamespacesSeparate
    BY DEF StoreInv
<1>2. Change(db, {}, {})
    BY <1>1, TableRows, Shrinks
<1>3. IdsKept(db', {}) /\ ColumnsKept(db', {})
    BY <1>2 DEF Change
<1>4. TablesStep({})
    BY <1>1, <1>3 DEF TablesStep, TypeOK
<1> QED
    BY <1>1, <1>3, <1>4, TablesType DEF NamespacesSeparate, Separate

LEMMA StartStep ==
    ASSUME StoreInv, NEW c \in Client, NEW r,
           NEW at \in {"namespace", "validate", "rules"}, Start(c, r, at),
           at = "validate" => r.rule \in Id \ unused /\ r.variant \in Id \ unused
    PROVE  StoreInv'
<1>1. TypeOK /\ Shape /\ \A e \in Client : Knows(e)
    BY DEF StoreInv
<1>2. UNCHANGED <<db, unused>> /\ requests' \in 0..MaxRequests
    BY <1>1, StoreAssumption DEF Start, Request, TypeOK
<1>3. /\ TypeOK' /\ NamespacesSeparate'
      /\ IdsKept(db', {}) /\ ColumnsKept(db', {}) /\ unused' \subseteq unused
    BY <1>2, TablesUntouched
<1>4. {<<x.ns, x.key>> : x \in db.flags} \in SUBSET (Namespace \X FlagKey)
    BY <1>1, TableRows DEF FlagRow
<1>5. Shape'
    BY <1>1, <1>4 DEF Shape, Start, Stages
<1>6. ASSUME NEW e \in Client, e # c PROVE Knows(e)'
    <2>1. /\ pc'[e] = pc[e] /\ req'[e] = req[e] /\ got'[e] = got[e]
          /\ updated'[e] = updated[e] /\ since'[e] = since[e] /\ db' = db
        BY <1>1, <1>6 DEF Shape, Start
    <2>2. Live(e)'
        BY <1>1, <2>1 DEF Knows, Live, HasFlag
    <2> QED
        BY <1>1, <1>3, <2>1, <2>2, StillKnows
<1>7. Knows(c)'
    <2>1. /\ pc'[c] = at /\ req'[c] = r /\ since'[c] = {<<x.ns, x.key>> : x \in db.flags}
          /\ db' = db /\ unused' = unused
        BY <1>1 DEF Shape, Start
    <2>2. Live(c)'
        BY <2>1 DEF Live, HasFlag
    <2>3. Counted(c)' /\ Valid(c)' /\ Current(c)'
        BY <2>1 DEF Counted, Valid, Current
    <2> QED
        BY <2>2, <2>3 DEF Knows
<1> QED
    BY <1>3, <1>5, <1>6, <1>7 DEF StoreInv

\* A step of c's request that writes nothing.
LEMMA ReadStep ==
    ASSUME StoreInv, NEW c \in Client,
           GetNamespace(c) \/ CountFlags(c) \/ Validate(c) \/ ReadRules(c) \/ ReadSegments(c)
    PROVE  StoreInv'
<1>1. TypeOK /\ Shape /\ \A e \in Client : Knows(e)
    BY DEF StoreInv
<1>2. UNCHANGED <<db, unused, since, requests>>
    BY DEF GetNamespace, CountFlags, Validate, ReadRules, ReadSegments
<1>3. /\ TypeOK' /\ NamespacesSeparate'
      /\ IdsKept(db', {}) /\ ColumnsKept(db', {}) /\ unused' \subseteq unused
    BY <1>1, <1>2, TablesUntouched DEF TypeOK
<1>4. \A e \in Client : Live(e)'
    BY <1>1, <1>2 DEF Knows, Live, HasFlag
<1>5. ASSUME GetNamespace(c) \/ CountFlags(c) \/ Validate(c) \/ ReadSegments(c)
      PROVE  Shape' /\ \A e \in Client \ {c} : /\ pc'[e] = pc[e] /\ req'[e] = req[e]
                                               /\ got'[e] = got[e] /\ updated'[e] = updated[e]
    BY <1>1, <1>2, <1>5
       DEF Shape, GetNamespace, CountFlags, Validate, ReadSegments, Return, Goto, Stages
<1>6. ASSUME ReadRules(c)
      PROVE  Shape' /\ \A e \in Client \ {c} : /\ pc'[e] = pc[e] /\ req'[e] = req[e]
                                               /\ got'[e] = got[e] /\ updated'[e] = updated[e]
    BY <1>1, <1>2, <1>6, TableRows DEF Shape, ReadRules, Goto, Stages
<1>7. ASSUME NEW e \in Client, e # c PROVE Knows(e)'
    <2>1. /\ pc'[e] = pc[e] /\ req'[e] = req[e] /\ got'[e] = got[e] /\ updated'[e] = updated[e]
        BY <1>5, <1>6, <1>7
    <2> QED
        BY <1>1, <1>2, <1>3, <1>4, <1>7, <2>1, StillKnows
<1>8. Knows(c)'
    <2>1. ASSUME Return(c, {}) \/ ReadSegments(c) PROVE Knows(c)'
        <3>1. pc'[c] = "idle"
            BY <1>1, <2>1 DEF Return, ReadSegments, Shape
        <3> QED
            BY <1>4, <3>1 DEF Knows, Counted, Valid, Current
    <2>2. CASE GetNamespace(c)
        <3>1. ASSUME Goto(c, "countFlags") PROVE Knows(c)'
            <4>1. pc'[c] = "countFlags"
                BY <1>1, <3>1 DEF Goto, Shape
            <4> QED
                BY <1>4, <4>1 DEF Knows, Counted, Valid, Current
        <3> QED
            BY <2>1, <2>2, <3>1 DEF GetNamespace
    <2>3. CASE CountFlags(c)
        <3>1. ASSUME Goto(c, "deleteNamespace"), ~\E x \in db.flags : x.ns = req[c].ns
              PROVE  Knows(c)'
            <4>1. pc'[c] = "deleteNamespace" /\ req' = req
                BY <1>1, <3>1 DEF Goto, Shape
            <4>2. Counted(c)'
                BY <1>1, <1>2, <3>1, <4>1 DEF Counted, Knows, Live, HasFlag
            <4> QED
                BY <1>4, <4>1, <4>2 DEF Knows, Valid, Current
        <3> QED
            BY <2>1, <2>3, <3>1 DEF CountFlags
    <2>4. CASE Validate(c)
        <3>1. ASSUME Goto(c, "write"),
                     \E x \in db.rules : x.id = req[c].rule /\ x.ns = req[c].ns,
                     \E x \in db.variants : x.id = req[c].variant /\ x.ns = req[c].ns
              PROVE  Knows(c)'
            <4>1. pc'[c] = "write" /\ req' = req
                BY <1>1, <3>1 DEF Goto, Shape
            <4>2. req[c].rule \in Id \ unused /\ req[c].variant \in Id \ unused
                BY <1>1, <2>4 DEF Validate, Knows, Valid
            <4>3. Valid(c)'
                BY <1>1, <1>2, <3>1, <4>1, <4>2, TableRows DEF Valid
            <4> QED
                BY <1>4, <4>1, <4>3 DEF Knows, Counted, Current
        <3> QED
            BY <2>1, <2>4, <3>1 DEF Validate
    <2>5. CASE ReadRules(c)
        <3>1. /\ pc'[c] = "segments" /\ got'[c] \subseteq db.rules
            BY <1>1, <2>5 DEF ReadRules, Goto, Shape
        <3>2. Current(c)'
            BY <1>1, <1>2, <3>1, TableRows, UnusedTables DEF Current, SameRule
        <3> QED
            BY <1>4, <3>1, <3>2 DEF Knows, Counted, Valid
    <2> QED
        BY <2>1, <2>2, <2>3, <2>4, <2>5
<1> QED
    BY <1>3, <1>5, <1>6, <1>7, <1>8 DEF StoreInv

\* The last statement of a request that writes.
LEMMA WriteStep ==
    ASSUME StoreInv, NEW c \in Client, NEW given, given \subseteq unused,
           Sound(db', given, {}), Acceptable(db'), unused' = unused \ given, Store(db'),
           Return(c, {}), UNCHANGED <<updated, requests>>
    PROVE  StoreInv'
<1>1. TypeOK /\ Shape /\ NamespacesSeparate /\ \A e \in Client : Knows(e)
    BY DEF StoreInv
<1>2. IdsKept(db', given) /\ ColumnsKept(db', {}) /\ db' \in Database
    BY DEF Sound, IdsKept
<1>3. TypeOK'
    <2>1. TablesStep(given)
        BY <1>1, <1>2 DEF TablesStep, TypeOK
    <2> QED
        BY <1>1, <2>1, TablesType
<1>4. NamespacesSeparate'
    <2>1. Separate(db')
        BY <1>1, SeparateStep
    <2> QED
        BY <2>1 DEF NamespacesSeparate, Separate
<1>5. /\ since' \in [Client -> SUBSET (Namespace \X FlagKey)]
      /\ \A e \in Client : since'[e] \subseteq since[e] /\ Live(e)'
    BY <1>1, <1>2, StoreSince
<1>6. Shape'
    BY <1>1, <1>5 DEF Shape, Return, Stages
<1>7. ASSUME NEW e \in Client, e # c PROVE Knows(e)'
    <2>1. pc'[e] = pc[e] /\ req'[e] = req[e] /\ got'[e] = got[e] /\ updated'[e] = updated[e]
        BY <1>1, <1>7 DEF Shape, Return
    <2> QED
        BY <1>1, <1>2, <1>5, <2>1, StillKnows
<1>8. Knows(c)'
    <2>1. pc'[c] = "idle"
        BY <1>1 DEF Shape, Return
    <2> QED
        BY <1>5, <2>1 DEF Knows, Counted, Valid, Current
<1> QED
    BY <1>3, <1>4, <1>6, <1>7, <1>8 DEF StoreInv

LEMMA DeleteNamespaceStep ==
    ASSUME StoreInv, NEW c \in Client, DeleteNamespace(c)
    PROVE  StoreInv'
<1>1. TypeOK /\ NamespacesSeparate
    BY DEF StoreInv
<1> DEFINE n == req[c].ns
           d == [db EXCEPT !.namespaces = @ \ {n}]
<1>2. Store(Cascade(d)) /\ Return(c, {}) /\ UNCHANGED <<unused, updated, requests>>
    BY DEF DeleteNamespace
<1>3. d \in Database /\ UniqueKeys(d)
    <2>1. db \in Database /\ UniqueKeys(db)
        BY <1>1 DEF TypeOK, Acceptable
    <2>2. /\ d \in Database /\ d.flags = db.flags /\ d.segments = db.segments
          /\ d.variants = db.variants
        BY <2>1 DEF Database
    <2> HIDE DEF d
    <2> QED
        BY <2>1, <2>2 DEF UniqueKeys
<1>4. Sound(Cascade(d), {}, {})
    <2>1. Change(Cascade(d), {}, {})
        BY <1>1, NamespaceChanges
    <2> HIDE DEF d
    <2> QED
        BY <1>1, <2>1, ChangeIsSound
<1> HIDE DEF d
<1>5. Acceptable(Cascade(d))
    BY <1>3, CascadeAccepted
<1>6. db' = Cascade(d) /\ unused' = unused \ {}
    BY <1>2 DEF Store
<1>7. Sound(db', {}, {}) /\ Acceptable(db') /\ Store(db')
    BY <1>2, <1>4, <1>5, <1>6
<1> QED
    BY <1>2, <1>6, <1>7, WriteStep

LEMMA InsertDistributionStep ==
    ASSUME StoreInv, NEW c \in Client, InsertDistribution(c)
    PROVE  StoreInv'
<1>1. TypeOK /\ NamespacesSeparate /\ Valid(c)
    BY DEF StoreInv, Knows
<1>2. PICK i \in unused :
        /\ unused' = unused \ {i}
        /\ Try([db EXCEPT !.distributions = db.distributions \cup
                  {[id |-> i, rule |-> req[c].rule, variant |-> req[c].variant]}])
    BY DEF InsertDistribution
<1>3. pc[c] = "write" /\ Return(c, {}) /\ UNCHANGED <<updated, requests>>
    BY DEF InsertDistribution
<1> DEFINE row == [id |-> i, rule |-> req[c].rule, variant |-> req[c].variant]
           d == [db EXCEPT !.distributions = db.distributions \cup {row}]
<1>4. row \in DistributionRow /\ row.id = i
    BY <1>1, <1>3 DEF Valid, DistributionRow, TypeOK
<1>5. /\ row.rule \notin unused /\ row.variant \notin unused
      /\ \A r \in db.rules, v \in db.variants :
           r.id = row.rule /\ v.id = row.variant => r.ns = v.ns
    BY <1>1, <1>3 DEF Valid
<1> HIDE DEF row
<1>6. db.distributions \cup {row} \in SUBSET DistributionRow
    BY <1>1, <1>4, TableRows
<1>7. /\ d \in Database /\ d.variants = db.variants /\ d.rules = db.rules
      /\ d.rollouts = db.rollouts /\ d.constraints = db.constraints
      /\ d.distributions = db.distributions \cup {row}
      /\ d.rolloutSegments = db.rolloutSegments
    <2>1. db \in Database
        BY <1>1 DEF TypeOK
    <2> QED
        BY <1>6, <2>1 DEF Database, DistributionRow
<1> HIDE DEF d
<1>8. Sound(db, {}, {})
    BY <1>1, TableRows, Shrinks, ChangeIsSound
<1>9. UniqueIds(d)
    BY <1>1, <1>4, <1>7, TableRows, UniqueTables, UnusedTables
<1>10. IdsKept(d, {i})
    BY <1>4, <1>7, <1>8, <1>9 DEF Sound, IdsKept, Kept, KeptInNamespace
<1>11. JoinsSound(d)
    BY <1>5, <1>7, <1>8 DEF Sound, JoinsSound
<1>12. SegmentsOwn(d) /\ ColumnsKept(d, {})
    BY <1>7, <1>8 DEF Sound, SegmentsOwn, ColumnsKept, SameRule
<1>13. Sound(d, {i}, {}) /\ Try(d)
    BY <1>2, <1>10, <1>11, <1>12 DEF Sound, d, row
<1>14. Sound(db', {i}, {}) /\ Acceptable(db')
    BY <1>1, <1>13, TrySound
<1>15. Store(db') /\ {i} \subseteq unused
    BY <1>13 DEF Try, Store
<1> QED
    BY <1>2, <1>3, <1>14, <1>15, WriteStep

LEMMA ReplaceDistributionStep ==
    ASSUME StoreInv, NEW c \in Client, ReplaceDistribution(c)
    PROVE  StoreInv'
<1>1. TypeOK /\ NamespacesSeparate /\ Valid(c)
    BY DEF StoreInv, Knows
<1> DEFINE F(x) == IF x.id = req[c].id /\ x.rule = req[c].rule
                   THEN [x EXCEPT !.variant = req[c].variant] ELSE x
           D == {F(x) : x \in db.distributions}
           d == [db EXCEPT !.distributions = D]
<1>2. pc[c] = "write" /\ Try(d) /\ Return(c, {}) /\ UNCHANGED <<unused, updated, requests>>
    BY DEF ReplaceDistribution
<1>3. \A x \in db.distributions :
        /\ F(x) \in DistributionRow /\ F(x).id = x.id
        /\ F(x) = x \/ (F(x).rule = req[c].rule /\ F(x).variant = req[c].variant)
    BY <1>1, <1>2, TableRows DEF Valid, DistributionRow
<1> HIDE DEF F
<1>4. D \in SUBSET DistributionRow
    BY <1>3
<1>5. /\ d \in Database /\ d.variants = db.variants /\ d.rules = db.rules
      /\ d.rollouts = db.rollouts /\ d.constraints = db.constraints
      /\ d.distributions = D /\ d.rolloutSegments = db.rolloutSegments
    <2>1. db \in Database
        BY <1>1 DEF TypeOK
    <2> HIDE DEF D
    <2> QED
        BY <1>4, <2>1 DEF Database, DistributionRow
<1> HIDE DEF d
<1>6. Sound(db, {}, {})
    BY <1>1, TableRows, Shrinks, ChangeIsSound
<1>7. UniqueIds(d) /\ Kept(db.distributions, D, {})
    <2>1. \A x, y \in D : x.id = y.id => x = y
        BY <1>1, <1>3, TableRows
    <2>2. Kept(db.distributions, D, {})
        BY <1>3 DEF Kept
    <2> HIDE DEF D
    <2> QED
        BY <1>1, <1>5, <2>1, <2>2, TableRows, UniqueTables
<1>8. JoinsSound(d)
    <2> SUFFICES ASSUME NEW y \in D
                 PROVE  /\ y.rule \notin unused /\ y.variant \notin unused
                        /\ \A r \in db.rules, v \in db.variants :
                             r.id = y.rule /\ v.id = y.variant => r.ns = v.ns
        BY <1>5 DEF JoinsSound
    <2>1. PICK x \in db.distributions : y = F(x)
        OBVIOUS
    <2>2. CASE y = x
        BY <1>6, <2>2 DEF Sound, JoinsSound
    <2>3. CASE y.rule = req[c].rule /\ y.variant = req[c].variant
        BY <1>1, <1>2, <2>3 DEF Valid
    <2> QED
        BY <1>3, <2>1, <2>2, <2>3
<1> HIDE DEF D
<1>9. IdsKept(d, {})
    BY <1>5, <1>6, <1>7 DEF Sound, IdsKept
<1>10. SegmentsOwn(d) /\ ColumnsKept(d, {})
    BY <1>5, <1>6 DEF Sound, SegmentsOwn, ColumnsKept, SameRule
<1>11. Sound(db', {}, {}) /\ Acceptable(db')
    BY <1>1, <1>2, <1>8, <1>9, <1>10, TrySound DEF Sound
<1>12. Store(db') /\ {} \subseteq unused /\ unused' = unused \ {}
    BY <1>2 DEF Try, Store
<1> QED
    BY <1>2, <1>11, <1>12, WriteStep

LEMMA StoreInvariance == Spec => []StoreInv
<1>1. Init => StoreInv
    <2> SUFFICES ASSUME Init PROVE StoreInv
        OBVIOUS
    <2>1. TypeOK
        <3>1. db \in Database /\ Acceptable(db) /\ UniqueIds(db)
            BY StoreAssumption DEF Init
        <3>2. \A t \in IdTables(db) : \A x \in t : x.id \notin unused
            BY DEF Init, HasId
        <3>3. unused \subseteq Id /\ requests \in 0..MaxRequests
            BY StoreAssumption DEF Init
        <3> QED
            BY <3>1, <3>2, <3>3 DEF TypeOK
    <2>2. Shape
        BY DEF Init, Shape, Stages
    <2>3. NamespacesSeparate
        BY StoreAssumption DEF Init, NamespacesSeparate
    <2>4. \A e \in Client : Knows(e)
        BY DEF Init, Knows, Live, Counted, Valid, Current
    <2> QED
        BY <2>1, <2>2, <2>3, <2>4 DEF StoreInv
<1>2. StoreInv /\ [Next]_vars => StoreInv'
    <2> SUFFICES ASSUME StoreInv, [Next]_vars PROVE StoreInv'
        OBVIOUS
    <2>1. TypeOK /\ Shape /\ \A e \in Client : Knows(e)
        BY DEF StoreInv
    <2>2. CASE UNCHANGED vars
        <3>1. TypeOK' /\ NamespacesSeparate'
            BY <2>1, <2>2, TablesUntouched DEF vars, TypeOK
        <3>2. Shape'
            BY <2>1, <2>2 DEF vars, Shape
        <3>3. \A e \in Client : Knows(e)'
            BY <2>1, <2>2 DEF vars, Knows, Live, Counted, Valid, Current, HasFlag
        <3> QED
            BY <3>1, <3>2, <3>3 DEF StoreInv
    <2>3. CASE Catalogue \/ Strategies
        BY <2>1, <2>3, CatalogueTransacts, StrategiesTransact, TransactionStep
    <2>4. ASSUME NEW c \in Client, Steps(c) PROVE StoreInv'
        <3>1. CASE StartDeleteNamespace(c)
            <4>1. PICK n \in db.namespaces :
                    Start(c, [op |-> "deleteNamespace", ns |-> n], "namespace")
                BY <3>1 DEF StartDeleteNamespace
            <4> QED
                BY <4>1, StartStep
        <3>2. CASE StartEvaluation(c)
            <4>1. PICK x \in db.flags :
                    Start(c, [op |-> "evaluate", ns |-> x.ns, flag |-> x.key], "rules")
                BY <3>2 DEF StartEvaluation
            <4> QED
                BY <4>1, StartStep
        <3>3. CASE StartDistribution(c)
            <4>1. PICK n \in Namespace, f \in FlagKey, r \in db.rules, v \in db.variants :
                    \/ Start(c, [op |-> "createDistribution", ns |-> n, flag |-> f,
                                 rule |-> r.id, variant |-> v.id], "validate")
                    \/ \E x \in db.distributions :
                         Start(c, [op |-> "updateDistribution", ns |-> n, flag |-> f,
                                   rule |-> r.id, variant |-> v.id, id |-> x.id], "validate")
                BY <3>3 DEF StartDistribution
            <4>2. r.id \in Id \ unused /\ v.id \in Id \ unused
                BY <2>1, TableRows, UnusedTables DEF RuleRow, VariantRow
            <4>3. ASSUME NEW q, Start(c, q, "validate"), q.rule = r.id, q.variant = v.id
                  PROVE  StoreInv'
                BY <4>2, <4>3, StartStep
            <4> QED
                BY <4>1, <4>3
        <3>4. CASE GetNamespace(c) \/ CountFlags(c) \/ Validate(c) \/ ReadRules(c)
                   \/ ReadSegments(c)
            BY <3>4, ReadStep
        <3>5. CASE DeleteNamespace(c) \/ InsertDistribution(c) \/ ReplaceDistribution(c)
            BY <3>5, DeleteNamespaceStep, InsertDistributionStep, ReplaceDistributionStep
        <3> QED
            BY <2>4, <3>1, <3>2, <3>3, <3>4, <3>5 DEF Steps
    <2> QED
        BY <2>2, <2>3, <2>4 DEF Next
<1> QED
    BY <1>1, <1>2, PTL DEF Spec

-----------------------------------------------------------------------------
\* The tables satisfy their schema whatever the requests: a row never outlives
\* its parent, keys and identifiers are not given out twice.
THEOREM StoreTypeCorrect == Spec => []TypeOK
BY StoreInvariance, PTL DEF StoreInv

\* A distribution's variant is of the namespace of its rule, and a rollout's
\* segments of the rollout's, although validation and writing are separate
\* statements (distributionValidationHelper, UpdateRollout).
THEOREM NamespacesStaySeparate == Spec => []NamespacesSeparate
BY StoreInvariance, PTL DEF StoreInv

\* The deletion of a namespace never takes along a flag that was there when the
\* request came in and has not been deleted since (DeleteNamespace).
THEOREM KnownFlagsKept == Spec => KnownFlagsSurvive
<1> DEFINE Survive ==
      \A c \in Client : DeleteNamespace(c) =>
        \A x \in since[c] : \E y \in db'.flags : <<y.ns, y.key>> = x
<1>1. StoreInv /\ [Next]_vars => [Survive]_vars
    <2> SUFFICES ASSUME StoreInv, NEW c \in Client, DeleteNamespace(c), NEW x \in since[c]
                 PROVE  \E y \in db'.flags : <<y.ns, y.key>> = x
        OBVIOUS
    <2>1. TypeOK /\ Shape /\ Live(c) /\ Counted(c)
        BY DEF StoreInv, Knows
    <2>2. x \in Namespace \X FlagKey /\ x[1] # req[c].ns /\ HasFlag(db, x[1], x[2])
        BY <2>1 DEF Shape, Live, Counted, DeleteNamespace
    <2>3. PICK y \in db.flags : y.ns = x[1] /\ y.key = x[2]
        BY <2>2 DEF HasFlag
    <2> DEFINE d == [db EXCEPT !.namespaces = @ \ {req[c].ns}]
               e == Cascade(d)
    <2>4. db \in Database /\ Closed(db)
        BY <2>1, AcceptableIsClosed DEF TypeOK, Acceptable
    <2>5. d \in Database /\ d.flags = db.flags /\ d.namespaces = db.namespaces \ {req[c].ns}
        BY <2>4 DEF Database
    <2>6. db' = e
        BY DEF DeleteNamespace, Store
    <2> HIDE DEF d
    <2>7. e.flags = {z \in d.flags : z.ns \in d.namespaces}
        BY <2>5, CascadeFields
    <2>8. y \in db'.flags
        BY <2>2, <2>3, <2>4, <2>5, <2>6, <2>7 DEF Closed
    <2>9. <<y.ns, y.key>> = x
        BY <2>2, <2>3
    <2> QED
        BY <2>8, <2>9
<1>2. Spec => [][Survive]_vars
    BY <1>1, StoreInvariance, PTL DEF Spec
<1> QED
    BY <1>2 DEF KnownFlagsSurvive

\* The segments of a rule, joined by the second query.
LEMMA EvaluationSegmentsAre ==
    ASSUME TypeOK, NEW i
    PROVE  /\ {s.key : s \in EvaluationSegments(db, i)} =
                {key \in SegmentKey : \E n \in Namespace :
                   [rule |-> i, ns |-> n, segment |-> key] \in db.ruleSegments}
           /\ \A s \in EvaluationSegments(db, i) :
                /\ s.constraints = {k.id : k \in {k \in db.constraints : k.segment = s.key /\
                     [rule |-> i, ns |-> k.ns, segment |-> s.key] \in db.ruleSegments}}
                /\ \E y \in db.segments :
                     /\ y.key = s.key /\ y.match = s.match
                     /\ [rule |-> i, ns |-> y.ns, segment |-> s.key] \in db.ruleSegments
           /\ EvaluationSegments(db, i) = {} => \A x \in db.ruleSegments : x.rule # i
<1> DEFINE Of(s) == {x \in db.ruleSegments : x.rule = i /\ x.segment = s}
           Cs(s) == UNION {SegmentConstraints(db, x) : x \in Of(s)}
           Match(s) == (CHOOSE y \in db.segments :
                          y.key = s /\ \E x \in Of(s) : x.ns = y.ns).match
           Keys == {s \in SegmentKey : Of(s) # {}}
<1>1. EvaluationSegments(db, i) =
        {[key |-> s, constraints |-> Cs(s), match |-> Match(s)] : s \in Keys}
    BY DEF EvaluationSegments
<1>2. \A x \in db.ruleSegments : x = [rule |-> x.rule, ns |-> x.ns, segment |-> x.segment]
    BY TableRows DEF RuleSegmentRow
<1>3. ASSUME NEW s, NEW n
      PROVE  [rule |-> i, ns |-> n, segment |-> s] \in db.ruleSegments <=>
               \E x \in Of(s) : x.ns = n
    <2>1. ASSUME NEW x \in Of(s), x.ns = n
          PROVE  [rule |-> i, ns |-> n, segment |-> s] \in db.ruleSegments
        <3>1. x.rule = i /\ x.segment = s /\ x \in db.ruleSegments
            OBVIOUS
        <3> QED
            BY <1>2, <2>1, <3>1
    <2>2. ASSUME [rule |-> i, ns |-> n, segment |-> s] \in db.ruleSegments
          PROVE  \E x \in Of(s) : x.ns = n
        <3> DEFINE x == [rule |-> i, ns |-> n, segment |-> s]
        <3>1. x \in db.ruleSegments /\ x.rule = i /\ x.ns = n /\ x.segment = s
            BY <2>2
        <3> HIDE DEF x
        <3> QED
            BY <3>1
    <2> QED
        BY <2>1, <2>2
<1>4. \A s : \A x \in Of(s) : x.ns \in Namespace /\ x.segment = s
    BY TableRows DEF RuleSegmentRow
<1> DEFINE Row(n, s) == [rule |-> i, ns |-> n, segment |-> s]
<1>a. \A s, n : Row(n, s) \in db.ruleSegments <=> \E x \in Of(s) : x.ns = n
    BY <1>3
<1>b. \A x : SegmentConstraints(db, x) =
               {k.id : k \in {k \in db.constraints : k.segment = x.segment /\ k.ns = x.ns}}
    BY DEF SegmentConstraints
<1>5. Keys = {key \in SegmentKey : \E n \in Namespace : Row(n, key) \in db.ruleSegments}
    <2> HIDE DEF Row
    <2> QED
        BY <1>a, <1>4
<1>6. ASSUME NEW s \in Keys
      PROVE  Cs(s) = {k.id : k \in {k \in db.constraints :
                        k.segment = s /\ Row(k.ns, s) \in db.ruleSegments}}
    <2> HIDE DEF Row, Of
    <2>1. ASSUME NEW z \in Cs(s)
          PROVE  \E k \in db.constraints :
                   z = k.id /\ k.segment = s /\ Row(k.ns, s) \in db.ruleSegments
        <3>1. PICK x \in Of(s) : z \in SegmentConstraints(db, x)
            BY <2>1
        <3>2. PICK k \in db.constraints : z = k.id /\ k.segment = x.segment /\ k.ns = x.ns
            BY <1>b, <3>1
        <3> QED
            BY <1>4, <1>a, <3>1, <3>2
    <2>2. ASSUME NEW k \in db.constraints, k.segment = s, Row(k.ns, s) \in db.ruleSegments
          PROVE  k.id \in Cs(s)
        <3>1. PICK x \in Of(s) : x.ns = k.ns
            BY <1>a, <2>2
        <3>2. k.id \in SegmentConstraints(db, x)
            BY <1>b, <1>4, <2>2, <3>1
        <3> QED
            BY <3>1, <3>2
    <2> HIDE DEF Cs
    <2> QED
        BY <2>1, <2>2
<1>7. ASSUME NEW s \in Keys
      PROVE  \E y \in db.segments :
               /\ y.key = s /\ y.match = Match(s)
               /\ [rule |-> i, ns |-> y.ns, segment |-> s] \in db.ruleSegments
    <2>1. PICK x \in Of(s) : TRUE
        OBVIOUS
    <2>2. HasSegment(db, x.ns, s)
        BY <2>1, AcceptableIsClosed DEF TypeOK, Acceptable, Closed
    <2>3. \E y \in db.segments : y.key = s /\ \E z \in Of(s) : z.ns = y.ns
        BY <2>1, <2>2 DEF HasSegment
    <2> DEFINE y == CHOOSE y \in db.segments : y.key = s /\ \E z \in Of(s) : z.ns = y.ns
    <2>4. y \in db.segments /\ y.key = s /\ \E z \in Of(s) : z.ns = y.ns
        BY <2>3
    <2>5. y.match = Match(s)
        OBVIOUS
    <2> HIDE DEF y
    <2> QED
        BY <1>3, <2>4, <2>5
<1> HIDE DEF Cs, Match
<1> DEFINE Segment(s) == [key |-> s, constraints |-> Cs(s), match |-> Match(s)]
<1>c. \A s : Segment(s).key = s /\ Segment(s).constraints = Cs(s) /\ Segment(s).match = Match(s)
    OBVIOUS
<1>d. EvaluationSegments(db, i) = {Segment(s) : s \in Keys}
    BY <1>1
<1>8. {s.key : s \in EvaluationSegments(db, i)} = Keys
    <2> HIDE DEF Segment, Keys
    <2> QED
        BY <1>c, <1>d
<1>9. ASSUME EvaluationSegments(db, i) = {} PROVE \A x \in db.ruleSegments : x.rule # i
    <2>1. Keys = {}
        BY <1>1, <1>9
    <2> QED
        BY <2>1, TableRows DEF RuleSegmentRow
<1>10. ASSUME NEW z \in EvaluationSegments(db, i)
       PROVE  \E s \in Keys : z.key = s /\ z.constraints = Cs(s) /\ z.match = Match(s)
    <2> HIDE DEF Segment, Keys
    <2> QED
        BY <1>c, <1>d, <1>10
<1>11. ASSUME NEW z \in EvaluationSegments(db, i)
       PROVE  /\ z.constraints = {k.id : k \in {k \in db.constraints :
                    k.segment = z.key /\ Row(k.ns, z.key) \in db.ruleSegments}}
              /\ \E y \in db.segments :
                   y.key = z.key /\ y.match = z.match /\ Row(y.ns, z.key) \in db.ruleSegments
    <2>1. PICK s \in Keys : z.key = s /\ z.constraints = Cs(s) /\ z.match = Match(s)
        BY <1>10, <1>11
    <2>2. \E y \in db.segments :
            y.key = s /\ y.match = Match(s) /\ Row(y.ns, s) \in db.ruleSegments
        BY <1>7
    <2> HIDE DEF Keys, Of, Row
    <2>3. Cs(s) = {k.id : k \in {k \in db.constraints :
                     k.segment = s /\ Row(k.ns, s) \in db.ruleSegments}}
        BY <1>6
    <2> QED
        BY <2>1, <2>2, <2>3, Zenon
<1>12. {s.key : s \in EvaluationSegments(db, i)} =
         {key \in SegmentKey : \E n \in Namespace : Row(n, key) \in db.ruleSegments}
    BY <1>5, <1>8, Zenon
<1> QED
    BY <1>9, <1>11, <1>12, Zenon

\* Rules are answered with the segments, match types and constraints they have
\* when they are answered, although a first query has read the rules; only an
\* operator may be old, when the rule was updated in between, and a rank, when the
\* rules were ordered or one of them deleted (GetEvaluationRules).
THEOREM CurrentSegmentsAnswered == Spec => AnswersCurrentSegments
<1> DEFINE
      Uses(r, n, key) == [rule |-> r.id, ns |-> n, segment |-> key] \in db.ruleSegments
      Answers(c, x, r) ==
        /\ r.id = x.id
        /\ r.operator = x.operator \/ <<r.id, "operator">> \in updated[c]
        /\ r.rank = x.rank \/ <<r.id, "rank">> \in updated[c]
        /\ {s.key : s \in x.segments} =
             {key \in SegmentKey : \E n \in Namespace : Uses(r, n, key)}
        /\ \A s \in x.segments :
             /\ s.constraints = {k.id : k \in {k \in db.constraints :
                                   k.segment = s.key /\ Uses(r, k.ns, s.key)}}
             /\ \E y \in db.segments :
                  y.key = s.key /\ y.match = s.match /\ Uses(r, y.ns, s.key)
      SegmentsCurrent ==
        \A c \in Client : ReadSegments(c) =>
          /\ \A x \in answer'[c] : \E r \in db.rules : Answers(c, x, r)
          /\ \A r \in db.rules : HasId(got[c], r.id) =>
               \/ \E x \in answer'[c] : x.id = r.id
               \/ \A s \in db.ruleSegments : s.rule # r.id
<1>1. StoreInv /\ [Next]_vars => [SegmentsCurrent]_vars
    <2> SUFFICES ASSUME StoreInv, NEW c \in Client, ReadSegments(c)
                 PROVE  /\ \A x \in answer'[c] : \E r \in db.rules : Answers(c, x, r)
                        /\ \A r \in db.rules : HasId(got[c], r.id) =>
                             \/ \E x \in answer'[c] : x.id = r.id
                             \/ \A s \in db.ruleSegments : s.rule # r.id
        OBVIOUS
    <2>1. TypeOK /\ Shape /\ Current(c) /\ pc[c] = "segments"
        BY DEF StoreInv, Knows, ReadSegments
    <2>2. answer'[c] =
            {[id |-> g.id, rank |-> g.rank, operator |-> g.operator,
              segments |-> EvaluationSegments(db, g.id)] :
               g \in {g \in got[c] : EvaluationSegments(db, g.id) # {}}}
        BY <2>1 DEF ReadSegments, Return, RulesWithSegments, Shape
    <2>3. ASSUME NEW x \in answer'[c] PROVE \E r \in db.rules : Answers(c, x, r)
        <3>1. PICK g \in got[c] :
                /\ EvaluationSegments(db, g.id) # {}
                /\ x.id = g.id /\ x.operator = g.operator /\ x.rank = g.rank
                /\ x.segments = EvaluationSegments(db, g.id)
            BY <2>2, <2>3
        <3>2. PICK s \in db.ruleSegments : s.rule = g.id
            BY <3>1 DEF EvaluationSegments
        <3>3. PICK r \in db.rules : r.id = g.id
            BY <2>1, <3>2, AcceptableIsClosed DEF TypeOK, Acceptable, Closed, HasId
        <3>4. /\ r.operator = g.operator \/ <<r.id, "operator">> \in updated[c]
              /\ r.rank = g.rank \/ <<r.id, "rank">> \in updated[c]
            BY <2>1, <3>1, <3>3 DEF Current, SameRule
        <3> DEFINE i == r.id
        <3>5. x.segments = EvaluationSegments(db, i)
            BY <3>1, <3>3
        <3> HIDE DEF i
        <3>6. /\ {z.key : z \in EvaluationSegments(db, i)} =
                   {key \in SegmentKey : \E n \in Namespace :
                      [rule |-> i, ns |-> n, segment |-> key] \in db.ruleSegments}
              /\ \A z \in EvaluationSegments(db, i) :
                   /\ z.constraints = {k.id : k \in {k \in db.constraints : k.segment = z.key /\
                        [rule |-> i, ns |-> k.ns, segment |-> z.key] \in db.ruleSegments}}
                   /\ \E y \in db.segments :
                        /\ y.key = z.key /\ y.match = z.match
                        /\ [rule |-> i, ns |-> y.ns, segment |-> z.key] \in db.ruleSegments
            BY <2>1, EvaluationSegmentsAre, Zenon
        <3>7. Answers(c, x, r)
            BY <3>1, <3>3, <3>4, <3>5, <3>6, Zenon DEF i
        <3> QED
            BY <3>7
    <2>4. ASSUME NEW r \in db.rules, HasId(got[c], r.id)
          PROVE  (\E x \in answer'[c] : x.id = r.id) \/ \A s \in db.ruleSegments : s.rule # r.id
        <3>1. PICK g \in got[c] : g.id = r.id
            BY <2>4 DEF HasId
        <3>2. CASE EvaluationSegments(db, g.id) = {}
            <4> DEFINE i == g.id
            <4>1. EvaluationSegments(db, i) = {} /\ i = r.id
                BY <3>1, <3>2
            <4> HIDE DEF i
            <4>2. \A s \in db.ruleSegments : s.rule # i
                BY <2>1, <4>1, EvaluationSegmentsAre
            <4> QED
                BY <4>1, <4>2
        <3>3. CASE EvaluationSegments(db, g.id) # {}
            <4> DEFINE z == [id |-> g.id, rank |-> g.rank, operator |-> g.operator,
                             segments |-> EvaluationSegments(db, g.id)]
            <4>1. z \in answer'[c] /\ z.id = r.id
                BY <2>2, <3>1, <3>3
            <4> HIDE DEF z
            <4> QED
                BY <4>1
        <3> QED
            BY <3>2, <3>3
    <2> QED
        BY <2>3, <2>4
<1>2. Spec => [][SegmentsCurrent]_vars
    BY <1>1, StoreInvariance, PTL DEF Spec
<1> QED
    BY <1>2 DEF AnswersCurrentSegments

=============================================================================
