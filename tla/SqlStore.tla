------------------------------ MODULE SqlStore ------------------------------
(***************************************************************************)
(* The tables of the SQL store and the requests that change them           *)
(* (internal/storage/sql/common, internal/server/namespace.go): namespaces,*)
(* flags with variants, rules with segments and distributions, rollouts,   *)
(* segments with constraints.  Here a transaction is one step, since the   *)
(* others read what is committed; how transactions that set ranks meet is  *)
(* the subject of SqlRanks, and rollouts have their rank only there.  A    *)
(* request that is several statements or transactions is several steps:    *)
(* DeleteNamespace, CreateDistribution, UpdateDistribution and             *)
(* GetEvaluationRules.                                                     *)
(*                                                                         *)
(* Names, descriptions and attachments are left out.                       *)
(***************************************************************************)
EXTENDS Integers, FiniteSets

CONSTANTS
    Client,       \* concurrent requests
    Namespace,
    Protected,    \* the default namespace, which may not be deleted
    FlagKey, VariantKey, SegmentKey,
    Id,           \* identifiers (UUIDs) of everything else, in use or to come
    Rank,         \* ranks a new rule is given
    InitialDb,    \* the tables at the start
    MaxRequests   \* bound: requests started

Operators == {"OR", "AND"}

\* A constraint compares with no value, or with one, by an operator of its type
\* that the schema of the files lists or by one it does not (lt, for one).
Comparison == {"none", "listed", "unlisted"}

(* The schema (config/migrations): the tables, and their foreign keys with *)
(* ON DELETE CASCADE.                                                      *)

Database ==
    [namespaces : SUBSET Namespace,
     flags : SUBSET [ns : Namespace, key : FlagKey, enabled : BOOLEAN],
     variants : SUBSET [id : Id, ns : Namespace, flag : FlagKey, key : VariantKey],
     segments : SUBSET [ns : Namespace, key : SegmentKey, match : {"all", "any"}],
     constraints : SUBSET [id : Id, ns : Namespace, segment : SegmentKey, value : Comparison],
     rules : SUBSET [id : Id, ns : Namespace, flag : FlagKey, rank : Nat,
                     operator : Operators],
     ruleSegments : SUBSET [rule : Id, ns : Namespace, segment : SegmentKey],
     distributions : SUBSET [id : Id, rule : Id, variant : Id],
     rollouts : SUBSET [id : Id, ns : Namespace, flag : FlagKey,
                        operator : Operators \cup {"threshold"}],
     rolloutSegments : SUBSET [rollout : Id, ns : Namespace, segment : SegmentKey]]

HasFlag(d, n, f) == \E x \in d.flags : x.ns = n /\ x.key = f
HasSegment(d, n, s) == \E x \in d.segments : x.ns = n /\ x.key = s
HasId(t, i) == \E x \in t : x.id = i

\* The tables without the rows whose parent is gone, and theirs.
Cascade(d) ==
    LET ns == [d EXCEPT !.flags = {x \in @ : x.ns \in d.namespaces},
                        !.segments = {x \in @ : x.ns \in d.namespaces}]
        fs == [ns EXCEPT !.variants = {x \in @ : HasFlag(ns, x.ns, x.flag)},
                         !.rules = {x \in @ : HasFlag(ns, x.ns, x.flag)},
                         !.rollouts = {x \in @ : HasFlag(ns, x.ns, x.flag)},
                         !.constraints = {x \in @ : HasSegment(ns, x.ns, x.segment)}]
    IN  [fs EXCEPT !.ruleSegments = {x \in @ : /\ HasId(fs.rules, x.rule)
                                               /\ HasSegment(fs, x.ns, x.segment)},
                   !.distributions = {x \in @ : /\ HasId(fs.rules, x.rule)
                                                /\ HasId(fs.variants, x.variant)},
                   !.rolloutSegments = {x \in @ : /\ HasId(fs.rollouts, x.rollout)
                                                  /\ HasSegment(fs, x.ns, x.segment)}]

UniqueKeys(d) ==
    /\ \A x, y \in d.flags : x.ns = y.ns /\ x.key = y.key => x = y
    /\ \A x, y \in d.segments : x.ns = y.ns /\ x.key = y.key => x = y
    /\ \A x, y \in d.variants :
         x.ns = y.ns /\ x.flag = y.flag /\ x.key = y.key => x = y

\* What the database accepts.
Acceptable(d) == Cascade(d) = d /\ UniqueKeys(d)

\* Every row of these tables has an identifier of its own.
IdTables(d) == {d.variants, d.rules, d.rollouts, d.constraints, d.distributions}
UniqueIds(d) == \A t \in IdTables(d) : \A x, y \in t : x.id = y.id => x = y

\* Nothing of one namespace is used in another.
Separate(d) ==
    /\ \A x \in d.distributions : \E r \in d.rules, v \in d.variants :
         r.id = x.rule /\ v.id = x.variant /\ r.ns = v.ns
    /\ \A x \in d.rolloutSegments : \E r \in d.rollouts :
         r.id = x.rollout /\ r.ns = x.ns

\* The tables at the start are some the requests below can have made.
ASSUME StoreAssumption ==
    /\ MaxRequests \in Nat /\ Rank \subseteq Nat
    /\ InitialDb \in Database
    /\ Acceptable(InitialDb) /\ UniqueIds(InitialDb) /\ Separate(InitialDb)

-----------------------------------------------------------------------------
VARIABLES
    db,        \* the tables, each a set of rows
    unused,    \* identifiers not yet given out
    pc, req,   \* where the request of a client is, and its parameters
    got,       \* what its first statement has read
    answer,    \* the rules it answered with
    updated,   \* history: columns of rules updated since that first statement
    since,     \* history: flags that have existed since the request started
    requests   \* requests started so far

vars == <<db, unused, pc, req, got, answer, updated, since, requests>>

-----------------------------------------------------------------------------
Idle == [op |-> "none"]

Init ==
    /\ db = InitialDb
    /\ unused = {i \in Id : ~\E t \in IdTables(db) : HasId(t, i)}
    /\ pc = [c \in Client |-> "idle"]
    /\ req = [c \in Client |-> Idle]
    /\ got = [c \in Client |-> {}]
    /\ answer = [c \in Client |-> {}]
    /\ updated = [c \in Client |-> {}]
    /\ since = [c \in Client |-> {}]
    /\ requests = 0

\* Every change of the tables goes through here, so that the histories see it.
Store(d) ==
    /\ db' = d
    /\ since' = [c \in Client |-> since[c] \cap {<<x.ns, x.key>> : x \in d.flags}]

\* A change the database refuses is an error, and changes nothing.
Try(d) == Store(IF Acceptable(d) THEN d ELSE db)

\* A request of one statement or transaction.
Request == requests < MaxRequests /\ requests' = requests + 1
Single(d) == Request /\ Try(d) /\ UNCHANGED <<pc, req, got, answer>>
Quiet == UNCHANGED <<unused, updated>>

\* A column of these rules may have changed since they were read.
Noted(ids, column) ==
    /\ updated' = [c \in Client |->
         updated[c] \cup (IF pc[c] = "segments" THEN ids \X {column} ELSE {})]
    /\ UNCHANGED unused

\* Mutant of Fresh: the identifier may be given out again.
FreshReused(i) == i \in unused /\ UNCHANGED <<unused, updated>>

\* INSERT of a row with a new identifier.
Fresh(i) == i \in unused /\ unused' = unused \ {i} /\ UNCHANGED updated

-----------------------------------------------------------------------------
CreateNamespace(n) ==
    /\ n \notin db.namespaces
    /\ Single([db EXCEPT !.namespaces = @ \cup {n}])
    /\ Quiet

CreateFlag(n, f) ==
    /\ ~HasFlag(db, n, f)
    /\ Single([db EXCEPT !.flags = @ \cup {[ns |-> n, key |-> f, enabled |-> TRUE]}])
    /\ Quiet

UpdateFlag(x) ==
    /\ Single([db EXCEPT !.flags = (@ \ {x}) \cup {[x EXCEPT !.enabled = ~@]}])
    /\ Quiet

DeleteFlag(x) == Single(Cascade([db EXCEPT !.flags = @ \ {x}])) /\ Quiet

CreateVariant(i, n, f, k) ==
    /\ Fresh(i)
    /\ Single([db EXCEPT !.variants = @ \cup {[id |-> i, ns |-> n, flag |-> f, key |-> k]}])

UpdateVariant(x, k) ==
    Single([db EXCEPT !.variants = (@ \ {x}) \cup {[x EXCEPT !.key = k]}]) /\ Quiet

DeleteVariant(x) == Single(Cascade([db EXCEPT !.variants = @ \ {x}])) /\ Quiet

CreateSegment(n, s) ==
    /\ ~HasSegment(db, n, s)
    /\ Single([db EXCEPT !.segments = @ \cup {[ns |-> n, key |-> s, match |-> "all"]}])
    /\ Quiet

UpdateSegment(x) ==
    /\ Single([db EXCEPT !.segments = (@ \ {x}) \cup
                 {[x EXCEPT !.match = IF @ = "all" THEN "any" ELSE "all"]}])
    /\ Quiet

DeleteSegment(x) == Single(Cascade([db EXCEPT !.segments = @ \ {x}])) /\ Quiet

\* The value is dropped when the operator needs none.
ConstraintRow(i, n, s, value) == [id |-> i, ns |-> n, segment |-> s, value |-> value]

CreateConstraint(i, n, s, value) ==
    /\ Fresh(i)
    /\ Single([db EXCEPT !.constraints = @ \cup {ConstraintRow(i, n, s, value)}])

UpdateConstraint(x, value) ==
    /\ Single([db EXCEPT !.constraints =
                 (@ \ {x}) \cup {ConstraintRow(x.id, x.ns, x.segment, value)}])
    /\ Quiet

DeleteConstraint(x) == Single([db EXCEPT !.constraints = @ \ {x}]) /\ Quiet

-----------------------------------------------------------------------------
\* One segment is always an OR.
SegmentOperator(S, o) == IF Cardinality(S) = 1 THEN "OR" ELSE o

RuleSegments(i, n, S) == {[rule |-> i, ns |-> n, segment |-> s] : s \in S}

CreateRule(i, n, f, k, S, o) ==
    /\ Fresh(i)
    /\ Single([db EXCEPT
         !.rules = @ \cup {[id |-> i, ns |-> n, flag |-> f, rank |-> k,
                           operator |-> SegmentOperator(S, o)]},
         !.ruleSegments = @ \cup RuleSegments(i, n, S)])

\* The operator is set where identifier, namespace and flag agree; the segments
\* are replaced where identifier and namespace do.
UpdateRule(i, n, f, S, o) ==
    /\ Single([db EXCEPT
         !.rules = {IF x.id = i /\ x.ns = n /\ x.flag = f
                    THEN [x EXCEPT !.operator = SegmentOperator(S, o)] ELSE x : x \in @},
         !.ruleSegments = {x \in @ : ~(x.rule = i /\ x.ns = n)} \cup RuleSegments(i, n, S)])
    /\ Noted({i}, "operator")

\* orderRules: the rules with these identifiers get the ranks of their places.
Places(S) ==
    {p \in [S -> 1..Cardinality(S)] : \A i, j \in S : p[i] = p[j] => i = j}
Ranked(rules, n, f, place) ==
    {IF x.id \in DOMAIN place /\ x.ns = n /\ x.flag = f
     THEN [x EXCEPT !.rank = place[x.id]] ELSE x : x \in rules}

OrderRules(n, f, place) ==
    /\ Single([db EXCEPT !.rules = Ranked(@, n, f, place)])
    /\ Noted(DOMAIN place, "rank")

\* The rules that are left of the flag are put in order of their ranks.
DeleteRule(x) ==
    LET rest == {y \in db.rules : y.ns = x.ns /\ y.flag = x.flag /\ y # x}
    IN  \E place \in Places({y.id : y \in rest}) :
          /\ \A y, z \in rest : y.rank < z.rank => place[y.id] < place[z.id]
          /\ Single(Cascade([db EXCEPT !.rules = Ranked(@ \ {x}, x.ns, x.flag, place)]))
          /\ Noted(DOMAIN place, "rank")

RolloutSegments(i, n, S) == {[rollout |-> i, ns |-> n, segment |-> s] : s \in S}

\* A rollout is of segments, with an operator, or of a threshold (no segments).
RolloutOperator(S, o) == IF S = {} THEN "threshold" ELSE SegmentOperator(S, o)

CreateRollout(i, n, f, S, o) ==
    /\ Fresh(i)
    /\ Single([db EXCEPT
         !.rollouts = @ \cup {[id |-> i, ns |-> n, flag |-> f, operator |-> RolloutOperator(S, o)]},
         !.rolloutSegments = @ \cup RolloutSegments(i, n, S)])

\* The rollout is read first, in the namespace of the request; its type stays.
UpdateRollout(i, n, f, S, o) ==
    LET new == [db EXCEPT
          !.rollouts = {IF x.id = i THEN [x EXCEPT !.operator = RolloutOperator(S, o)]
                        ELSE x : x \in @},
          !.rolloutSegments = {x \in @ : x.rollout # i} \cup RolloutSegments(i, n, S)]
    IN  /\ Single(IF \E x \in db.rollouts : /\ x.id = i /\ x.ns = n /\ x.flag = f
                                            /\ (x.operator = "threshold") = (S = {})
                  THEN new ELSE db)
        /\ Quiet

DeleteRollout(x) == Single(Cascade([db EXCEPT !.rollouts = @ \ {x}])) /\ Quiet

DeleteDistribution(x) == Single([db EXCEPT !.distributions = @ \ {x}]) /\ Quiet

-----------------------------------------------------------------------------
(* Requests of several statements.                                         *)

Start(c, r, at) ==
    /\ pc[c] = "idle"
    /\ Request
    /\ pc' = [pc EXCEPT ![c] = at]
    /\ req' = [req EXCEPT ![c] = r]
    /\ got' = [got EXCEPT ![c] = {}]
    /\ since' = [since EXCEPT ![c] = {<<x.ns, x.key>> : x \in db.flags}]
    /\ updated' = [updated EXCEPT ![c] = {}]
    /\ UNCHANGED <<db, unused, answer>>

\* The request ends, and its locals with it.
Return(c, a) ==
    /\ pc' = [pc EXCEPT ![c] = "idle"]
    /\ req' = [req EXCEPT ![c] = Idle]
    /\ got' = [got EXCEPT ![c] = {}]
    /\ answer' = [answer EXCEPT ![c] = a]

Goto(c, at) == pc' = [pc EXCEPT ![c] = at] /\ UNCHANGED <<req, answer>>

\* DeleteNamespace of the server: look, count, delete.
StartDeleteNamespace(c) ==
    \E n \in db.namespaces : Start(c, [op |-> "deleteNamespace", ns |-> n], "namespace")

GetNamespace(c) ==
    /\ pc[c] = "namespace"
    /\ IF req[c].ns \notin db.namespaces \/ req[c].ns = Protected
       THEN Return(c, {})
       ELSE Goto(c, "countFlags") /\ UNCHANGED got
    /\ UNCHANGED <<db, unused, updated, since, requests>>

\* Mutant of CountFlags: the count is not looked at.
CountNothing(c) ==
    /\ pc[c] = "countFlags"
    /\ Goto(c, "deleteNamespace")
    /\ UNCHANGED <<db, unused, got, updated, since, requests>>

CountFlags(c) ==
    /\ pc[c] = "countFlags"
    /\ IF \E x \in db.flags : x.ns = req[c].ns
       THEN Return(c, {})
       ELSE Goto(c, "deleteNamespace") /\ UNCHANGED got
    /\ UNCHANGED <<db, unused, updated, since, requests>>

DeleteNamespace(c) ==
    /\ pc[c] = "deleteNamespace"
    /\ Store(Cascade([db EXCEPT !.namespaces = @ \ {req[c].ns}]))
    /\ Return(c, {})
    /\ UNCHANGED <<unused, updated, requests>>

\* CreateDistribution and UpdateDistribution: validate, then write.  The rule,
\* the variant and the flag need only be of the request's namespace.
StartDistribution(c) ==
    \E n \in Namespace, f \in FlagKey, r \in db.rules, v \in db.variants :
      \/ Start(c, [op |-> "createDistribution", ns |-> n, flag |-> f,
                   rule |-> r.id, variant |-> v.id], "validate")
      \/ \E x \in db.distributions :
           Start(c, [op |-> "updateDistribution", ns |-> n, flag |-> f,
                     rule |-> r.id, variant |-> v.id, id |-> x.id], "validate")

\* Mutant of Validate: the rows must exist, in whatever namespace.
ValidateExistence(c) ==
    /\ pc[c] = "validate"
    /\ IF /\ \E x \in db.rules : x.id = req[c].rule
          /\ \E x \in db.variants : x.id = req[c].variant
       THEN Goto(c, "write") /\ UNCHANGED got
       ELSE Return(c, {})
    /\ UNCHANGED <<db, unused, updated, since, requests>>

Validate(c) ==
    /\ pc[c] = "validate"
    /\ IF /\ \E x \in db.rules : x.id = req[c].rule /\ x.ns = req[c].ns
          /\ \E x \in db.variants : x.id = req[c].variant /\ x.ns = req[c].ns
          /\ HasFlag(db, req[c].ns, req[c].flag)
       THEN Goto(c, "write") /\ UNCHANGED got
       ELSE Return(c, {})
    /\ UNCHANGED <<db, unused, updated, since, requests>>

InsertDistribution(c) ==
    /\ pc[c] = "write"
    /\ req[c].op = "createDistribution"
    /\ \E i \in unused :
         /\ unused' = unused \ {i}
         /\ Try([db EXCEPT !.distributions = @ \cup
                   {[id |-> i, rule |-> req[c].rule, variant |-> req[c].variant]}])
    /\ Return(c, {})
    /\ UNCHANGED <<updated, requests>>

ReplaceDistribution(c) ==
    /\ pc[c] = "write"
    /\ req[c].op = "updateDistribution"
    /\ Try([db EXCEPT !.distributions =
              {IF x.id = req[c].id /\ x.rule = req[c].rule
               THEN [x EXCEPT !.variant = req[c].variant] ELSE x : x \in @}])
    /\ Return(c, {})
    /\ UNCHANGED <<unused, updated, requests>>

-----------------------------------------------------------------------------
\* GetEvaluationRules: a query for the flag's rules, and one for their segments
\* and constraints, joined by namespace and key.
StartEvaluation(c) ==
    \E x \in db.flags : Start(c, [op |-> "evaluate", ns |-> x.ns, flag |-> x.key], "rules")

\* Mutant of SegmentConstraints: constraints of segments with the same key in
\* every namespace.
ConstraintsOfKey(d, x) == {k.id : k \in {k \in d.constraints : k.segment = x.segment}}

SegmentConstraints(d, x) ==
    {k.id : k \in {k \in d.constraints : k.segment = x.segment /\ k.ns = x.ns}}

\* Segments are known by their key.
EvaluationSegments(d, i) ==
    LET Of(s) == {x \in d.ruleSegments : x.rule = i /\ x.segment = s}
    IN  {[key |-> s, constraints |-> UNION {SegmentConstraints(d, x) : x \in Of(s)},
          match |-> (CHOOSE y \in d.segments :
                       y.key = s /\ \E x \in Of(s) : x.ns = y.ns).match] :
           s \in {s \in SegmentKey : Of(s) # {}}}

\* A rule without segments is not answered; the others are sorted by the rank that
\* was read with them.
RulesWithSegments(rules, d) ==
    {[id |-> r.id, rank |-> r.rank, operator |-> r.operator,
      segments |-> EvaluationSegments(d, r.id)] :
       r \in {r \in rules : EvaluationSegments(d, r.id) # {}}}

ReadRules(c) ==
    /\ pc[c] = "rules"
    /\ got' = [got EXCEPT ![c] =
         {x \in db.rules : x.ns = req[c].ns /\ x.flag = req[c].flag}]
    /\ updated' = [updated EXCEPT ![c] = {}]
    /\ Goto(c, "segments")
    /\ UNCHANGED <<db, unused, since, requests>>

ReadSegments(c) ==
    /\ pc[c] = "segments"
    /\ Return(c, RulesWithSegments(got[c], db))
    /\ UNCHANGED <<db, unused, updated, since, requests>>

-----------------------------------------------------------------------------
SomeSegments == SUBSET SegmentKey \ {{}}

Catalogue ==
    \/ \E n \in Namespace : CreateNamespace(n)
    \/ \E n \in Namespace, f \in FlagKey : CreateFlag(n, f)
    \/ \E x \in db.flags : UpdateFlag(x) \/ DeleteFlag(x)
    \/ \E i \in unused, n \in Namespace, f \in FlagKey, k \in VariantKey :
         CreateVariant(i, n, f, k)
    \/ \E x \in db.variants, k \in VariantKey : UpdateVariant(x, k)
    \/ \E x \in db.variants : DeleteVariant(x)
    \/ \E n \in Namespace, s \in SegmentKey : CreateSegment(n, s)
    \/ \E x \in db.segments : UpdateSegment(x) \/ DeleteSegment(x)
    \/ \E i \in unused, n \in Namespace, s \in SegmentKey, v \in Comparison :
         CreateConstraint(i, n, s, v)
    \/ \E x \in db.constraints, v \in Comparison : UpdateConstraint(x, v)
    \/ \E x \in db.constraints : DeleteConstraint(x)

Strategies ==
    \/ \E n \in Namespace, f \in FlagKey, o \in Operators :
         \/ \E i \in unused, k \in Rank, S \in SomeSegments : CreateRule(i, n, f, k, S, o)
         \/ \E x \in db.rules, S \in SomeSegments : UpdateRule(x.id, n, f, S, o)
         \/ \E i \in unused, S \in SUBSET SegmentKey : CreateRollout(i, n, f, S, o)
         \/ \E x \in db.rollouts, S \in SUBSET SegmentKey : UpdateRollout(x.id, n, f, S, o)
    \/ \E n \in Namespace, f \in FlagKey :
         \E S \in SUBSET {x.id : x \in {x \in db.rules : x.ns = n /\ x.flag = f}} :
           \E place \in Places(S) : OrderRules(n, f, place)
    \/ \E x \in db.rules : DeleteRule(x)
    \/ \E x \in db.rollouts : DeleteRollout(x)
    \/ \E x \in db.distributions : DeleteDistribution(x)

Steps(c) ==
    \/ StartDeleteNamespace(c) \/ GetNamespace(c) \/ CountFlags(c) \/ DeleteNamespace(c)
    \/ StartDistribution(c) \/ Validate(c) \/ InsertDistribution(c) \/ ReplaceDistribution(c)
    \/ StartEvaluation(c) \/ ReadRules(c) \/ ReadSegments(c)

Next == Catalogue \/ Strategies \/ \E c \in Client : Steps(c)

Spec == Init /\ [][Next]_vars

-----------------------------------------------------------------------------
\* The tables satisfy the schema and identifiers are given out once; in
\* particular a row never outlives its parent, whatever the requests.
TypeOK ==
    /\ db \in Database /\ Acceptable(db) /\ UniqueIds(db)
    /\ unused \subseteq Id /\ \A t \in IdTables(db) : \A x \in t : x.id \notin unused
    /\ requests \in 0..MaxRequests

\* Nothing of one namespace is used in another: a distribution's variant is of
\* the namespace of its rule (distributionValidationHelper; the schema does not
\* say so) and a rollout's segments are of the rollout's (UpdateRollout reads
\* the rollout in the request's namespace first).
NamespacesSeparate == Separate(db)

\* A rule's segments are of the rule's namespace.
RulesUseOwnSegments ==
    \A x \in db.ruleSegments : \E r \in db.rules : r.id = x.rule /\ r.ns = x.ns

\* Although rules and segments are read in two queries, a rule is answered with
\* the segments, match types and constraints it has when it is answered; only its
\* operator may be old, when UpdateRule ran between the two, and the rank by which
\* it is sorted, when OrderRules or DeleteRule did (GetEvaluationRules).
AnswersCurrentSegments ==
    [][\A c \in Client : ReadSegments(c) =>
         /\ \A x \in answer'[c] : \E r \in db.rules :
              LET Uses(n, key) == [rule |-> r.id, ns |-> n, segment |-> key] \in db.ruleSegments
              IN  /\ r.id = x.id
                  /\ r.operator = x.operator \/ <<r.id, "operator">> \in updated[c]
                  /\ r.rank = x.rank \/ <<r.id, "rank">> \in updated[c]
                  /\ {s.key : s \in x.segments} =
                       {key \in SegmentKey : \E n \in Namespace : Uses(n, key)}
                  /\ \A s \in x.segments :
                       /\ s.constraints = {k.id : k \in {k \in db.constraints :
                                             k.segment = s.key /\ Uses(k.ns, s.key)}}
                       /\ \E y \in db.segments :
                            y.key = s.key /\ y.match = s.match /\ Uses(y.ns, s.key)
         /\ \A r \in db.rules : HasId(got[c], r.id) =>
              \/ \E x \in answer'[c] : x.id = r.id
              \/ \A s \in db.ruleSegments : s.rule # r.id]_vars

\* Deleting a namespace never takes along a flag that was there when the request
\* came in and was never deleted since; one that is created after the flags were
\* counted goes with it (DeleteNamespace of the server: count, then delete).
KnownFlagsSurvive ==
    [][\A c \in Client : DeleteNamespace(c) =>
         \A x \in since[c] : \E y \in db'.flags : <<y.ns, y.key>> = x]_vars

=============================================================================
