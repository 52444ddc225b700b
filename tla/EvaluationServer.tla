-------------------------- MODULE EvaluationServer --------------------------
(***************************************************************************)
(* An evaluation request over a declarative store that is updated under    *)
(* it (internal/server/evaluation over internal/storage/fs), and the       *)
(* request for the data with which a client evaluates by itself            *)
(* (internal/server/evaluation/data).                                      *)
(*                                                                         *)
(* Every read of the store is a View of its own, of the snapshot that is   *)
(* being served at that moment.  A snapshot gives its rules fresh          *)
(* identifiers when it is built (addDoc), and is built again when a file,  *)
(* a commit or an object changes - the local store builds one at every     *)
(* poll.  Requests do not disturb each other, so one is followed.          *)
(***************************************************************************)
EXTENDS Evaluation

CONSTANTS
    Ref, BaseRef,   \* references, and the one an empty reference stands for
    Content,        \* what the files may say about the flag
    Flag,           \* [Content -> its type, enabled, rules and rollouts]
    Entity,         \* the entities asked about
    Trial,          \* constraints a segment may have
    MaxBuilds       \* bound: snapshots built

ASSUME ServerAssumption ==
    /\ BaseRef \in Ref
    /\ DOMAIN Flag = Content
    /\ MaxBuilds \in Nat

\* What is known of the data.  A text reads as one number, which may be NaN, truth
\* value or date at most, and a value is one list at most, in which JSON has no NaN.
AtMostOne(S) == \A x, y \in S : x = y

IsText(text) ==
    /\ text.blank \in BOOLEAN /\ text.raw # NaN
    /\ text.number \subseteq Int \cup {NaN} /\ AtMostOne(text.number)
    /\ text.boolean \subseteq BOOLEAN /\ AtMostOne(text.boolean)
    /\ text.datetime \subseteq Int /\ AtMostOne(text.datetime)

IsConstraint(c) ==
    /\ IsText(c.value) /\ AtMostOne(c.list) /\ NaN \notin UNION c.list
    /\ \A e \in Entity : IsText(TextOf(c, e))

IsSegment(s) ==
    /\ s.match \in {"ALL", "ANY"}
    /\ IsFiniteSet(s.constraints) /\ \A c \in s.constraints : IsConstraint(c)

\* Rules and rollouts are ranked by their place in the file (addDoc).
AreRanked(ranked) ==
    /\ Len(ranked) \in Nat /\ DOMAIN ranked = 1..Len(ranked)
    /\ \A i \in DOMAIN ranked :
         /\ ranked[i].rank = i /\ ranked[i].operator \in {"AND", "OR"}
         /\ IsFiniteSet(ranked[i].segments)
         /\ \A s \in ranked[i].segments : IsSegment(s)

Allotted == [variant : STRING, rollout : Nat]

IsFlag(f) ==
    /\ f = [type |-> f.type, enabled |-> f.enabled, rules |-> f.rules, rollouts |-> f.rollouts]
    /\ f.type \in {"none", "boolean", "variant"} /\ f.enabled \in BOOLEAN
    /\ AreRanked(f.rules) /\ AreRanked(f.rollouts)
    /\ \A i \in DOMAIN f.rules : f.rules[i].distributions \in Seq(Allotted)
    /\ \A i \in DOMAIN f.rollouts : f.rollouts[i].percentage \in Int

ASSUME DataAssumption ==
    /\ NaN \notin Int /\ NoText.boolean = {}
    /\ \A content \in Content : IsFlag(Flag[content])
    /\ \A c \in Trial : c.type \in DOMAIN Operators /\ IsConstraint(c)
    /\ \A e \in Entity : e.bucket \in 0..(TotalBucketNum - 1) /\ e.percentile \in 0..99

VARIABLES
    served,     \* the snapshot served for every reference
    builds,     \* snapshots built so far
    pc, method, entity,     \* the request, and where it is
    ref,        \* the reference GetFlag is given
    inner,      \* the reference of the request itself; Batch has its own
    enabled,    \* flag.Enabled, as read by GetFlag
    rule,       \* the rule that matched: the build it is from and its place
                \* there (its identifier); history: its distributions there
    response,
    copy,       \* the flag as copied for a client
    todo,       \* its rules, each with the segments still to be gone through
    settled,    \* history: no snapshot was replaced since the request began
    seen        \* history: contents served at its reference since then

requestVars == <<pc, method, ref, inner, entity, enabled, rule, response, copy, todo,
                 settled, seen>>
vars == <<served, builds, requestVars>>

Method == {"Variant", "Boolean", "Batch", "Snapshot"}
NoCopy == [type |-> "none"]
NoRule == [build |-> 0, index |-> 0, distributions |-> <<>>]

\* The rule with index i of the snapshot the default reference has now.
RuleNow(i) ==
    [build |-> served[BaseRef].build, index |-> i,
     distributions |-> Flag[served[BaseRef].content].rules[i].distributions]

TypeOf(r) == Flag[served[r].content].type

Init ==
    /\ served \in [Ref -> [content : Content, build : {0}]]
    /\ builds = 0
    /\ pc = "idle" /\ method = "Variant" /\ ref = BaseRef /\ inner = BaseRef
    /\ entity \in Entity
    /\ enabled = FALSE /\ rule = NoRule /\ response = NoMatch
    /\ copy = NoCopy /\ todo = {}
    /\ settled = TRUE /\ seen = {}

\* A poll: a new snapshot takes the place of a reference's, with the same or
\* with other content.
Rebuild(r, content) ==
    /\ builds < MaxBuilds
    /\ builds' = builds + 1
    /\ served' = [served EXCEPT ![r] = [content |-> content, build |-> builds + 1]]
    /\ settled' = FALSE
    /\ seen' = IF r = ref THEN seen \cup {content} ELSE seen
    /\ UNCHANGED <<pc, method, ref, inner, entity, enabled, rule, response, copy, todo>>

Request(m, r, i, e) ==
    /\ pc \in {"idle", "done"}
    /\ m # "Batch" => i = r
    /\ m = "Snapshot" => e = entity     \* which asks about nobody
    /\ pc' = "flag"
    /\ method' = m /\ ref' = r /\ inner' = i /\ entity' = e
    /\ enabled' = FALSE /\ rule' = NoRule /\ response' = NoMatch
    /\ copy' = NoCopy /\ todo' = {}
    /\ settled' = TRUE /\ seen' = {served[r].content}
    /\ UNCHANGED <<served, builds>>

Respond(answer) == pc' = "done" /\ response' = answer

\* GetFlag, at the request's reference (of a batch: at the batch's), and what
\* Variant, Boolean and Batch do with the flag they get.
GetFlag ==
    /\ pc = "flag" /\ method # "Snapshot"
    /\ enabled' = Flag[served[ref].content].enabled
    /\ LET type == TypeOf(ref)
       IN  \/ /\ type = "none"
              /\ Respond(Failed)
           \/ /\ type = "boolean"
              /\ IF method = "Variant" THEN Respond(Failed)
                                       ELSE pc' = "rollouts" /\ UNCHANGED response
           \/ /\ type = "variant"
              /\ CASE method = "Boolean" -> Respond(Failed)
                   [] method # "Boolean" /\ ~enabled' -> Respond(Disabled)
                   [] OTHER -> pc' = "rules" /\ UNCHANGED response
    /\ UNCHANGED <<served, builds, method, ref, inner, entity, rule, copy, todo, settled, seen>>

\* GetEvaluationRules, called without the request's reference, and the loop
\* over the rules up to the one that decides.
GetEvaluationRules ==
    /\ pc = "rules"
    /\ LET rules == Flag[served[BaseRef].content].rules
           i == DecidingRule(rules, entity)
       IN  CASE TypeOf(BaseRef) = "none" -> Respond(Failed) /\ UNCHANGED rule
             [] TypeOf(BaseRef) # "none" /\ i = 0 -> Respond(NoMatch) /\ UNCHANGED rule
             [] i > 0 /\ FailsAt(rules, i) -> Respond(Failed) /\ UNCHANGED rule
             [] OTHER -> /\ rule' = RuleNow(i)
                         /\ pc' = "distributions" /\ UNCHANGED response
    /\ UNCHANGED <<served, builds, method, ref, inner, entity, enabled, copy, todo, settled, seen>>

\* GetEvaluationDistributions: the rule is looked up by its identifier, which
\* only the snapshot it was read from knows; for an unknown one the list is
\* empty, as it is for a rule without distributions.
GetEvaluationDistributions ==
    /\ pc = "distributions"
    /\ LET now == served[BaseRef]
           distributions == IF now.build = rule.build
                            THEN Flag[now.content].rules[rule.index].distributions
                            ELSE <<>>
       IN  Respond(DistributionResponse(distributions, entity))
    /\ UNCHANGED <<served, builds, method, ref, inner, entity, enabled, rule, copy, todo, settled,
                   seen>>

\* GetEvaluationRollouts, at the request's own reference, and the loop.
GetEvaluationRollouts ==
    /\ pc = "rollouts"
    /\ Respond(IF TypeOf(inner) = "none" THEN Failed
               ELSE BooleanResponse(enabled, Flag[served[inner].content].rollouts, entity))
    /\ UNCHANGED <<served, builds, method, ref, inner, entity, enabled, rule, copy, todo, settled,
                   seen>>

----------------------------------------------------------------------------
\* EvaluationSnapshotNamespace: everything a client needs of a namespace, here
\* of one flag.  All is read at the request's reference, in a View for each part.

\* ListFlags.
CopyFlag ==
    /\ pc = "flag" /\ method = "Snapshot"
    /\ LET f == Flag[served[ref].content]
       IN  /\ copy' = [type |-> f.type, enabled |-> f.enabled, rules |-> <<>>,
                       rollouts |-> <<>>, given |-> <<>>, listed |-> <<>>]
           /\ pc' = CASE f.type = "none" -> "done"
                       [] f.type = "boolean" -> "copyRollouts"
                       [] f.type = "variant" -> "copyRules"
    /\ UNCHANGED <<served, builds, method, ref, inner, entity, enabled, rule, response,
                   todo, settled, seen>>

\* GetEvaluationRules: the client gets a rule with its segments, and no
\* distributions yet.
CopyRules ==
    /\ pc = "copyRules"
    /\ LET now == served[ref]
           rules == Flag[now.content].rules
       IN  IF TypeOf(ref) = "none"
           THEN Respond(Failed) /\ UNCHANGED <<copy, todo, rule>>
           ELSE /\ copy' = [copy EXCEPT !.rules = rules,
                                        !.given = [i \in DOMAIN rules |-> <<>>]]
                /\ todo' = UNION {{i} \X rules[i].segments : i \in DOMAIN rules}
                /\ rule' = [NoRule EXCEPT !.build = now.build]
                /\ pc' = "copyDistributions" /\ UNCHANGED response
    /\ UNCHANGED <<served, builds, method, ref, inner, entity, enabled, settled, seen>>

\* The distributions of rule i, at the time of the call.
ReadDistributions(i) ==
    IF served[ref].build = rule.build
    THEN Flag[served[ref].content].rules[i].distributions ELSE <<>>

\* Mutant of CopyDistributions: a rule is put before those already listed.
CopyDistributionsBackwards ==
    /\ pc = "copyDistributions"
    /\ \E next \in todo :
         /\ \A other \in todo : next[1] <= other[1]
         /\ copy' = [copy EXCEPT !.given[next[1]] = @ \o ReadDistributions(next[1]),
                                 !.listed = <<next[1]>> \o @]
         /\ todo' = todo \ {next}
    /\ UNCHANGED <<served, builds, pc, method, ref, inner, entity, enabled, rule,
                   response, settled, seen>>

\* The loop over the segments of a rule, which are a map: for each, the
\* distributions of the rule are read and added, and the rule is listed.
CopyDistributions ==
    /\ pc = "copyDistributions"
    /\ \E next \in todo :
         /\ \A other \in todo : next[1] <= other[1]
         /\ copy' = [copy EXCEPT !.given[next[1]] = @ \o ReadDistributions(next[1]),
                                 !.listed = Append(@, next[1])]
         /\ todo' = todo \ {next}
    /\ UNCHANGED <<served, builds, pc, method, ref, inner, entity, enabled, rule,
                   response, settled, seen>>

CopyEnds ==
    /\ pc = "copyDistributions" /\ todo = {}
    /\ pc' = "done"
    /\ UNCHANGED <<served, builds, method, ref, inner, entity, enabled, rule, response,
                   copy, todo, settled, seen>>

\* GetEvaluationRollouts.
CopyRollouts ==
    /\ pc = "copyRollouts"
    /\ IF TypeOf(ref) = "none"
       THEN Respond(Failed) /\ UNCHANGED copy
       ELSE /\ copy' = [copy EXCEPT !.rollouts = Flag[served[ref].content].rollouts]
            /\ pc' = "done" /\ UNCHANGED response
    /\ UNCHANGED <<served, builds, method, ref, inner, entity, enabled, rule, todo,
                   settled, seen>>

----------------------------------------------------------------------------
RequestStep ==
    \/ GetFlag \/ GetEvaluationRules \/ GetEvaluationDistributions
    \/ GetEvaluationRollouts
    \/ CopyFlag \/ CopyRules \/ CopyDistributions \/ CopyEnds \/ CopyRollouts

Next ==
    \/ \E r \in Ref, content \in Content : Rebuild(r, content)
    \/ \E m \in Method, r, i \in Ref, e \in Entity : Request(m, r, i, e)
    \/ RequestStep

Spec == Init /\ [][Next]_vars

----------------------------------------------------------------------------
\* The reference: what the flag's configuration says about an entity.

\* Every second operator is the opposite of another, among the texts that can be
\* read; those about presence are for every text.  Of NaN nothing is said that
\* needs an order, and it differs from everything.
Opposite == [neq |-> "eq", gte |-> "lt", lte |-> "gt", isnotoneof |-> "isoneof",
             notempty |-> "empty", present |-> "notpresent", false |-> "true"]
Plain(c) == IF c.operator \in DOMAIN Opposite THEN Opposite[c.operator] ELSE c.operator
Readable(c, text) ==
    CASE Plain(c) \in {"empty", "notpresent"} -> TRUE
      [] Plain(c) = "isoneof" -> text # NoText /\ Parsed(c.type, text) # {} /\ c.list # {}
      [] Plain(c) = "true" -> text.boolean # {}
      [] Plain(c) \in {"prefix", "suffix"} -> text # NoText
      [] OTHER -> /\ text # NoText /\ Parsed(c.type, text) # {} /\ Parsed(c.type, c.value) # {}
                  /\ Plain(c) # "eq" => NaN \notin Parsed(c.type, text) \cup Parsed(c.type, c.value)
PlainlyHolds(c, text) ==
    LET n == CHOOSE x \in Parsed(c.type, text) : TRUE
        m == CHOOSE x \in Parsed(c.type, c.value) : TRUE
    IN  CASE Plain(c) \in {"empty", "notpresent"} -> text.blank
          [] Plain(c) = "prefix" -> c.value.raw \in text.prefixes
          [] Plain(c) = "suffix" -> c.value.raw \in text.suffixes
          [] Plain(c) = "true" -> text.boolean = {TRUE}
          [] Plain(c) = "isoneof" -> n \in UNION c.list
          [] Plain(c) = "eq" -> n = m /\ n # NaN
          [] Plain(c) = "lt" -> n < m
          [] Plain(c) = "gt" -> n > m
Satisfies(e, c) ==
    LET text == IF c.type = "entityId" THEN e.id ELSE e.context[c.property]
    IN  /\ c.operator \in Operators[c.type]
        /\ Readable(c, text)
        /\ PlainlyHolds(c, text) <=> c.operator = Plain(c)

Holds(segment, e) ==
    IF segment.match = "ALL"
    THEN \A c \in segment.constraints : Satisfies(e, c)
    ELSE segment.constraints # {} => \E c \in segment.constraints : Satisfies(e, c)

InSegments(x, e) ==
    IF x.operator = "AND" THEN \A s \in x.segments : Holds(s, e)
                          ELSE \E s \in x.segments : Holds(s, e)

\* The share of the entities, in hundredths of a percent, that the first i
\* distributions have between them.
Share(distributions, i) ==
    Totals([j \in DOMAIN distributions |-> distributions[j].rollout])[i]

\* The variant an entity is due: its hash lies in the variant's share.
Due(distributions, e) ==
    {distributions[i].variant : i \in
        {i \in DOMAIN distributions :
            /\ Share(distributions, i - 1) <= 10 * e.bucket
            /\ 10 * e.bucket < Share(distributions, i)}}

WholeBuckets(distributions) ==
    \A i \in DOMAIN distributions : distributions[i].rollout % 10 = 0

\* What a rule with these distributions promises to an entity it is for.
Outcomes(d, e) ==
    CASE Share(d, Len(d)) = 0 -> {MatchWithout}
      [] Share(d, Len(d)) # 0 /\ ~WholeBuckets(d) ->
             {NoMatch} \cup {Response(TRUE, d[i].variant, "MATCH") : i \in DOMAIN d}
      [] OTHER -> IF Due(d, e) = {} THEN {NoMatch}
                  ELSE {Response(TRUE, v, "MATCH") : v \in Due(d, e)}

RuleHits(rules, e) == {i \in DOMAIN rules : InSegments(rules[i], e)}

RolloutHits(rollouts, e) ==
    {i \in DOMAIN rollouts :
        \/ rollouts[i].type = "threshold" /\ 100 * e.percentile < rollouts[i].percentage
        \/ rollouts[i].type = "segment" /\ InSegments(rollouts[i], e)}

\* What a flag without a broken segment promises to an entity.
Promise(f, e) ==
    LET hits == RolloutHits(f.rollouts, e)
        rules == RuleHits(f.rules, e)
    IN  CASE f.type = "boolean" /\ hits = {} -> {Response(TRUE, f.enabled, "DEFAULT")}
          [] f.type = "boolean" /\ hits # {} ->
                 {Response(TRUE, f.rollouts[Min(hits)].value, "MATCH")}
          [] f.type = "variant" /\ ~f.enabled -> {Disabled}
          [] f.type = "variant" /\ f.enabled /\ rules = {} -> {NoMatch}
          [] f.type = "variant" /\ f.enabled /\ rules # {} ->
                 Outcomes(f.rules[Min(rules)].distributions, e)
          [] OTHER -> {Failed}

SomeFails(ranked) == \E i \in DOMAIN ranked : \E s \in ranked[i].segments : ConstraintsFail(s)
Broken(f) == SomeFails(f.rules) \/ SomeFails(f.rollouts)

Asked == Flag[served[ref].content]

Supported(f) == \/ method = "Batch" \/ f.type = "none"
                \/ method = "Variant" /\ f.type = "variant"
                \/ method = "Boolean" /\ f.type = "boolean"

Answered ==
    /\ pc = "done" /\ method # "Snapshot" /\ settled /\ inner = ref
    /\ Supported(Asked) /\ ~Broken(Asked)

\* While no snapshot is replaced, a request at the default reference gets
\* what the flag promises: the first rule or rollout whose segments hold, and
\* of its variants the one whose share the entity's hash lies in.
DefaultReferenceKept == Answered /\ ref = BaseRef => response \in Promise(Asked, entity)

\* Where a rule hands out no more than all hundred percent, the rounding of shares
\* to whole buckets costs a variant less than one bucket, and no bucket goes to two
\* variants or to a 0% one (Evaluate).
FairShares ==
    pc = "distributions" =>
        LET valid == ValidDistributions(rule.distributions)
            Mine(k) == {b \in 0..(TotalBucketNum - 1) : Distribution(valid, b) = k}
        IN  \A k \in DOMAIN valid : Share(valid, k) <= 10000 =>
                LET off == valid[k].rollout - 10 * Cardinality(Mine(k))
                IN  0 <= off /\ off < 10

\* A constraint matches an entity exactly when it says so: half of the operators
\* are the opposites of the others, but only among texts that can be read, so that
\* "neq" does not let in those without the property (matchesString, matchesNumber,
\* matchesBool, matchesDateTime).  NaN is the exception: it is different from every
\* number, itself included, and neither below nor at least, neither above nor at
\* most, any.
OperatorsAgree ==
    pc = "idle" =>
        \A c \in Trial : Matches(c, TextOf(c, entity)) <=> Satisfies(entity, c)

\* "Git backend supports arbitrary references": a request at any reference
\* gets what the flag of that reference promises.
EveryReferenceKept == Answered => response \in Promise(Asked, entity)

\* A boolean flag and its rollouts are read one after the other and a snapshot may
\* take the place of another in between.  Even so the answer is what the rollouts
\* read last say, and where they say nothing, a value the flag had meanwhile
\* (Server.boolean).
BooleanTornOnlyInDefault ==
    [][pc = "rollouts" /\ pc' = "done" /\ inner = ref /\ response'.reason # "ERROR" =>
        \E content \in seen :
            response' \in Promise([Flag[served[ref].content] EXCEPT
                                     !.type = "boolean", !.enabled = Flag[content].enabled],
                                  entity)]_vars

\* How a client evaluates the copy it was sent (external): as the server does.
LocalRule(i) ==
    [rank |-> copy.rules[i].rank, operator |-> copy.rules[i].operator,
     segments |-> copy.rules[i].segments, distributions |-> copy.given[i]]
LocalFlag == [copy EXCEPT !.rules = [k \in DOMAIN copy.listed |-> LocalRule(copy.listed[k])]]
LocalResponse(e) ==
    LET f == LocalFlag
        i == DecidingRule(f.rules, e)
    IN  CASE f.type = "none" -> Failed
          [] f.type = "boolean" -> BooleanResponse(f.enabled, f.rollouts, e)
          [] f.type = "variant" /\ ~f.enabled -> Disabled
          [] f.type = "variant" /\ f.enabled /\ i = 0 -> NoMatch
          [] OTHER -> DistributionResponse(f.rules[i].distributions, e)

Copied == pc = "done" /\ method = "Snapshot" /\ settled /\ ~Broken(Asked)

\* "retrieving all of the feature flags that your application needs to evaluate and
\* then evaluating them locally": a client that evaluates a copy made while nothing
\* changed gives every entity what the flag promises.
LocalEvaluationKept ==
    Copied => \A e \in Entity : LocalResponse(e) \in Promise(Asked, e)

\* It does for boolean flags and wherever the rule that decides has one segment, or
\* has some and hands out all hundred percent: repeated distributions start past the
\* last bucket, but a rule that needs all of no segments is not sent at all
\* (EvaluationSnapshotNamespace).
LocalEvaluationAgrees ==
    Copied => \A e \in Entity :
        \/ LocalResponse(e) \in Promise(Asked, e)
        \/ /\ Asked.type = "variant"
           /\ LET r == Asked.rules[DecidingRule(Asked.rules, e)]
              IN  \/ r.segments = {}
                  \/ /\ Cardinality(r.segments) > 1
                     /\ Share(r.distributions, Len(r.distributions)) < 10000

=============================================================================
