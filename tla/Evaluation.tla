----------------------------- MODULE Evaluation -----------------------------
(***************************************************************************)
(* What a flag evaluates to (internal/server/evaluation): the pure part of *)
(* Evaluator.Evaluate, Server.boolean and matchConstraints, without the    *)
(* reads of the store, which EvaluationServer interleaves with the store's *)
(* updates.                                                                *)
(*                                                                         *)
(* A request's entity is its context, with the text of every property and  *)
(* of the entity's identifier, and its two hashes: its bucket (crc32Num,   *)
(* out of TotalBucketNum) and its percentile (the hash of boolean, out of  *)
(* 100).  A text is known by what the operators ask of it: what it reads   *)
(* as, the prefixes and suffixes it has, whether it is only white space.   *)
(* Rollouts and percentages are kept in hundredths of a percent.           *)
(***************************************************************************)
EXTENDS Integers, Sequences, FiniteSets, FiniteSetsExt

CONSTANTS
    NoText,     \* the text of a property the context does not have
    NaN         \* what strconv.ParseFloat reads "NaN" as

TotalBucketNum == 1000
PercentMultiplier == TotalBucketNum \div 100

NoVariant == "none"

----------------------------------------------------------------------------
\* Constraints.

Presence == {"present", "notpresent"}
Order == {"eq", "neq", "lt", "lte", "gt", "gte"}
Membership == {"isoneof", "isnotoneof"}

Textual == {"eq", "neq", "empty", "notempty", "prefix", "suffix"} \cup Membership

\* The operators that are looked at for a type; any other matches nothing.
Operators ==
    [string   |-> Textual,
     number   |-> Order \cup Presence \cup Membership,
     boolean  |-> {"true", "false"} \cup Presence,
     datetime |-> Order \cup Presence,
     entityId |-> Textual]

\* What a text reads as: one value, or none.
Parsed(type, text) ==
    CASE type \in {"string", "entityId"} -> {text.raw}
      [] type = "number" -> text.number
      [] type = "boolean" -> text.boolean
      [] type = "datetime" -> text.datetime

\* ==, < and >, of which none holds for NaN; it is not in a JSON list either.
Equals(n, m) == n = m /\ n # NaN
Less(n, m) == NaN \notin {n, m} /\ n < m

\* Mutant of Compares: the bound itself is left out.
ComparesStrictly(c, n) ==
    \/ c.operator = "isoneof" /\ \E list \in c.list : n \in list
    \/ c.operator = "isnotoneof" /\ \E list \in c.list : n \notin list
    \/ \E m \in Parsed(c.type, c.value) :
         \/ c.operator = "neq" /\ ~Equals(n, m)
         \/ c.operator = "eq" /\ Equals(n, m)
         \/ c.operator \in {"lt", "lte"} /\ Less(n, m)
         \/ c.operator \in {"gt", "gte"} /\ Less(m, n)

\* The value read is compared with the constraint's, or looked up in its list,
\* which are texts themselves and may not be readable either.
Compares(c, n) ==
    \/ c.operator = "isoneof" /\ \E list \in c.list : n \in list
    \/ c.operator = "isnotoneof" /\ \E list \in c.list : n \notin list
    \/ \E m \in Parsed(c.type, c.value) :
         \/ c.operator = "eq" /\ Equals(n, m)
         \/ c.operator = "neq" /\ ~Equals(n, m)
         \/ c.operator = "lt" /\ Less(n, m)
         \/ c.operator = "lte" /\ (Less(n, m) \/ Equals(n, m))
         \/ c.operator = "gt" /\ Less(m, n)
         \/ c.operator = "gte" /\ (Less(m, n) \/ Equals(n, m))

\* matchesString, matchesNumber, matchesBool and matchesDateTime.  An error is
\* logged and is no match.
Matches(c, text) ==
    /\ c.operator \in Operators[c.type]
    /\ \/ c.operator \in {"empty", "notpresent"} /\ text.blank
       \/ c.operator \in {"notempty", "present"} /\ ~text.blank
       \/ /\ text # NoText
          /\ \/ c.operator = "prefix" /\ c.value.raw \in text.prefixes
             \/ c.operator = "suffix" /\ c.value.raw \in text.suffixes
             \/ c.operator = "true" /\ TRUE \in text.boolean
             \/ c.operator = "false" /\ FALSE \in text.boolean
             \/ /\ c.operator \in Order \cup Membership
                /\ \E n \in Parsed(c.type, text) : Compares(c, n)

TextOf(c, entity) == IF c.type = "entityId" THEN entity.id ELSE entity.context[c.property]

\* The loop counts the constraints that match; it does not stop early.
MatchConstraints(segment, entity) ==
    LET matches == {c \in segment.constraints : Matches(c, TextOf(c, entity))}
    IN  \/ segment.match = "ALL" /\ Cardinality(matches) = Cardinality(segment.constraints)
        \/ segment.match = "ANY" /\ (segment.constraints = {} \/ matches # {})

\* A constraint of an unknown type is an error whatever the others say.
ConstraintsFail(segment) == \E c \in segment.constraints : c.type \notin DOMAIN Operators

MatchedSegments(segments, entity) ==
    {s \in segments : MatchConstraints(s, entity)}

\* Mutant of SegmentsMatch: an operator is forgotten.
SegmentsMatchAny(segments, operator, entity) ==
    MatchedSegments(segments, entity) # {}

SegmentsMatch(segments, operator, entity) ==
    LET matched == MatchedSegments(segments, entity)
    IN  \/ operator = "OR" /\ matched # {}
        \/ operator = "AND" /\ Cardinality(matched) = Cardinality(segments)

\* The loops over rules and over rollouts refuse ranks that go down.
OutOfOrder(ranked, i) == i > 1 /\ ranked[i].rank < ranked[i - 1].rank

FailsAt(ranked, i) ==
    \/ OutOfOrder(ranked, i)
    \/ \E s \in ranked[i].segments : ConstraintsFail(s)

\* The index at which a loop over seq leaves, 0 if it runs to the end.
FirstIndex(seq, Stop(_)) ==
    LET stops == {i \in DOMAIN seq : Stop(i)}
    IN  IF stops = {} THEN 0 ELSE Min(stops)

\* The rule at which Evaluate leaves its loop.
DecidingRule(rules, entity) ==
    FirstIndex(rules, LAMBDA i :
        FailsAt(rules, i) \/ SegmentsMatch(rules[i].segments, rules[i].operator, entity))

----------------------------------------------------------------------------
\* Distributions.

\* The loop over the distributions leaves out those of 0%: what it has kept of
\* the first i.
ValidAmong(distributions) ==
    LET valid[i \in 0..Len(distributions)] ==
            IF i = 0 THEN <<>>
            ELSE IF distributions[i].rollout > 0
                 THEN Append(valid[i - 1], distributions[i]) ELSE valid[i - 1]
    IN  valid

ValidDistributions(distributions) == ValidAmong(distributions)[Len(distributions)]

\* The sum of the first i amounts, for every i.
Totals(amounts) ==
    LET total[i \in 0..Len(amounts)] ==
            IF i = 0 THEN 0 ELSE total[i - 1] + amounts[i]
    IN  total

\* int(d.Rollout * percentMultiplier): parts of a bucket are cut off.
BucketsOf(d) == (d.rollout * PercentMultiplier) \div 100

\* buckets[i]: the first bucket after those of the first i distributions.
Bucket(valid, i) == Totals([j \in DOMAIN valid |-> BucketsOf(valid[j])])[i]

\* Mutant of Distribution: the search is for the bucket itself.
DistributionAtOrAfter(valid, bucket) ==
    FirstIndex(valid, LAMBDA i : Bucket(valid, i) >= bucket)

\* sort.SearchInts(buckets, bucket + 1): the first that is at least that.
Distribution(valid, bucket) ==
    FirstIndex(valid, LAMBDA i : Bucket(valid, i) >= bucket + 1)

----------------------------------------------------------------------------
\* Responses.  An error is a response without a match.

Response(match, value, reason) == [match |-> match, value |-> value, reason |-> reason]

Failed == Response(FALSE, NoVariant, "ERROR")
Disabled == Response(FALSE, NoVariant, "FLAG_DISABLED")
NoMatch == Response(FALSE, NoVariant, "UNKNOWN")
MatchWithout == Response(TRUE, NoVariant, "MATCH")

\* What Evaluate answers once a rule has matched and its distributions are
\* read.
DistributionResponse(distributions, entity) ==
    LET valid == ValidDistributions(distributions)
        index == Distribution(valid, entity.bucket)
    IN  CASE valid = <<>> -> MatchWithout
          [] valid # <<>> /\ index = 0 -> NoMatch
          [] OTHER -> Response(TRUE, valid[index].variant, "MATCH")

\* Mutant of RolloutMatches: the percentile at the threshold is let in.
RolloutMatchesAt(rollout, entity) ==
    \/ /\ rollout.type = "threshold"
       /\ entity.percentile * 100 <= rollout.percentage
    \/ /\ rollout.type = "segment"
       /\ SegmentsMatch(rollout.segments, rollout.operator, entity)

RolloutMatches(rollout, entity) ==
    \/ /\ rollout.type = "threshold"
       /\ entity.percentile * 100 < rollout.percentage
    \/ /\ rollout.type = "segment"
       /\ SegmentsMatch(rollout.segments, rollout.operator, entity)

\* boolean: the first rollout that matches decides, else the flag.
BooleanResponse(enabled, rollouts, entity) ==
    LET i == FirstIndex(rollouts, LAMBDA k :
                 FailsAt(rollouts, k) \/ RolloutMatches(rollouts[k], entity))
    IN  CASE i = 0 -> Response(TRUE, enabled, "DEFAULT")
          [] i > 0 /\ FailsAt(rollouts, i) -> Failed
          [] OTHER -> Response(TRUE, rollouts[i].value, "MATCH")

=============================================================================
