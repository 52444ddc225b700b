------------------------- MODULE MCEvaluationServer -------------------------
(* Flags, segments and entities for TLC. *)
EXTENDS EvaluationServer

\* Texts: the empty one, white space, words, numbers, truth values and dates.
Text(raw, blank, prefixes, suffixes, number, boolean, datetime) ==
    [raw |-> raw, blank |-> blank, prefixes |-> prefixes, suffixes |-> suffixes,
     number |-> number, boolean |-> boolean, datetime |-> datetime]
Word(raw, prefixes, suffixes) == Text(raw, FALSE, prefixes, suffixes, {}, {}, {})

MCNoText == Text("", TRUE, {""}, {""}, {}, {}, {})
Spaces == Text("  ", TRUE, {""}, {""}, {}, {}, {})
Berlin == Word("berlin", {"b", "berlin"}, {"berlin", "lin"})
Dublin == Word("dublin", {"dub", "dublin"}, {"dublin", "lin"})
Three == Text("3", FALSE, {"3"}, {"3"}, {3}, {}, {})
Five == Text("5", FALSE, {"5"}, {"5"}, {5}, {}, {})
NotANumber == Text("NaN", FALSE, {"NaN"}, {"NaN"}, {NaN}, {}, {})
Yes == Text("true", FALSE, {"true"}, {"true"}, {}, {TRUE}, {})
No == Text("false", FALSE, {"false"}, {"false"}, {}, {FALSE}, {})
May == Text("2024-05-01", FALSE, {"2024"}, {"01"}, {}, {}, {5})
June == Text("2024-06-01", FALSE, {"2024"}, {"01"}, {}, {}, {6})

\* list: the elements of a JSON list, if the value is one.
Constraint(type, property, operator, value, list) ==
    [type |-> type, property |-> property, operator |-> operator, value |-> value,
     list |-> list]

InBerlin == Constraint("string", "city", "eq", Berlin, {})
Paying == Constraint("boolean", "paid", "true", MCNoText, {})
Grown == Constraint("number", "age", "gte", Three, {})
Unknown == Constraint("unknown", "age", "eq", Three, {})

\* Every operator of every type, on values that can and cannot be read.
Lists(type) == CASE type = "number" -> {{3, 4}} [] OTHER -> {{"berlin", "e1"}}
MCTrial ==
    {Constraint(type, property, operator, value, list) :
        type \in {"string", "entityId"}, property \in {"city", "age"},
        operator \in Textual, value \in {Berlin, Word("lin", {}, {}), Word("b", {}, {})},
        list \in {{}, Lists("string")}}
    \cup {Constraint("number", property, operator, value, list) :
        property \in {"city", "age"}, operator \in Operators.number,
        value \in {Three, Berlin, NotANumber}, list \in {{}, Lists("number")}}
    \cup {Constraint("boolean", property, operator, MCNoText, {}) :
        property \in {"city", "paid"}, operator \in Operators.boolean}
    \cup {Constraint("datetime", property, operator, value, {}) :
        property \in {"city", "since"}, operator \in Operators.datetime \cup {"isoneof"},
        value \in {May, Five}}

Segment(match, constraints) == [match |-> match, constraints |-> constraints]

AllOfTwo == Segment("ALL", {InBerlin, Paying})
AnyOfTwo == Segment("ANY", {Paying, Grown})
Everyone == Segment("ANY", {})
Garbled == Segment("ALL", {Unknown})

Rule(rank, operator, segments, distributions) ==
    [rank |-> rank, operator |-> operator, segments |-> segments,
     distributions |-> distributions]

Share2(variant, rollout) == [variant |-> variant, rollout |-> rollout]

Threshold(rank, percentage, value) ==
    [type |-> "threshold", rank |-> rank, percentage |-> percentage, segments |-> {},
     operator |-> "OR", value |-> value]

SegmentRollout(rank, operator, segments, value) ==
    [type |-> "segment", rank |-> rank, percentage |-> 0, segments |-> segments,
     operator |-> operator, value |-> value]

\* A rollout with neither a threshold nor a segment.
Blank(rank) ==
    [type |-> "none", rank |-> rank, percentage |-> 0, segments |-> {},
     operator |-> "OR", value |-> FALSE]

VariantFlag(on, rules) ==
    [type |-> "variant", enabled |-> on, rules |-> rules, rollouts |-> <<>>]

BooleanFlag(on, rollouts) ==
    [type |-> "boolean", enabled |-> on, rules |-> <<>>, rollouts |-> rollouts]

TwoRules == VariantFlag(TRUE,
    << Rule(1, "AND", {AllOfTwo, AnyOfTwo}, <<Share2("a", 5000), Share2("b", 5000)>>),
       Rule(2, "OR", {AllOfTwo, AnyOfTwo}, <<Share2("z", 0), Share2("c", 2500)>>),
       Rule(3, "OR", {Everyone}, <<>>) >>)

Thirds == VariantFlag(TRUE,
    << Rule(1, "OR", {AnyOfTwo},
            <<Share2("a", 3333), Share2("z", 0), Share2("b", 3333), Share2("c", 3334)>>) >>)

\* Shares of more than a hundred percent.
Overfull == VariantFlag(TRUE,
    << Rule(1, "OR", {AllOfTwo, Everyone}, <<Share2("a", 6000), Share2("b", 6000)>>),
       Rule(2, "OR", {}, <<Share2("c", 10000)>>) >>)
\* A rule that needs all of no segments.
Unconditional == VariantFlag(TRUE,
    << Rule(1, "AND", {}, <<Share2("a", 3000)>>),
       Rule(2, "OR", {Everyone}, <<Share2("b", 10000)>>) >>)

Off == VariantFlag(FALSE, TwoRules.rules)
Damaged == VariantFlag(TRUE, << Rule(1, "OR", {Garbled, Everyone}, <<>>) >>)
Gone == [type |-> "none", enabled |-> FALSE, rules |-> <<>>, rollouts |-> <<>>]

Toggle == BooleanFlag(FALSE,
    << SegmentRollout(1, "AND", {AllOfTwo, AnyOfTwo}, FALSE),
       Threshold(2, 3000, TRUE),
       Blank(3),
       SegmentRollout(4, "OR", {AllOfTwo, AnyOfTwo}, TRUE) >>)

MCContent == {"two", "thirds", "off", "damaged", "gone", "toggle", "overfull",
              "unconditional"}
MCFlag == [two |-> TwoRules, thirds |-> Thirds, off |-> Off, damaged |-> Damaged,
           gone |-> Gone, toggle |-> Toggle, overfull |-> Overfull,
           unconditional |-> Unconditional]

Person(bucket, percentile, id, city, paid, age, since) ==
    [bucket |-> bucket, percentile |-> percentile, id |-> id,
     context |-> [city |-> city, paid |-> paid, age |-> age, since |-> since]]

E1 == Word("e1", {"e1"}, {"e1"})
E2 == Word("e2", {"e2"}, {"e2"})

MCEntity ==
    {Person(0, 30, E1, MCNoText, MCNoText, MCNoText, MCNoText),
     Person(499, 29, E2, Berlin, Yes, Spaces, May),
     Person(500, 30, E1, Berlin, Yes, MCNoText, June),
     Person(249, 99, E2, Dublin, No, Three, Five),
     Person(250, 0, E1, Spaces, Berlin, Five, Spaces),
     Person(999, 30, E2, Berlin, No, Berlin, MCNoText),
     Person(0, 99, E1, Dublin, No, NotANumber, MCNoText)}

=============================================================================
