----------------------------- MODULE MCSqlStore -----------------------------
(* The SQL store for TLC: in the default namespace a flag with a variant,   *)
(* two rules, one with a distribution, and a rollout of two segments, and a *)
(* bare flag; in another one a flag with a variant; the same segment key in *)
(* both.                                                                    *)
EXTENDS SqlStore

CONSTANTS n1, n2, f1, f2, k1, s1, s2, v1, v2, r1, r2, o1, d1, q1

Tables ==
    [namespaces |-> {n1, n2},
     flags |-> {[ns |-> x[1], key |-> x[2], enabled |-> TRUE] :
                  x \in {<<n1, f1>>, <<n1, f2>>, <<n2, f1>>}},
     variants |-> {[id |-> v1, ns |-> n1, flag |-> f1, key |-> k1],
                   [id |-> v2, ns |-> n2, flag |-> f1, key |-> k1]},
     segments |-> {[ns |-> n1, key |-> s1, match |-> "all"],
                   [ns |-> n1, key |-> s2, match |-> "all"],
                   [ns |-> n2, key |-> s1, match |-> "any"]},
     constraints |-> {[id |-> q1, ns |-> n2, segment |-> s1, value |-> "listed"]},
     rules |-> {[id |-> r1, ns |-> n1, flag |-> f1, rank |-> 1, operator |-> "OR"],
                [id |-> r2, ns |-> n1, flag |-> f1, rank |-> 2, operator |-> "OR"]},
     ruleSegments |-> {[rule |-> r1, ns |-> n1, segment |-> s1],
                       [rule |-> r2, ns |-> n1, segment |-> s2]},
     distributions |-> {[id |-> d1, rule |-> r1, variant |-> v1]},
     rollouts |-> {[id |-> o1, ns |-> n1, flag |-> f1, operator |-> "AND"]},
     rolloutSegments |-> {[rollout |-> o1, ns |-> n1, segment |-> s] : s \in {s1, s2}}]

=============================================================================
