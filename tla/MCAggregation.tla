----------------------------- MODULE MCAggregation -----------------------------
(* Small instances of Aggregation for TLC.                                 *)
EXTENDS Aggregation, TLC

CONSTANTS e1, e2, c1, c2, a1, a2, q1

MCIdOf == [e \in Events |-> e]
MCSelectAll == [q \in Queries |-> Events]
MCOneQuery == [a \in Aggregators |-> q1]
MCUniqueId == [q \in Queries |-> q]
MCDecodesOwn == [a \in Aggregators |-> {a}]
MCDecodesAny == [a \in Aggregators |-> Aggregators]
MCVariantsAll == [a \in Aggregators |-> Events]
\* the Events enum of a2 has no variant for e2
MCVariants == [a \in Aggregators |-> IF a = a2 THEN Events \ {e2} ELSE Events]

MCSkewsBehind == {-1, 0}
MCSkewsNone == {0}

CallerSymmetry == Permutations(Callers)
================================================================================
