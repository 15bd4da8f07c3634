------------------------------ MODULE MCQuietUse ------------------------------
(* Small instances of QuietUse for TLC.                                    *)
EXTENDS QuietUse, TLC

CONSTANTS e1, e2, e3, c1, c2, a1, a2, a3, q1, q2

MCIdOf == [e \in Events |-> e]
\* q2 leaves e1 out
MCSelects == [q \in Queries |-> IF q = q2 THEN Events \ {e1} ELSE Events]
MCQueryOf == [a \in Aggregators |-> IF a = a1 THEN q1 ELSE q2]
MCUniqueId == [q \in Queries |-> q]
\* the JSON of a1 and that of a2 have one shape
MCDecodesAlike == [a \in Aggregators |-> IF a = a3 THEN {a3} ELSE Aggregators \ {a3}]
MCVariantsAll == [a \in Aggregators |-> Events]
\* the Events enum of a3 has no variant for e3
MCVariants == [a \in Aggregators |-> IF a = a3 THEN Events \ {e3} ELSE Events]
MCSkewsNone == {0}
MCSkewsAhead == {1}

CallerSymmetry == Permutations(Callers)
================================================================================
