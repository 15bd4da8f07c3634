------------------------------- MODULE MCService -------------------------------
(* Small instances of Service for TLC.                                     *)
EXTENDS Service

CONSTANTS e1, c1, a1, k1, q1, n1, p1, s1

MCIdOf == [e \in Events |-> e]
MCSelects == [q \in Queries |-> Events]
MCDecodes == [a \in Aggregators |-> {a}]
MCQueryOf == [a \in Aggregators |-> k1]
MCUniqueId == [q \in Queries |-> q]
MCVariants == [a \in Aggregators |-> Events]
MCQueueOf == [s \in Subscribers |-> q1]
MCBoundTo == [q \in Queues |-> n1]
MCSkewsBehind == {-1, 0}
MCNameOf == [e \in Events |-> n1]
MCSavesBy == [c \in Callers |-> Publishers]
MCWatches == [c \in Callers |-> Queues]
================================================================================
