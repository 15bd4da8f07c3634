------------------------------- MODULE MCDelivery -------------------------------
(* Small instances of Delivery for TLC.                                    *)
EXTENDS Delivery, TLC

CONSTANTS e1, e2, p1, s1, s2, q1, n1

MCIdOf == [e \in Events |-> e]
\* both events carry the id of e1
MCSameId == [e \in Events |-> e1]
MCSelects == [q \in {} |-> {}]
MCOneQueue == [s \in Subscribers |-> q1]
MCBoundSame == [q \in Queues |-> n1]
MCNameSame == [e \in Events |-> n1]

SubscriberSymmetry == Permutations(Subscribers)
================================================================================
