------------------------------- MODULE MCUnifier -------------------------------
(* Small instances of Unifier for TLC.                                     *)
EXTENDS Unifier, TLC

CONSTANTS u1, u2, da, db, store, dest, n1, n2

\* written by the old createEvent: a legacy type, no subject
r1 == [id |-> 1, namespace |-> n1, type |-> "legacy", subject |-> "null", time |-> 15]
\* another event with the id of r1
r2 == [id |-> 1, namespace |-> n2, type |-> "absent", subject |-> "some", time |-> 20]
r3 == [id |-> 2, namespace |-> n2, type |-> "absent", subject |-> "empty", time |-> 27]
\* an event without the type that the unifier asks for
r4 == [id |-> 2, namespace |-> n2, type |-> "legacy", subject |-> "some", time |-> 30]

MCRows == {r1, r2, r3, r4}
\* the database da holds a copy of r3, an event of the domain db
MCSavedTo == [d \in Databases |->
  CASE d = da -> {r1, r3} [] d = db -> {r2, r3} [] d = store -> {r4} [] d = dest -> {r2}]
MCUndecodable == {r4}
MCNamespaceOf == [d \in Domains |-> IF d = da THEN n1 ELSE n2]
RunSymmetry == Permutations(Runs)
================================================================================
