-------------------------- MODULE UncachedAggregation --------------------------
(***************************************************************************)
(* What aggregate promises, without a cache: "Read events from the backing *)
(* store, producing a reduced result".  A call takes, at one moment, all   *)
(* the events its query selects, in the order of their time, and returns   *)
(* the aggregate made of them; it may also fail.  Meanwhile events are     *)
(* created and saved.                                                      *)
(***************************************************************************)
EXTENDS PgStore, Sequences

CONSTANTS Callers, Aggregators, QueryOf

VARIABLES created, time, pc, aggregator, acc

vars == <<events, created, time, pc, aggregator, acc>>

InCall == {"called", "read"}

Init ==
  /\ events = {}
  /\ created = {}
  /\ time \in [Events -> Int]
  /\ pc = [c \in Callers |-> "idle"]
  /\ aggregator \in [Callers -> Aggregators]
  /\ acc = [c \in Callers |-> <<>>]

CreateEvent(e) ==
  /\ e \notin created
  /\ created' = created \cup {e}
  /\ time' \in [Events -> Int]
  /\ \A f \in Events \ {e} : time'[f] = time[f]
  /\ UNCHANGED <<events, pc, aggregator, acc>>

Save(e) ==
  /\ e \in created
  /\ Insert(e)
  /\ UNCHANGED <<created, time, pc, aggregator, acc>>

Call(c, a) ==
  /\ pc[c] \notin InCall
  /\ pc' = [pc EXCEPT ![c] = "called"]
  /\ aggregator' = [aggregator EXCEPT ![c] = a]
  /\ acc' = [acc EXCEPT ![c] = <<>>]
  /\ UNCHANGED <<events, created, time>>

ReadAll(c) ==
  /\ pc[c] = "called"
  /\ \E rows \in Read(QueryOf[aggregator[c]], time, {}) :
       acc' = [acc EXCEPT ![c] = rows]
  /\ pc' = [pc EXCEPT ![c] = "read"]
  /\ UNCHANGED <<events, created, time, aggregator>>

Return(c) ==
  /\ pc[c] = "read"
  /\ pc' = [pc EXCEPT ![c] = "returned"]
  /\ UNCHANGED <<events, created, time, aggregator, acc>>

(* A call fails, at its start or later, and has no result.                 *)
Fail(c, a) ==
  /\ pc[c] \in InCall => a = aggregator[c]
  /\ pc' = [pc EXCEPT ![c] = "failed"]
  /\ aggregator' = [aggregator EXCEPT ![c] = a]
  /\ acc' = [acc EXCEPT ![c] = <<>>]
  /\ UNCHANGED <<events, created, time>>

Next ==
  \/ \E e \in Events : CreateEvent(e) \/ Save(e)
  \/ \E c \in Callers, a \in Aggregators : Call(c, a) \/ Fail(c, a)
  \/ \E c \in Callers : ReadAll(c) \/ Return(c)

Spec == Init /\ [][Next]_vars
================================================================================
