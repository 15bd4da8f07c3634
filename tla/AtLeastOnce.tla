------------------------------ MODULE AtLeastOnce ------------------------------
(***************************************************************************)
(* What saving, emitting and subscribing promise together, without the     *)
(* processes, connections and streams in between.  An event is announced   *)
(* as saved only when a row has its id.  A queue owes its service every    *)
(* message announced under its name since it was bound, and goes on owing  *)
(* a message until a handler of the service has handled it: "If the        *)
(* handler for an event fails, the event on the queue will not be acked".  *)
(* A restart of the broker is the one thing that cancels what is owed.     *)
(***************************************************************************)
EXTENDS Integers, Sequences

CONSTANTS
  Events,    \* the Event values
  IdOf,      \* IdOf[e]: the UUID of e
  Queues,    \* one queue for each service and event name
  BoundTo,   \* BoundTo[q]: the event name of q
  NameOf     \* NameOf[e]: the event name of e

VARIABLES
  stored,    \* the rows
  announced, \* the messages, in the order in which they were announced
  bound,     \* the queues that are bound
  owed,      \* owed[q]: the messages that q has still to see handled
  handled,   \* handled[q]: those that a handler has handled, some more than once
  lost       \* lost[q]: those that were cancelled

vars == <<stored, announced, bound, owed, handled, lost>>

Messages == [event : Events, name : {NameOf[e] : e \in Events}, by : {"save", "emit"}]

IsStored(e) == \E row \in stored : IdOf[row] = IdOf[e]

Init ==
  /\ stored = {}
  /\ announced = <<>>
  /\ bound = {}
  /\ owed = [q \in Queues |-> {}]
  /\ handled = [q \in Queues |-> {}]
  /\ lost = [q \in Queues |-> {}]

Store(e) ==
  /\ ~ IsStored(e)
  /\ stored' = stored \cup {e}
  /\ UNCHANGED <<announced, bound, owed, handled, lost>>

Bind(q) ==
  /\ bound' = bound \cup {q}
  /\ UNCHANGED <<stored, announced, owed, handled, lost>>

Announce(m) ==
  /\ m.name = NameOf[m.event]
  /\ m.by = "save" => IsStored(m.event)
  /\ announced' = Append(announced, m)
  /\ owed' = [q \in Queues |->
                IF q \in bound /\ BoundTo[q] = m.name
                THEN owed[q] \cup {Len(announced) + 1}
                ELSE owed[q]]
  /\ UNCHANGED <<stored, bound, handled, lost>>

(* A message may be handled again, even when it is settled or cancelled: a *)
(* copy of it may still be in the hands of a consumer.                     *)
Handle(q, n) ==
  /\ n \in owed[q] \cup handled[q] \cup lost[q]
  /\ handled' = [handled EXCEPT ![q] = @ \cup {n}]
  /\ UNCHANGED <<stored, announced, bound, owed, lost>>

Settle(q, n) ==
  /\ n \in owed[q] \cap handled[q]
  /\ owed' = [owed EXCEPT ![q] = @ \ {n}]
  /\ UNCHANGED <<stored, announced, bound, handled, lost>>

Cancel ==
  /\ lost' = [q \in Queues |-> lost[q] \cup owed[q]]
  /\ owed' = [q \in Queues |-> {}]
  /\ UNCHANGED <<stored, announced, bound, handled>>

Next ==
  \/ \E e \in Events : Store(e)
  \/ \E m \in Messages : Announce(m)
  \/ \E q \in Queues : Bind(q)
  \/ \E q \in Queues, n \in DOMAIN announced : Handle(q, n) \/ Settle(q, n)
  \/ Cancel

Spec == Init /\ [][Next]_vars
================================================================================
