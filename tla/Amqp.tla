---------------------------------- MODULE Amqp ----------------------------------
(***************************************************************************)
(* RabbitMQ and the connections to it, as the emitter adapter uses them:   *)
(* a durable topic exchange, durable queues bound to one event name each,  *)
(* publishing without confirms, consuming with explicit acks.  The broker  *)
(* and the client library are not part of the repository.                  *)
(*                                                                         *)
(* Messages are numbered in the order in which the broker takes them; the  *)
(* log of all of them is kept, and queues hold numbers.                    *)
(***************************************************************************)
EXTENDS Integers, Sequences

CONSTANTS
  Publishers,   \* the processes that own an emitter, each with its connection
  Subscribers,  \* the calls of subscribe, each with a connection of its own
  Queues,       \* the names "<store namespace>-<event namespace>.<event type>"
  QueueOf,      \* QueueOf[s] is the queue_name of the subscription s
  Names,        \* the names "<event namespace>.<event type>"
  BoundTo       \* BoundTo[q] is the event name q is bound to

ASSUME AmqpAssumption ==
  /\ QueueOf \in [Subscribers -> Queues]
  /\ BoundTo \in [Queues -> Names]

VARIABLES
  open,        \* whose connection is open
  wire,        \* wire[p]: messages the channel of p took, the broker did not yet
  published,   \* the log of the messages the broker took
  bound,       \* the queues that are declared and bound
  ready,       \* ready[q]: the messages waiting in q
  unacked,     \* unacked[s]: the messages delivered to s and not acked
  acks,        \* acks[s]: the acks s has sent and the broker not received
  lost         \* history: lost[q], gone with a restart of the broker

amqp == <<open, wire, published, bound, ready, unacked, acks, lost>>

AmqpInit ==
  /\ open = Publishers
  /\ wire = [p \in Publishers |-> <<>>]
  /\ published = <<>>
  /\ bound = {}
  /\ ready = [q \in Queues |-> {}]
  /\ unacked = [s \in Subscribers |-> {}]
  /\ acks = [s \in Subscribers |-> {}]
  /\ lost = [q \in Queues |-> {}]

Consumers(q) == {s \in Subscribers : QueueOf[s] = q}

UnackedOn(q) == UNION {unacked[s] : s \in Consumers(q)}

(* basic_publish: the future resolves when the channel has the message.    *)
Publish(p, message) == wire' = [wire EXCEPT ![p] = Append(@, message)]

(* The broker takes the next message of p and routes it to the queues that *)
(* are bound to its name at this moment; bound to none, it is dropped.     *)
BrokerTakes(p) ==
  /\ p \in open
  /\ wire[p] # <<>>
  /\ LET message == Head(wire[p])
     IN  /\ published' = Append(published, message)
         /\ ready' = [q \in Queues |->
                        IF q \in bound /\ BoundTo[q] = message.name
                        THEN ready[q] \cup {Len(published) + 1}
                        ELSE ready[q]]
  /\ wire' = [wire EXCEPT ![p] = Tail(@)]
  /\ UNCHANGED <<open, bound, unacked, acks, lost>>

(* The broker pushes the oldest waiting message, without a prefetch limit. *)
Oldest(S) == {n \in S : \A m \in S : n =< m}

Push(s, n) ==
  /\ s \in open
  /\ n \in Oldest(ready[QueueOf[s]])
  /\ ready' = [ready EXCEPT ![QueueOf[s]] = @ \ {n}]
  /\ unacked' = [unacked EXCEPT ![s] = @ \cup {n}]
  /\ UNCHANGED <<open, wire, published, bound, acks, lost>>

(* basic_ack(delivery_tag, multiple): the acks of the message n, or of     *)
(* every message up to n.  The future resolves when they are sent.         *)
BasicAck(s, n, multiple) ==
  acks' = [acks EXCEPT ![s] =
             @ \cup {m \in unacked[s] : m = n \/ (multiple /\ m =< n)}]

BrokerAcked(s) ==
  /\ s \in open
  /\ \E n \in acks[s] :
       /\ unacked' = [unacked EXCEPT ![s] = @ \ {n}]
       /\ acks' = [acks EXCEPT ![s] = @ \ {n}]
  /\ UNCHANGED <<open, wire, published, bound, ready, lost>>

(* A connection goes away: what its channel had not sent is gone, what it  *)
(* had not acked goes back to the queue.                                   *)
Disconnect(x) ==
  /\ open' = open \ {x}
  /\ IF x \in Publishers
     THEN /\ wire' = [wire EXCEPT ![x] = <<>>]
          /\ UNCHANGED <<ready, unacked, acks>>
     ELSE /\ ready' = [ready EXCEPT ![QueueOf[x]] = @ \cup unacked[x]]
          /\ unacked' = [unacked EXCEPT ![x] = {}]
          /\ acks' = [acks EXCEPT ![x] = {}]
          /\ UNCHANGED wire
  /\ UNCHANGED <<published, bound, lost>>

(* The broker restarts: durable queues and their bindings survive.  The    *)
(* messages do not, for they are published with default properties, that   *)
(* is, not as persistent.                                                  *)
BrokerRestarts ==
  /\ open' = {}
  /\ wire' = [p \in Publishers |-> <<>>]
  /\ ready' = [q \in Queues |-> {}]
  /\ lost' = [q \in Queues |-> lost[q] \cup ready[q] \cup UnackedOn(q)]
  /\ unacked' = [s \in Subscribers |-> {}]
  /\ acks' = [s \in Subscribers |-> {}]
  /\ UNCHANGED <<published, bound>>

================================================================================
