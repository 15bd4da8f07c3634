-------------------------------- MODULE Delivery --------------------------------
(***************************************************************************)
(* Store::save and Store::emit on one side, AmqpEmitterAdapter::subscribe  *)
(* on the other: an event is inserted, then emitted; each subscription     *)
(* binds its queue, consumes from it in a task of its own and acks what    *)
(* its handler has handled.  Processes crash and restart, connections      *)
(* break, the database and the broker fail.                                *)
(***************************************************************************)
EXTENDS PgStore, Amqp

CONSTANTS
  NameOf,      \* NameOf[e] is the event name e is emitted under
  Garbled,     \* the events whose payload does not parse as a subscriber's ED
  MaxSends,    \* bound on the number of emits
  MaxFaults    \* bound on the number of crashes and broken connections

ASSUME DeliveryAssumption ==
  /\ NameOf \in [Events -> Names]
  /\ Garbled \subseteq Events
  /\ MaxSends \in Nat
  /\ MaxFaults \in Nat
  /\ Publishers \cap Subscribers = {}

VARIABLES
  task,      \* task[p]: "idle", "emit" (inserted, emit to come) or "down"
  job,       \* job[p]: the event of the last call
  reply,     \* reply[p]: what the last call of save or emit came to
  loop,      \* loop[s]: where the subscription stands
  inbox,     \* inbox[s]: the stream of the consumer, not yet acked or refused
  handled,   \* history: handled[q], messages a handler returned Ok for
  refused,   \* history: refused[q], messages that failed in a consumer of q
  from,      \* history: from[q] = {n} when subscribe first returned after message n
  sends,     \* number of emits so far
  faults     \* number of faults so far

publishing == <<task, job, reply, sends>>
subscribing == <<loop, inbox, handled, refused, from>>
vars == <<events, amqp, publishing, subscribing, faults>>

Init ==
  /\ events = {}
  /\ AmqpInit
  /\ task = [p \in Publishers |-> "idle"]
  /\ job \in [Publishers -> Events]
  /\ reply = [p \in Publishers |-> "none"]
  /\ loop = [s \in Subscribers |-> "off"]
  /\ inbox = [s \in Subscribers |-> <<>>]
  /\ handled = [q \in Queues |-> {}]
  /\ refused = [q \in Queues |-> {}]
  /\ from = [q \in Queues |-> {}]
  /\ sends = 0
  /\ faults = 0
--------------------------------------------------------------------------------
(***************************************************************************)
(* Store::save.  `self.store.save(&event)?` goes on both when the row is   *)
(* new and when it is a Duplicate.                                         *)
(***************************************************************************)
\* Mutant: the emit is spawned, and save returns without it.
SaveSpawnsEmit(p, e) ==
  /\ task[p] = "idle"
  /\ Insert(e)
  /\ task' = [task EXCEPT ![p] = "emit"]
  /\ job' = [job EXCEPT ![p] = e]
  /\ reply' = [reply EXCEPT ![p] = "Ok"]
  /\ UNCHANGED <<amqp, subscribing, sends, faults>>

SaveInserts(p, e) ==
  /\ task[p] = "idle"
  /\ Insert(e)
  /\ task' = [task EXCEPT ![p] = "emit"]
  /\ job' = [job EXCEPT ![p] = e]
  /\ reply' = [reply EXCEPT ![p] = "none"]
  /\ UNCHANGED <<amqp, subscribing, sends, faults>>

\* Mutant: the result of the insert is not looked at.
SaveGoesOn(p, e) ==
  /\ task[p] = "idle"
  /\ task' = [task EXCEPT ![p] = "emit"]
  /\ job' = [job EXCEPT ![p] = e]
  /\ reply' = [reply EXCEPT ![p] = "none"]
  /\ UNCHANGED <<events, amqp, subscribing, sends, faults>>

(* The database refuses the insert: save returns the error, emits nothing. *)
SaveRefused(p, e) ==
  /\ task[p] = "idle"
  /\ job' = [job EXCEPT ![p] = e]
  /\ reply' = [reply EXCEPT ![p] = "Err"]
  /\ UNCHANGED <<events, amqp, subscribing, task, sends, faults>>

(* The connection to the database breaks, and the error has no SQL code to *)
(* unwrap, or the pool has no connection to give: the call panics.  The    *)
(* insert may have been committed before.                                  *)
SavePanics(p, e) ==
  /\ task[p] = "idle"
  /\ Insert(e) \/ UNCHANGED events
  /\ job' = [job EXCEPT ![p] = e]
  /\ reply' = [reply EXCEPT ![p] = "panic"]
  /\ UNCHANGED <<amqp, subscribing, task, sends, faults>>

(* AmqpEmitterAdapter::emit; there is no wait for a publisher confirm, and *)
(* a channel that has closed is not opened again.                          *)
Send(p, e, by) ==
  /\ p \in open
  /\ sends < MaxSends
  /\ sends' = sends + 1
  /\ Publish(p, [event |-> e, name |-> NameOf[e], by |-> by])

Emit(p) ==
  /\ task[p] = "emit"
  /\ Send(p, job[p], "save")
  /\ task' = [task EXCEPT ![p] = "idle"]
  /\ reply' = [reply EXCEPT ![p] = "Ok"]
  /\ UNCHANGED <<events, open, published, bound, ready, unacked, acks,
                 lost, job, subscribing, faults>>

EmitFails(p) ==
  /\ task[p] = "emit"
  /\ p \notin open
  /\ task' = [task EXCEPT ![p] = "idle"]
  /\ reply' = [reply EXCEPT ![p] = "Err"]
  /\ UNCHANGED <<events, amqp, job, subscribing, sends, faults>>

(* Store::emit: the event goes out, stored or not.                         *)
EmitOnly(p, e) ==
  /\ task[p] = "idle"
  /\ Send(p, e, "emit")
  /\ job' = [job EXCEPT ![p] = e]
  /\ reply' = [reply EXCEPT ![p] = "emitted"]
  /\ UNCHANGED <<events, open, published, bound, ready, unacked, acks,
                 lost, task, subscribing, faults>>

EmitOnlyFails(p, e) ==
  /\ task[p] = "idle"
  /\ p \notin open
  /\ job' = [job EXCEPT ![p] = e]
  /\ reply' = [reply EXCEPT ![p] = "Err"]
  /\ UNCHANGED <<events, amqp, task, subscribing, sends, faults>>

(* The process of p stops at any point of a call, and starts again with a  *)
(* new emitter and its new connection.                                     *)
PublisherCrash(p) ==
  /\ task[p] # "down"
  /\ Disconnect(p)
  /\ task' = [task EXCEPT ![p] = "down"]
  /\ reply' = [reply EXCEPT ![p] = "none"]
  /\ faults < MaxFaults
  /\ faults' = faults + 1
  /\ UNCHANGED <<events, job, subscribing, sends>>

PublisherStart(p) ==
  /\ task[p] = "down"
  /\ task' = [task EXCEPT ![p] = "idle"]
  /\ open' = open \cup {p}
  /\ UNCHANGED <<events, wire, published, bound, ready, unacked, acks,
                 lost, job, reply, subscribing, sends, faults>>
--------------------------------------------------------------------------------
(***************************************************************************)
(* AmqpEmitterAdapter::subscribe: connect, declare and bind the queue,     *)
(* register the consumer and spawn the loop.                               *)
(***************************************************************************)
SubscribeConnects(s) ==
  /\ loop[s] = "off"
  /\ loop' = [loop EXCEPT ![s] = "connected"]
  /\ open' = open \cup {s}
  /\ UNCHANGED <<events, wire, published, bound, ready, unacked, acks,
                 lost, publishing, inbox, handled, refused, from, faults>>

BindQueue(s) ==
  /\ loop[s] = "connected"
  /\ s \in open
  /\ loop' = [loop EXCEPT ![s] = "bound"]
  /\ bound' = bound \cup {QueueOf[s]}
  /\ UNCHANGED <<events, open, wire, published, ready, unacked, acks,
                 lost, publishing, inbox, handled, refused, from, faults>>

Consume(s) ==
  /\ loop[s] = "bound"
  /\ s \in open
  /\ loop' = [loop EXCEPT ![s] = "consuming"]
  /\ from' = [from EXCEPT ![QueueOf[s]] = IF @ = {} THEN {Len(published)} ELSE @]
  /\ UNCHANGED <<events, amqp, publishing, inbox, handled, refused, faults>>

\* Mutant: the consumer is registered with a prefetch of one message.
DeliverOne(s) ==
  /\ loop[s] \in {"consuming", "acking", "dead"}
  /\ unacked[s] = {}
  /\ \E n \in ready[QueueOf[s]] :
       /\ Push(s, n)
       /\ inbox' = [inbox EXCEPT ![s] = Append(@, n)]
  /\ UNCHANGED <<events, publishing, loop, handled, refused, from, faults>>

(* The broker pushes to a registered consumer whether or not its loop      *)
(* still runs.                                                             *)
Deliver(s) ==
  /\ loop[s] \in {"consuming", "acking", "dead"}
  /\ \E n \in ready[QueueOf[s]] :
       /\ Push(s, n)
       /\ inbox' = [inbox EXCEPT ![s] = Append(@, n)]
  /\ UNCHANGED <<events, publishing, loop, handled, refused, from, faults>>

Taken(s) == loop[s] = "consuming" /\ inbox[s] # <<>>

Parses(n) == published[n].event \notin Garbled

(* ED::handle_event returns Ok; the loop goes on to ack the message.       *)
HandleOk(s) ==
  LET q == QueueOf[s]
      n == Head(inbox[s])
  IN  /\ Taken(s)
      /\ Parses(n)
      /\ handled' = [handled EXCEPT ![q] = @ \cup {n}]
      /\ loop' = [loop EXCEPT ![s] = "acking"]
      /\ UNCHANGED <<events, amqp, publishing, inbox, refused, from, faults>>

\* Mutant: basic_ack(delivery_tag, true).
AckUpTo(s) ==
  /\ loop[s] = "acking"
  /\ s \in open
  /\ BasicAck(s, Head(inbox[s]), TRUE)
  /\ inbox' = [inbox EXCEPT ![s] = Tail(@)]
  /\ loop' = [loop EXCEPT ![s] = "consuming"]
  /\ UNCHANGED <<events, open, wire, published, bound, ready, unacked,
                 lost, publishing, handled, refused, from, faults>>

Ack(s) ==
  /\ loop[s] = "acking"
  /\ s \in open
  /\ BasicAck(s, Head(inbox[s]), FALSE)
  /\ inbox' = [inbox EXCEPT ![s] = Tail(@)]
  /\ loop' = [loop EXCEPT ![s] = "consuming"]
  /\ UNCHANGED <<events, open, wire, published, bound, ready, unacked,
                 lost, publishing, handled, refused, from, faults>>

\* Mutant: the ack is sent whatever the handler returned.
RefuseWithAck(s) ==
  /\ Taken(s)
  /\ BasicAck(s, Head(inbox[s]), FALSE)
  /\ refused' = [refused EXCEPT ![QueueOf[s]] = @ \cup {Head(inbox[s])}]
  /\ inbox' = [inbox EXCEPT ![s] = Tail(@)]
  /\ UNCHANGED <<events, open, wire, published, bound, ready, unacked,
                 lost, publishing, loop, handled, from, faults>>

(* The handler returns Err, or the payload does not parse: a line in the   *)
(* log, and the loop takes the next message without an ack.                *)
Refuse(s) ==
  /\ Taken(s)
  /\ refused' = [refused EXCEPT ![QueueOf[s]] = @ \cup {Head(inbox[s])}]
  /\ inbox' = [inbox EXCEPT ![s] = Tail(@)]
  /\ UNCHANGED <<events, amqp, publishing, loop, handled, from, faults>>

HandleErr(s) == Taken(s) /\ Parses(Head(inbox[s])) /\ Refuse(s)

Unparseable(s) == Taken(s) /\ ~ Parses(Head(inbox[s])) /\ Refuse(s)

(* The loop ends and nothing starts it again: the handler panics (its      *)
(* connection may well stay open), the ack cannot be sent ("Could not ack  *)
(* message"), or the stream of a broken connection ends.                   *)
LoopDies(s) ==
  /\ loop' = [loop EXCEPT ![s] = "dead"]
  /\ inbox' = [inbox EXCEPT ![s] = <<>>]
  /\ UNCHANGED <<events, amqp, publishing, handled, refused, from, faults>>

HandlerPanics(s) == Taken(s) /\ Parses(Head(inbox[s])) /\ LoopDies(s)

AckFails(s) == loop[s] = "acking" /\ s \notin open /\ LoopDies(s)

StreamEnds(s) == loop[s] = "consuming" /\ s \notin open /\ LoopDies(s)

(* The call of subscribe fails half-way, or the process stops at any       *)
(* point, and it subscribes again, with a new connection.                  *)
Resubscribe(s) ==
  /\ loop[s] # "off"
  /\ Disconnect(s)
  /\ loop' = [loop EXCEPT ![s] = "off"]
  /\ inbox' = [inbox EXCEPT ![s] = <<>>]
  /\ faults < MaxFaults
  /\ faults' = faults + 1
  /\ UNCHANGED <<events, publishing, handled, refused, from>>
--------------------------------------------------------------------------------
ConnectionBreaks(x) ==
  /\ x \in open
  /\ Disconnect(x)
  /\ faults < MaxFaults
  /\ faults' = faults + 1
  /\ UNCHANGED <<events, publishing, subscribing>>

BrokerRestart ==
  /\ BrokerRestarts
  /\ faults < MaxFaults
  /\ faults' = faults + 1
  /\ UNCHANGED <<events, publishing, subscribing>>

(* What the broker does of its own accord.                                 *)
BrokerStep ==
  \/ \E p \in Publishers : BrokerTakes(p)
  \/ \E s \in Subscribers : BrokerAcked(s)

Broker == BrokerStep /\ UNCHANGED <<events, publishing, subscribing, faults>>

Handle(s) == HandleOk(s) \/ HandleErr(s) \/ Unparseable(s) \/ HandlerPanics(s)

Next ==
  \/ \E p \in Publishers, e \in Events :
       \/ SaveInserts(p, e) \/ SaveRefused(p, e) \/ SavePanics(p, e)
       \/ EmitOnly(p, e) \/ EmitOnlyFails(p, e)
  \/ \E p \in Publishers :
       Emit(p) \/ EmitFails(p) \/ PublisherCrash(p) \/ PublisherStart(p)
  \/ \E s \in Subscribers :
       \/ SubscribeConnects(s) \/ BindQueue(s) \/ Consume(s) \/ Deliver(s)
       \/ Handle(s) \/ Ack(s) \/ AckFails(s) \/ StreamEnds(s) \/ Resubscribe(s)
  \/ \E x \in Publishers \cup Subscribers : ConnectionBreaks(x)
  \/ BrokerRestart
  \/ Broker

Spec == Init /\ [][Next]_vars

(* The broker pushes what is ready, and the executor polls the loop as     *)
(* long as there is something to do, the end of a broken stream included.  *)
(* Nobody promises that a call of save, a subscription or a restart comes. *)
FairSpec ==
  /\ Spec
  /\ \A s \in Subscribers :
       /\ WF_vars(Deliver(s))
       /\ WF_vars(Handle(s))
       /\ WF_vars(Ack(s) \/ AckFails(s))
       /\ WF_vars(StreamEnds(s))
--------------------------------------------------------------------------------
(* The variables have their types, and no UUID has two rows; in particular *)
(* the broker, the streams and the histories only name messages that were  *)
(* published, and only delivered messages are acked (amqp.rs, pg.rs).      *)
Message == [event : Events, name : Names, by : {"save", "emit"}]

StoreTypeOK == events \subseteq Events /\ UniqueIds

BrokerTypeOK ==
  /\ open \subseteq Publishers \cup Subscribers
  /\ bound \subseteq Queues
  /\ wire \in [Publishers -> Seq(Message)]
  /\ published \in Seq(Message)
  /\ ready \in [Queues -> SUBSET DOMAIN published]
  /\ lost \in [Queues -> SUBSET DOMAIN published]
  /\ unacked \in [Subscribers -> SUBSET DOMAIN published]
  /\ acks \in [Subscribers -> SUBSET DOMAIN published]
  /\ \A s \in Subscribers : acks[s] \subseteq unacked[s]

PublishersTypeOK ==
  /\ task \in [Publishers -> {"idle", "emit", "down"}]
  /\ job \in [Publishers -> Events]
  /\ reply \in [Publishers -> {"none", "Ok", "Err", "panic", "emitted"}]
  /\ sends \in 0 .. MaxSends

SubscribersTypeOK ==
  /\ loop \in [Subscribers ->
                {"off", "connected", "bound", "consuming", "acking", "dead"}]
  /\ inbox \in [Subscribers -> Seq(DOMAIN published)]
  /\ \A s \in Subscribers : loop[s] = "acking" => inbox[s] # <<>>
  /\ handled \in [Queues -> SUBSET DOMAIN published]
  /\ refused \in [Queues -> SUBSET DOMAIN published]
  /\ from \in [Queues -> SUBSET Nat]

TypeOK ==
  /\ StoreTypeOK
  /\ BrokerTypeOK
  /\ PublishersTypeOK
  /\ SubscribersTypeOK
  /\ faults \in 0 .. MaxFaults

(* A subscriber never sees a saved event whose id is not in the store: the *)
(* insert comes before the emit (Store::save), and an insert that failed   *)
(* emits nothing.  A handler may therefore aggregate over what it was told.*)
SeenIsStored ==
  \A q \in Queues : \A n \in handled[q] \cup refused[q] :
    published[n].by = "save" => HasId(published[n].event)

(* From the moment subscribe has returned, every event of its name is      *)
(* handled, or still waits in the queue or at a consumer, whatever crashes *)
(* and whoever else consumes: "If the handler for an event fails, the event*)
(* on the queue will not be acked" (amqp.rs).  Only a restart of the broker*)
(* loses messages.                                                         *)
NoSilentLoss ==
  \A q \in Queues : \A k \in from[q] : \A n \in (k + 1) .. Len(published) :
    published[n].name = BoundTo[q] =>
      n \in ready[q] \cup UnackedOn(q) \cup handled[q] \cup lost[q]

(* Saving and subscribing keep the promise of AtLeastOnce: rows before     *)
(* announcements, a queue is owed what was announced since it was bound,   *)
(* and until a handler of the service returned Ok (store.rs, amqp.rs).     *)
Promise == INSTANCE AtLeastOnce WITH
  stored <- events,
  announced <- published,
  owed <- [q \in Queues |-> ready[q] \cup UnackedOn(q)]

DeliversAtLeastOnce == Promise!Spec

(* A message that waits in a queue is eventually handled, refused or lost, *)
(* unless it is stuck with a consumer whose loop has died on an open       *)
(* connection, or nobody consumes from the queue: one bad message does not *)
(* keep the ones behind it from being handled (amqp.rs, the loop).         *)
Settled(q, n) == n \in handled[q] \cup refused[q] \cup lost[q]

Stranded(q, n) ==
  \E s \in Consumers(q) : loop[s] = "dead" /\ n \in unacked[s]

Unattended(q) == \A s \in Consumers(q) : loop[s] \notin {"consuming", "acking"}

EventuallySettled ==
  \A q \in Queues, n \in 1 .. MaxSends :
    n \in ready[q] ~> Settled(q, n) \/ Stranded(q, n) \/ Unattended(q)

(* When save has returned Ok the event has been emitted: it is on its way  *)
(* to the broker or there ("Save an event and emit it to other             *)
(* subscribers", store.rs).                                                *)
SavedAs(message, e) == message.event = e /\ message.by = "save"

Emitted(p) ==
  \/ \E i \in DOMAIN wire[p] : SavedAs(wire[p][i], job[p])
  \/ \E n \in DOMAIN published : SavedAs(published[n], job[p])

OkMeansEmitted == \A p \in Publishers : reply[p] = "Ok" => Emitted(p)

(* What Ok does mean: the event is stored, and it is on its way or at the  *)
(* broker as long as the connection of the publisher has not broken        *)
(* (Store::save awaits both the insert and the emit).                      *)
OkUnlessBroken ==
  \A p \in Publishers : reply[p] = "Ok" =>
    HasId(job[p]) /\ (p \in open => Emitted(p))
================================================================================
