-------------------------------- MODULE Service --------------------------------
(***************************************************************************)
(* SubscribableStore: services that save, subscribe and aggregate over one *)
(* database and one broker.  Each of its methods passes its call on, so a  *)
(* step is one of Aggregation or one of Delivery.  They meet in the table  *)
(* `events`, and in the order in which a service uses them: it aggregates  *)
(* because it has been told of an event, or because it has saved one.      *)
(***************************************************************************)
EXTENDS Integers, Sequences

CONSTANTS
  Events, Ids, IdOf, Queries, Selects,                        \* PgStore
  Keys, Aggregators, Decodes,                                 \* PgCache
  Callers, QueryOf, UniqueId, Variants, Skews, MaxClock,      \* Aggregation
  Publishers, Subscribers, Queues, QueueOf, Names, BoundTo,   \* Amqp
  NameOf, Garbled, MaxSends, MaxFaults,                       \* Delivery
  SavesBy,   \* SavesBy[c]: the publishers of the service of the caller c
  Watches    \* Watches[c]: the queues of that service

ASSUME ServiceAssumption ==
  /\ SavesBy \in [Callers -> SUBSET Publishers]
  /\ Watches \in [Callers -> SUBSET Queues]

VARIABLES
  events,
  aggregate_cache, clock, created, time, pc, aggregator, acc, since, stamp, behind,
  late,
  open, wire, published, bound, ready, unacked, acks, lost,
  task, job, reply, sends, loop, inbox, handled, refused, from, faults,
  knows      \* history: knows[c], what c's service knew of when its call began

aggregating == <<aggregate_cache, clock, created, time, pc, aggregator, acc,
                 since, stamp, behind, late>>
delivering == <<open, wire, published, bound, ready, unacked, acks, lost,
                task, job, reply, sends, loop, inbox, handled, refused, from,
                faults>>
vars == <<events, aggregating, delivering, knows>>

A == INSTANCE Aggregation
D == INSTANCE Delivery

Init ==
  /\ A!Init
  /\ D!Init
  /\ knows = [c \in Callers |-> {}]
--------------------------------------------------------------------------------
CreateEvent(e) == A!CreateEvent(e) /\ UNCHANGED <<delivering, knows>>

(* SubscribableStore::save and Store::emit, of an event that has been      *)
(* built.  The insert of Delivery is the insert of Aggregation.            *)
SaveInserts(p, e) ==
  /\ D!SaveInserts(p, e)
  /\ A!Save(e)
  /\ UNCHANGED knows

SavePanics(p, e) ==
  /\ e \in created
  /\ A!Save(e) \/ UNCHANGED <<events, aggregating>>
  /\ D!SavePanics(p, e)
  /\ UNCHANGED knows

SaveRefused(p, e) ==
  /\ e \in created
  /\ D!SaveRefused(p, e)
  /\ UNCHANGED <<aggregating, knows>>

EmitOnly(p, e) ==
  /\ e \in created
  /\ D!EmitOnly(p, e)
  /\ UNCHANGED <<aggregating, knows>>

EmitOnlyFails(p, e) ==
  /\ e \in created
  /\ D!EmitOnlyFails(p, e)
  /\ UNCHANGED <<aggregating, knows>>

(* The rest of save, subscribe with its loop, the broker and the faults.   *)
Goes ==
  \/ \E p \in Publishers :
       D!Emit(p) \/ D!EmitFails(p) \/ D!PublisherCrash(p) \/ D!PublisherStart(p)
  \/ \E s \in Subscribers :
       \/ D!SubscribeConnects(s) \/ D!BindQueue(s) \/ D!Consume(s) \/ D!Deliver(s)
       \/ D!Handle(s) \/ D!Ack(s) \/ D!AckFails(s) \/ D!StreamEnds(s)
       \/ D!Resubscribe(s)
  \/ \E x \in Publishers \cup Subscribers : D!ConnectionBreaks(x)
  \/ D!BrokerRestart
  \/ D!Broker

Delivers == Goes /\ UNCHANGED <<aggregating, knows>>
--------------------------------------------------------------------------------
(* The events that the service of c has been told of by a save, on the     *)
(* stream of one of its subscriptions or earlier, and those it has saved.  *)
Messages(q) ==
  handled[q] \cup refused[q]
    \cup {n \in DOMAIN published :
            \E s \in Subscribers : QueueOf[s] = q /\ \E i \in DOMAIN inbox[s] : inbox[s][i] = n}

ToldOf(c) ==
  {published[n].event :
     n \in {m \in UNION {Messages(q) : q \in Watches[c]} : published[m].by = "save"}}

Saved(c) == {job[p] : p \in {x \in SavesBy[c] : reply[x] = "Ok"}}

(* SubscribableStore::aggregate, from a handler or from anywhere else.     *)
Aggregate(c, a) ==
  /\ A!CacheMiss(c, a) \/ A!CacheHit(c, a) \/ A!CacheUndecodable(c, a)
  /\ knows' = [knows EXCEPT ![c] = ToldOf(c) \cup Saved(c)]
  /\ UNCHANGED delivering

AggregateGoesOn(c) ==
  /\ \/ A!ReadEvents(c) \/ A!RowUndecodable(c)
     \/ A!StartCacheSave(c) \/ A!CacheSave(c) \/ A!Fail(c)
  /\ UNCHANGED <<delivering, knows>>

Next ==
  \/ \E e \in Events : CreateEvent(e)
  \/ \E p \in Publishers, e \in Events :
       \/ SaveInserts(p, e) \/ SavePanics(p, e) \/ SaveRefused(p, e)
       \/ EmitOnly(p, e) \/ EmitOnlyFails(p, e)
  \/ Delivers
  \/ \E c \in Callers, a \in Aggregators : Aggregate(c, a)
  \/ \E c \in Callers : AggregateGoesOn(c)

Spec == Init /\ [][Next]_vars
--------------------------------------------------------------------------------
(* A service that aggregates over what it was told of, or has saved, finds *)
(* it: the row is in the table by then, although insert and emit share no  *)
(* transaction, and the fold has it if the query selects it.  The one      *)
(* exception is a row that is late for the key: the cache had, or got, a   *)
(* younger row that lacks it (store.rs; emit_and_receive.rs aggregates     *)
(* after a message has come).                                              *)
KnownIsFound ==
  \A c \in Callers : pc[c] = "folded" =>
    \A e \in knows[c] :
      \E row \in events :
        /\ IdOf[row] = IdOf[e]
        /\ row \in Selects[QueryOf[aggregator[c]]] =>
             \/ \E i \in DOMAIN acc[c] : acc[c][i] = row
             \/ <<row, A!KeyOf(aggregator[c])>> \in late
================================================================================
