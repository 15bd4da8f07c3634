----------------------------- MODULE DeliveryProofs -----------------------------
(***************************************************************************)
(* Proofs about Delivery, for every set of publishers, subscribers, queues *)
(* and events, and every number of sends and faults.                       *)
(***************************************************************************)
EXTENDS Delivery, SequenceTheorems, TLAPS

--------------------------------------------------------------------------------
(* Type correctness, part by part.                                         *)

LEMMA TypeInit == Init => TypeOK
<1> SUFFICES ASSUME Init PROVE TypeOK
  OBVIOUS
<1>1. StoreTypeOK
  BY DEF Init, StoreTypeOK, UniqueIds
<1>2. BrokerTypeOK
  BY DEF Init, AmqpInit, BrokerTypeOK
<1>3. PublishersTypeOK /\ faults \in 0 .. MaxFaults
  BY DeliveryAssumption DEF Init, PublishersTypeOK
<1>4. SubscribersTypeOK
  BY DEF Init, SubscribersTypeOK
<1> QED BY <1>1, <1>2, <1>3, <1>4 DEF TypeOK

(* The table only grows, by inserts that keep its primary key.             *)
LEMMA StoreStep ==
  ASSUME StoreTypeOK, [Next]_vars
  PROVE  StoreTypeOK' /\ events \subseteq events'
<1>1. ASSUME NEW e \in Events, Insert(e) PROVE StoreTypeOK' /\ events \subseteq events'
  BY <1>1 DEF StoreTypeOK, Insert, HasId, UniqueIds
<1>2. CASE UNCHANGED events
  BY <1>2 DEF StoreTypeOK, UniqueIds
<1>3. (\E e \in Events : Insert(e)) \/ UNCHANGED events
  BY DEF Next, vars, SaveInserts, SaveRefused, SavePanics, EmitOnly, EmitOnlyFails,
         Emit, EmitFails, PublisherCrash, PublisherStart, SubscribeConnects,
         BindQueue, Consume, Deliver, Handle, HandleOk, HandleErr, Unparseable,
         HandlerPanics, Refuse, LoopDies, Ack, AckFails, StreamEnds, Resubscribe,
         ConnectionBreaks, BrokerRestart, Broker
<1> QED BY <1>1, <1>2, <1>3

(* The log only grows, and a message keeps its number.                     *)
LEMMA LogGrows ==
  ASSUME BrokerTypeOK, NEW p \in Publishers, BrokerTakes(p)
  PROVE  /\ Head(wire[p]) \in Message
         /\ published' \in Seq(Message)
         /\ Len(published) \in Nat
         /\ DOMAIN published = 1 .. Len(published)
         /\ DOMAIN published' = 1 .. Len(published) + 1
         /\ \A n \in DOMAIN published : published'[n] = published[n]
         /\ published'[Len(published) + 1] = Head(wire[p])
<1>1. wire[p] \in Seq(Message) /\ wire[p] # <<>> /\ published \in Seq(Message)
  BY DEF BrokerTypeOK, BrokerTakes
<1>2. published' = Append(published, Head(wire[p]))
  BY DEF BrokerTakes
<1>3. Head(wire[p]) \in Message
  BY <1>1, HeadTailProperties
<1> QED BY <1>1, <1>2, <1>3, AppendProperties, LenProperties

(* A sequence that is emptied.                                             *)
LEMMA EmptyFor ==
  ASSUME NEW S, NEW T, NEW f \in [S -> Seq(T)], NEW x \in S, NEW g,
         g = [f EXCEPT ![x] = <<>>]
  PROVE  /\ g \in [S -> Seq(T)]
         /\ g[x] = <<>>
         /\ \A y \in S \ {x} : g[y] = f[y]
<1> DEFINE empty == <<>>
<1>1. empty \in Seq(T)
  OBVIOUS
<1>2. g = [f EXCEPT ![x] = empty]
  OBVIOUS
<1> HIDE DEF empty
<1>3. /\ g \in [S -> Seq(T)]
      /\ g[x] = empty
      /\ \A y \in S \ {x} : g[y] = f[y]
  BY <1>1, <1>2
<1> QED BY <1>3 DEF empty

LEMMA DisconnectTyped ==
  ASSUME BrokerTypeOK, NEW x \in Publishers \cup Subscribers, Disconnect(x)
  PROVE  BrokerTypeOK' /\ published' = published
<1> USE AmqpAssumption DEF BrokerTypeOK
<1>1. CASE x \in Publishers
  <2>1. /\ UNCHANGED <<ready, unacked, acks, published, bound, lost>>
        /\ wire' = [wire EXCEPT ![x] = <<>>]
        /\ open' = open \ {x}
    BY <1>1 DEF Disconnect
  <2>2. wire' \in [Publishers -> Seq(Message)]
    BY <2>1, EmptyFor DEF BrokerTypeOK
  <2> QED BY <2>1, <2>2
<1>2. CASE x \notin Publishers
  <2>1. /\ UNCHANGED <<wire, published, bound, lost>>
        /\ open' = open \ {x}
        /\ ready' = [ready EXCEPT ![QueueOf[x]] = @ \cup unacked[x]]
        /\ unacked' = [unacked EXCEPT ![x] = {}]
        /\ acks' = [acks EXCEPT ![x] = {}]
    BY <1>2 DEF Disconnect
  <2> QED BY <1>2, <2>1
<1> QED BY <1>1, <1>2

(* What the broker and the connections keep.                               *)
LEMMA BrokerStepTyped ==
  ASSUME TypeOK, [Next]_vars
  PROVE  BrokerTypeOK'
<1> USE AmqpAssumption, DeliveryAssumption
<1>0. BrokerTypeOK /\ SubscribersTypeOK /\ PublishersTypeOK
  BY DEF TypeOK
<1>1. CASE UNCHANGED amqp
  BY <1>0, <1>1 DEF amqp, BrokerTypeOK
<1>2. ASSUME NEW p \in Publishers, NEW e \in Events, Emit(p) \/ EmitOnly(p, e)
      PROVE  BrokerTypeOK'
  <2>0. ASSUME NEW f \in Events, NEW by \in {"save", "emit"}
        PROVE  [event |-> f, name |-> NameOf[f], by |-> by] \in Message
    BY DEF Message
  <2>1. PICK message \in Message : wire' = [wire EXCEPT ![p] = Append(wire[p], message)]
    <3>1. CASE Emit(p)
      <4>1. wire' = [wire EXCEPT ![p] = Append(wire[p],
                       [event |-> job[p], name |-> NameOf[job[p]], by |-> "save"])]
        BY <3>1 DEF Emit, Send, Publish
      <4>2. job[p] \in Events
        BY <1>0 DEF PublishersTypeOK
      <4> QED BY <2>0, <4>1, <4>2
    <3>2. CASE EmitOnly(p, e)
      <4>1. wire' = [wire EXCEPT ![p] = Append(wire[p],
                       [event |-> e, name |-> NameOf[e], by |-> "emit"])]
        BY <3>2 DEF EmitOnly, Send, Publish
      <4> QED BY <2>0, <4>1
    <3> QED BY <1>2, <3>1, <3>2
  <2>2. wire' \in [Publishers -> Seq(Message)]
    BY <1>0, <2>1, AppendProperties DEF BrokerTypeOK
  <2>3. UNCHANGED <<open, published, bound, ready, unacked, acks, lost>>
    BY <1>2 DEF Emit, EmitOnly
  <2> QED BY <1>0, <2>2, <2>3 DEF BrokerTypeOK
<1>3. ASSUME NEW p \in Publishers, BrokerTakes(p) PROVE BrokerTypeOK'
  <2>1. ready' \in [Queues -> SUBSET DOMAIN published']
    <3>1. DOMAIN published' = DOMAIN published \cup {Len(published) + 1}
      <4>1. /\ Len(published) \in Nat
            /\ DOMAIN published = 1 .. Len(published)
            /\ DOMAIN published' = 1 .. Len(published) + 1
        BY <1>0, <1>3, LogGrows
      <4> QED BY <4>1
    <3>2. ready' = [q \in Queues |->
                      IF q \in bound /\ BoundTo[q] = Head(wire[p]).name
                      THEN ready[q] \cup {Len(published) + 1}
                      ELSE ready[q]]
      BY <1>3 DEF BrokerTakes
    <3> QED BY <1>0, <3>1, <3>2 DEF BrokerTypeOK
  <2>2. wire' \in [Publishers -> Seq(Message)]
    <3>1. wire[p] \in Seq(Message) /\ wire[p] # <<>>
      BY <1>0, <1>3 DEF BrokerTypeOK, BrokerTakes
    <3>2. Tail(wire[p]) \in Seq(Message)
      BY <3>1, HeadTailProperties
    <3> QED BY <1>0, <1>3, <3>2 DEF BrokerTypeOK, BrokerTakes
  <2>3. published' \in Seq(Message) /\ DOMAIN published \subseteq DOMAIN published'
    BY <1>0, <1>3, LogGrows
  <2>4. UNCHANGED <<open, bound, unacked, acks, lost>>
    BY <1>3 DEF BrokerTakes
  <2> QED BY <1>0, <2>1, <2>2, <2>3, <2>4 DEF BrokerTypeOK
<1>4. ASSUME NEW s \in Subscribers, BrokerAcked(s) PROVE BrokerTypeOK'
  BY <1>0, <1>4 DEF BrokerAcked, BrokerTypeOK
<1>5. ASSUME NEW x \in Publishers \cup Subscribers, Disconnect(x) PROVE BrokerTypeOK'
  BY <1>0, <1>5, DisconnectTyped
<1>6. ASSUME NEW x \in Publishers \cup Subscribers, open' = open \cup {x},
             UNCHANGED <<wire, published, bound, ready, unacked, acks, lost>>
      PROVE  BrokerTypeOK'
  BY <1>0, <1>6 DEF BrokerTypeOK
<1>7. ASSUME NEW s \in Subscribers, BindQueue(s) PROVE BrokerTypeOK'
  BY <1>0, <1>7 DEF BindQueue, BrokerTypeOK
<1>8. ASSUME NEW s \in Subscribers, Deliver(s) PROVE BrokerTypeOK'
  <2>1. PICK n \in ready[QueueOf[s]] : Push(s, n)
    BY <1>8 DEF Deliver
  <2> QED BY <1>0, <2>1 DEF Push, BrokerTypeOK
<1>9. ASSUME NEW s \in Subscribers, Ack(s) PROVE BrokerTypeOK'
  <2>1. acks' = [acks EXCEPT ![s] = acks[s] \cup {m \in unacked[s] : m = Head(inbox[s])}]
    BY <1>9 DEF Ack, BasicAck
  <2>2. UNCHANGED <<open, wire, published, bound, ready, unacked, lost>>
    BY <1>9 DEF Ack
  <2> QED BY <1>0, <2>1, <2>2 DEF BrokerTypeOK
<1>10. CASE BrokerRestart
  <2>1. wire' \in [Publishers -> Seq(Message)]
    BY <1>10 DEF BrokerRestart, BrokerRestarts
  <2>2. /\ UNCHANGED <<published, bound>>
        /\ open' = {}
        /\ ready' = [q \in Queues |-> {}]
        /\ lost' = [q \in Queues |-> lost[q] \cup ready[q] \cup UnackedOn(q)]
        /\ unacked' = [s \in Subscribers |-> {}]
        /\ acks' = [s \in Subscribers |-> {}]
    BY <1>10 DEF BrokerRestart, BrokerRestarts
  <2>3. \A q \in Queues : UnackedOn(q) \subseteq DOMAIN published
    BY <1>0 DEF UnackedOn, Consumers, BrokerTypeOK
  <2> QED BY <1>0, <2>1, <2>2, <2>3 DEF BrokerTypeOK
<1>11. \/ UNCHANGED amqp
       \/ \E p \in Publishers, e \in Events : Emit(p) \/ EmitOnly(p, e)
       \/ \E p \in Publishers : Emit(p)
       \/ \E p \in Publishers : BrokerTakes(p)
       \/ \E s \in Subscribers : BrokerAcked(s) \/ BindQueue(s) \/ Deliver(s) \/ Ack(s)
       \/ \E x \in Publishers \cup Subscribers :
            \/ Disconnect(x)
            \/ /\ open' = open \cup {x}
               /\ UNCHANGED <<wire, published, bound, ready, unacked, acks, lost>>
       \/ BrokerRestart
  BY DEF Next, vars, SaveInserts, SaveRefused, SavePanics, EmitOnlyFails, EmitFails,
         PublisherCrash, PublisherStart, SubscribeConnects, Consume, Handle,
         HandleOk, HandleErr, Unparseable, HandlerPanics, Refuse, LoopDies, AckFails,
         StreamEnds, Resubscribe, ConnectionBreaks, Broker, BrokerStep
<1>12. ASSUME NEW p \in Publishers, Emit(p) PROVE BrokerTypeOK'
  <2>1. job[p] \in Events
    BY <1>0 DEF PublishersTypeOK
  <2> QED BY <1>2, <1>12, <2>1
<1> QED BY <1>1, <1>2, <1>3, <1>4, <1>5, <1>6, <1>7, <1>8, <1>9, <1>10, <1>11, <1>12

(* A step leaves the log as it is, or the broker appends a message to it.  *)
LEMMA LogStep ==
  ASSUME TypeOK, [Next]_vars
  PROVE  \/ published' = published
         \/ \E p \in Publishers : BrokerTakes(p)
BY DEF TypeOK, Next, vars, amqp, SaveInserts, SaveRefused, SavePanics, EmitOnly,
       EmitOnlyFails, Emit, EmitFails, PublisherCrash, PublisherStart,
       SubscribeConnects, BindQueue, Consume, Deliver, Push, Handle, HandleOk,
       HandleErr, Unparseable, HandlerPanics, Refuse, LoopDies, Ack, AckFails,
       StreamEnds, Resubscribe, ConnectionBreaks, BrokerRestart, BrokerRestarts,
       Disconnect, Broker, BrokerStep, BrokerAcked

LEMMA LogKept ==
  ASSUME TypeOK, [Next]_vars
  PROVE  /\ Len(published) \in Nat
         /\ DOMAIN published = 1 .. Len(published)
         /\ DOMAIN published \subseteq DOMAIN published'
         /\ \A n \in DOMAIN published : published'[n] = published[n]
<1>1. CASE published' = published
  BY <1>1, LenProperties DEF TypeOK, BrokerTypeOK
<1>2. CASE \E p \in Publishers : BrokerTakes(p)
  BY <1>2, LogGrows DEF TypeOK
<1> QED BY <1>1, <1>2, LogStep

(* What the callers of save and emit keep.                                 *)
LEMMA PublishersStepTyped ==
  ASSUME TypeOK, [Next]_vars
  PROVE  PublishersTypeOK'
<1> USE DeliveryAssumption DEF PublishersTypeOK
<1>0. PublishersTypeOK
  BY DEF TypeOK
<1>1. ASSUME NEW p \in Publishers, NEW e \in Events,
             \/ SaveInserts(p, e) \/ SaveRefused(p, e) \/ SavePanics(p, e)
             \/ EmitOnly(p, e) \/ EmitOnlyFails(p, e)
      PROVE  PublishersTypeOK'
  BY <1>0, <1>1 DEF SaveInserts, SaveRefused, SavePanics, EmitOnly, EmitOnlyFails,
                    Send, subscribing
<1>2. ASSUME NEW p \in Publishers,
             Emit(p) \/ EmitFails(p) \/ PublisherCrash(p) \/ PublisherStart(p)
      PROVE  PublishersTypeOK'
  BY <1>0, <1>2 DEF Emit, Send, EmitFails, PublisherCrash, PublisherStart, subscribing
<1>3. CASE UNCHANGED publishing
  BY <1>0, <1>3 DEF publishing
<1>4. \/ UNCHANGED publishing
      \/ \E p \in Publishers, e \in Events :
           \/ SaveInserts(p, e) \/ SaveRefused(p, e) \/ SavePanics(p, e)
           \/ EmitOnly(p, e) \/ EmitOnlyFails(p, e)
      \/ \E p \in Publishers :
           Emit(p) \/ EmitFails(p) \/ PublisherCrash(p) \/ PublisherStart(p)
  BY DEF Next, vars, SubscribeConnects, BindQueue, Consume, Deliver, Handle, HandleOk,
         HandleErr, Unparseable, HandlerPanics, Refuse, LoopDies, Ack, AckFails,
         StreamEnds, Resubscribe, ConnectionBreaks, BrokerRestart, Broker
<1> QED BY <1>1, <1>2, <1>3, <1>4

(* What the subscriptions keep.                                            *)
LEMMA SubscribersStepTyped ==
  ASSUME TypeOK, [Next]_vars
  PROVE  SubscribersTypeOK'
<1>0. /\ SubscribersTypeOK /\ BrokerTypeOK /\ AmqpAssumption
      /\ DOMAIN published \subseteq DOMAIN published'
      /\ Len(published) \in Nat
  BY AmqpAssumption, LogKept DEF TypeOK
<1>1. inbox \in [Subscribers -> Seq(DOMAIN published')]
  BY <1>0 DEF SubscribersTypeOK
<1> DEFINE LoopStates == {"off", "connected", "bound", "consuming", "acking", "dead"}
<1>2. SUFFICES /\ loop' \in [Subscribers -> LoopStates]
               /\ inbox' \in [Subscribers -> Seq(DOMAIN published')]
               /\ \A s \in Subscribers : loop'[s] = "acking" => inbox'[s] # <<>>
               /\ handled' \in [Queues -> SUBSET DOMAIN published]
               /\ refused' \in [Queues -> SUBSET DOMAIN published]
               /\ from' \in [Queues -> SUBSET Nat]
  BY <1>0 DEF SubscribersTypeOK
<1>3. CASE UNCHANGED subscribing
  BY <1>0, <1>1, <1>3 DEF subscribing, SubscribersTypeOK
<1>4. ASSUME NEW s \in Subscribers,
             SubscribeConnects(s) \/ BindQueue(s) \/ Consume(s)
      PROVE  /\ UNCHANGED <<inbox, handled, refused>>
             /\ loop' \in [Subscribers -> LoopStates]
             /\ from' \in [Queues -> SUBSET Nat]
             /\ \A t \in Subscribers : loop'[t] = "acking" => inbox'[t] # <<>>
  <2>1. UNCHANGED <<inbox, handled, refused>>
    BY <1>4 DEF SubscribeConnects, BindQueue, Consume
  <2>2. \/ loop' = [loop EXCEPT ![s] = "connected"]
        \/ loop' = [loop EXCEPT ![s] = "bound"]
        \/ loop' = [loop EXCEPT ![s] = "consuming"]
    BY <1>4 DEF SubscribeConnects, BindQueue, Consume
  <2>3. from' \in [Queues -> SUBSET Nat]
    BY <1>0, <1>4 DEF SubscribeConnects, BindQueue, Consume, SubscribersTypeOK
  <2> QED BY <1>0, <2>1, <2>2, <2>3 DEF SubscribersTypeOK
<1>5. ASSUME NEW s \in Subscribers, Deliver(s)
      PROVE  /\ UNCHANGED <<loop, handled, refused, from>>
             /\ inbox' \in [Subscribers -> Seq(DOMAIN published')]
             /\ \A t \in Subscribers : loop'[t] = "acking" => inbox'[t] # <<>>
  <2>1. PICK n \in ready[QueueOf[s]] : inbox' = [inbox EXCEPT ![s] = Append(inbox[s], n)]
    BY <1>5 DEF Deliver
  <2>2. n \in DOMAIN published'
    BY <1>0 DEF BrokerTypeOK, AmqpAssumption
  <2>3. inbox' \in [Subscribers -> Seq(DOMAIN published')]
    BY <1>1, <2>1, <2>2, AppendProperties
  <2>4. Append(inbox[s], n) # <<>>
    BY <1>1, <2>2, AppendProperties
  <2> QED BY <1>0, <1>1, <1>5, <2>1, <2>3, <2>4 DEF Deliver, SubscribersTypeOK
<1>6. ASSUME NEW s \in Subscribers, Taken(s)
      PROVE  /\ Head(inbox[s]) \in DOMAIN published
             /\ Tail(inbox[s]) \in Seq(DOMAIN published')
  <2>1. inbox[s] \in Seq(DOMAIN published) /\ inbox[s] \in Seq(DOMAIN published')
        /\ inbox[s] # <<>>
    BY <1>0, <1>1, <1>6 DEF Taken, SubscribersTypeOK
  <2> QED BY <2>1, HeadTailProperties
<1>7. ASSUME NEW s \in Subscribers, HandleOk(s)
      PROVE  /\ UNCHANGED <<inbox, refused, from>>
             /\ loop' \in [Subscribers -> LoopStates]
             /\ handled' \in [Queues -> SUBSET DOMAIN published]
             /\ \A t \in Subscribers : loop'[t] = "acking" => inbox'[t] # <<>>
  <2>1. Taken(s) /\ inbox[s] # <<>>
    BY <1>7 DEF HandleOk, Taken
  <2> QED BY <1>0, <1>6, <1>7, <2>1 DEF HandleOk, SubscribersTypeOK, AmqpAssumption
<1>8. ASSUME NEW s \in Subscribers, HandleErr(s) \/ Unparseable(s)
      PROVE  /\ UNCHANGED <<loop, handled, from>>
             /\ inbox' \in [Subscribers -> Seq(DOMAIN published')]
             /\ refused' \in [Queues -> SUBSET DOMAIN published]
             /\ \A t \in Subscribers : loop'[t] = "acking" => inbox'[t] # <<>>
  <2>1. Taken(s) /\ Refuse(s)
    BY <1>8 DEF HandleErr, Unparseable
  <2>2. inbox' \in [Subscribers -> Seq(DOMAIN published')]
    BY <1>1, <1>6, <2>1 DEF Refuse
  <2>3. \A t \in Subscribers : loop'[t] = "acking" => inbox'[t] # <<>>
    BY <1>0, <2>1 DEF Refuse, Taken, SubscribersTypeOK
  <2> QED BY <1>0, <1>6, <2>1, <2>2, <2>3 DEF Refuse, SubscribersTypeOK, AmqpAssumption
<1>9. ASSUME NEW s \in Subscribers, Ack(s)
      PROVE  /\ UNCHANGED <<handled, refused, from>>
             /\ loop' \in [Subscribers -> LoopStates]
             /\ inbox' \in [Subscribers -> Seq(DOMAIN published')]
             /\ \A t \in Subscribers : loop'[t] = "acking" => inbox'[t] # <<>>
  <2>1. /\ inbox' = [inbox EXCEPT ![s] = Tail(inbox[s])]
        /\ loop' = [loop EXCEPT ![s] = "consuming"]
        /\ UNCHANGED <<handled, refused, from>>
    BY <1>9 DEF Ack
  <2>2. Tail(inbox[s]) \in Seq(DOMAIN published')
    <3>1. inbox[s] # <<>> /\ inbox[s] \in Seq(DOMAIN published')
      BY <1>0, <1>1, <1>9 DEF Ack, SubscribersTypeOK
    <3> QED BY <3>1, HeadTailProperties
  <2> QED BY <1>0, <1>1, <2>1, <2>2 DEF SubscribersTypeOK
<1>10. ASSUME NEW s \in Subscribers, LoopDies(s) \/ Resubscribe(s)
      PROVE  /\ UNCHANGED <<handled, refused, from>>
             /\ loop' \in [Subscribers -> LoopStates]
             /\ inbox' \in [Subscribers -> Seq(DOMAIN published')]
             /\ \A t \in Subscribers : loop'[t] = "acking" => inbox'[t] # <<>>
  <2>1. /\ inbox' = [inbox EXCEPT ![s] = <<>>]
        /\ \/ loop' = [loop EXCEPT ![s] = "dead"]
           \/ loop' = [loop EXCEPT ![s] = "off"]
        /\ UNCHANGED <<handled, refused, from>>
    BY <1>10 DEF LoopDies, Resubscribe
  <2>2. inbox' \in [Subscribers -> Seq(DOMAIN published')]
    BY <1>1, <2>1, EmptyFor
  <2>3. \A t \in Subscribers \ {s} : inbox'[t] = inbox[t]
    BY <1>1, <2>1, EmptyFor
  <2>4. loop'[s] # "acking" /\ \A t \in Subscribers \ {s} : loop'[t] = loop[t]
    BY <1>0, <2>1 DEF SubscribersTypeOK
  <2>5. loop' \in [Subscribers -> LoopStates]
    BY <1>0, <2>1 DEF SubscribersTypeOK
  <2> QED BY <1>0, <2>1, <2>2, <2>3, <2>4, <2>5 DEF SubscribersTypeOK
<1>11. \/ UNCHANGED subscribing
       \/ \E s \in Subscribers : SubscribeConnects(s) \/ BindQueue(s) \/ Consume(s)
       \/ \E s \in Subscribers : Deliver(s)
       \/ \E s \in Subscribers : HandleOk(s)
       \/ \E s \in Subscribers : HandleErr(s) \/ Unparseable(s)
       \/ \E s \in Subscribers : Ack(s)
       \/ \E s \in Subscribers : LoopDies(s) \/ Resubscribe(s)
  BY DEF Next, vars, SaveInserts, SaveRefused, SavePanics, EmitOnly, EmitOnlyFails,
         Emit, EmitFails, PublisherCrash, PublisherStart, Handle, HandlerPanics,
         AckFails, StreamEnds, ConnectionBreaks, BrokerRestart, Broker
<1>12. /\ loop \in [Subscribers -> LoopStates]
       /\ handled \in [Queues -> SUBSET DOMAIN published]
       /\ refused \in [Queues -> SUBSET DOMAIN published]
       /\ from \in [Queues -> SUBSET Nat]
       /\ \A s \in Subscribers : loop[s] = "acking" => inbox[s] # <<>>
  BY <1>0 DEF SubscribersTypeOK
<1> HIDE DEF LoopStates
<1>13. CASE \E s \in Subscribers : SubscribeConnects(s) \/ BindQueue(s) \/ Consume(s)
  BY <1>1, <1>4, <1>12, <1>13
<1>14. CASE \E s \in Subscribers : Deliver(s)
  BY <1>5, <1>12, <1>14
<1>15. CASE \E s \in Subscribers : HandleOk(s)
  BY <1>1, <1>7, <1>12, <1>15
<1>16. CASE \E s \in Subscribers : HandleErr(s) \/ Unparseable(s)
  BY <1>8, <1>12, <1>16
<1>17. CASE \E s \in Subscribers : Ack(s)
  BY <1>9, <1>12, <1>17
<1>18. CASE \E s \in Subscribers : LoopDies(s) \/ Resubscribe(s)
  BY <1>10, <1>12, <1>18
<1> QED BY <1>3, <1>11, <1>13, <1>14, <1>15, <1>16, <1>17, <1>18

LEMMA TypeStep == TypeOK /\ [Next]_vars => TypeOK'
<1> SUFFICES ASSUME TypeOK, [Next]_vars PROVE TypeOK'
  OBVIOUS
<1>1. StoreTypeOK'
  BY StoreStep DEF TypeOK
<1>2. \/ faults' = faults
      \/ faults < MaxFaults /\ faults' = faults + 1
  BY DEF Next, vars, SaveInserts, SaveRefused, SavePanics, EmitOnly, EmitOnlyFails,
         Emit, EmitFails, PublisherCrash, PublisherStart, SubscribeConnects,
         BindQueue, Consume, Deliver, Handle, HandleOk, HandleErr, Unparseable,
         HandlerPanics, Refuse, LoopDies, Ack, AckFails, StreamEnds, Resubscribe,
         ConnectionBreaks, BrokerRestart, Broker
<1>3. faults' \in 0 .. MaxFaults
  BY <1>2, DeliveryAssumption DEF TypeOK
<1> QED
  BY <1>1, <1>3, BrokerStepTyped, PublishersStepTyped, SubscribersStepTyped DEF TypeOK

(* The variables keep their types, whatever crashes, breaks and interleaves*)
(* and no UUID ever has two rows.                                          *)
THEOREM TypeCorrect == Spec => []TypeOK
BY TypeInit, TypeStep, PTL DEF Spec

--------------------------------------------------------------------------------
(* SeenIsStored.                                                           *)

(* What a subscriber sees was published, what was published was on a wire, *)
(* and what was on a wire came from a task that had inserted it.           *)
FromSave(message) == message.by = "save" => HasId(message.event)

SeenInv ==
  /\ \A p \in Publishers : task[p] = "emit" => HasId(job[p])
  /\ \A p \in Publishers : \A i \in DOMAIN wire[p] : FromSave(wire[p][i])
  /\ \A n \in DOMAIN published : FromSave(published[n])

LEMMA SeenInit == Init => SeenInv
BY DEF Init, AmqpInit, SeenInv

(* A message goes out under the name of its event.                         *)
Named(message) == message.name = NameOf[message.event]

(* What is on the wire of p was there before or is what p emits now.       *)
LEMMA WireGrows ==
  ASSUME TypeOK, [Next]_vars, NEW p \in Publishers, NEW i \in DOMAIN wire'[p]
  PROVE  \/ \E j \in DOMAIN wire[p] : wire'[p][i] = wire[p][j]
         \/ /\ Named(wire'[p][i])
            /\ \/ task[p] = "emit" /\ wire'[p][i].event = job[p]
               \/ wire'[p][i].by = "emit"
<1>0. wire \in [Publishers -> Seq(Message)]
  BY DEF TypeOK, BrokerTypeOK
<1> DEFINE Goal == \/ \E j \in DOMAIN wire[p] : wire'[p][i] = wire[p][j]
                   \/ /\ Named(wire'[p][i])
                      /\ \/ task[p] = "emit" /\ wire'[p][i].event = job[p]
                         \/ wire'[p][i].by = "emit"
<1> SUFFICES Goal
  OBVIOUS
<1>1. CASE wire'[p] = wire[p]
  BY <1>1
<1>2. CASE wire'[p] = <<>>
  BY <1>2
<1>3. ASSUME NEW message, message \in Message, wire'[p] = Append(wire[p], message)
      PROVE  Goal \/ wire'[p][i] = message
  <2>1. /\ Len(wire[p]) \in Nat /\ DOMAIN wire[p] = 1 .. Len(wire[p])
        /\ DOMAIN wire'[p] = 1 .. Len(wire[p]) + 1
        /\ \A j \in 1 .. Len(wire[p]) : wire'[p][j] = wire[p][j]
        /\ wire'[p][Len(wire[p]) + 1] = message
    BY <1>0, <1>3, AppendProperties, LenProperties
  <2> QED BY <2>1
<1>4. ASSUME wire[p] # <<>>, wire'[p] = Tail(wire[p]) PROVE Goal
  <2>1. /\ Len(wire[p]) \in Nat /\ DOMAIN wire[p] = 1 .. Len(wire[p])
        /\ DOMAIN wire'[p] = 1 .. Len(wire[p]) - 1
        /\ \A j \in 1 .. Len(wire[p]) - 1 : wire'[p][j] = wire[p][j + 1]
    BY <1>0, <1>4, HeadTailProperties, LenProperties
  <2>2. i + 1 \in DOMAIN wire[p] /\ wire'[p][i] = wire[p][i + 1]
    BY <2>1
  <2> QED BY <2>2
<1>5. ASSUME NEW r \in Publishers, Emit(r) PROVE Goal
  <2>1. CASE r = p
    <3> DEFINE message == [event |-> job[p], name |-> NameOf[job[p]], by |-> "save"]
    <3>1. wire'[p] = Append(wire[p], message) /\ task[p] = "emit"
      BY <1>0, <1>5, <2>1 DEF Emit, Send, Publish
    <3>2. message \in Message /\ message.event = job[p] /\ Named(message)
      BY DeliveryAssumption DEF TypeOK, PublishersTypeOK, Message, Named
    <3> HIDE DEF message
    <3> QED BY <1>3, <3>1, <3>2
  <2>2. CASE r # p
    BY <1>0, <1>1, <1>5, <2>2 DEF Emit, Send, Publish
  <2> QED BY <2>1, <2>2
<1>6. ASSUME NEW r \in Publishers, NEW e \in Events, EmitOnly(r, e) PROVE Goal
  <2>1. CASE r = p
    <3> DEFINE message == [event |-> e, name |-> NameOf[e], by |-> "emit"]
    <3>1. wire'[p] = Append(wire[p], message)
      BY <1>0, <1>6, <2>1 DEF EmitOnly, Send, Publish
    <3>2. message \in Message /\ message.by = "emit" /\ Named(message)
      BY DeliveryAssumption DEF Message, Named
    <3> HIDE DEF message
    <3> QED BY <1>3, <3>1, <3>2
  <2>2. CASE r # p
    BY <1>0, <1>1, <1>6, <2>2 DEF EmitOnly, Send, Publish
  <2> QED BY <2>1, <2>2
<1>7. ASSUME NEW r \in Publishers, BrokerTakes(r) PROVE Goal
  BY <1>0, <1>1, <1>4, <1>7 DEF BrokerTakes
<1>8. ASSUME NEW x \in Publishers \cup Subscribers, Disconnect(x) PROVE Goal
  <2>1. CASE x \in Publishers
    <3>1. wire' = [wire EXCEPT ![x] = <<>>]
      BY <1>8, <2>1 DEF Disconnect
    <3>2. wire'[p] = <<>> \/ wire'[p] = wire[p]
      BY <1>0, <2>1, <3>1, EmptyFor
    <3> QED BY <1>1, <1>2, <3>2
  <2>2. CASE x \notin Publishers
    BY <1>1, <1>8, <2>2 DEF Disconnect
  <2> QED BY <2>1, <2>2
<1>9. CASE BrokerRestart
  BY <1>2, <1>9 DEF BrokerRestart, BrokerRestarts
<1>10. \/ wire' = wire
       \/ \E r \in Publishers : Emit(r)
       \/ \E r \in Publishers, e \in Events : EmitOnly(r, e)
       \/ \E r \in Publishers : BrokerTakes(r)
       \/ \E x \in Publishers \cup Subscribers : Disconnect(x)
       \/ BrokerRestart
  BY DEF Next, vars, amqp, SaveInserts, SaveRefused, SavePanics, EmitOnlyFails,
         EmitFails, PublisherCrash, PublisherStart, SubscribeConnects, BindQueue,
         Consume, Deliver, Push, Handle, HandleOk, HandleErr, Unparseable,
         HandlerPanics, Refuse, LoopDies, Ack, AckFails, StreamEnds, Resubscribe,
         ConnectionBreaks, Broker, BrokerStep, BrokerAcked
<1> HIDE DEF Goal
<1> QED BY <1>1, <1>5, <1>6, <1>7, <1>8, <1>9, <1>10

(* A task that is about to emit has just inserted, or had before.          *)
LEMMA TaskInserted ==
  ASSUME TypeOK, [Next]_vars, NEW p \in Publishers, task'[p] = "emit"
  PROVE  (task[p] = "emit" /\ job'[p] = job[p]) \/ HasId(job[p])'
<1> USE DEF TypeOK, PublishersTypeOK
<1>1. ASSUME NEW r \in Publishers, NEW e \in Events, SaveInserts(r, e)
      PROVE  (task[p] = "emit" /\ job'[p] = job[p]) \/ HasId(job[p])'
  <2>1. \E row \in events' : IdOf[row] = IdOf[e]
    BY <1>1 DEF SaveInserts, Insert, HasId
  <2> QED BY <1>1, <2>1 DEF SaveInserts, HasId
<1>2. ASSUME NEW r \in Publishers, NEW e \in Events,
             \/ SaveRefused(r, e) \/ SavePanics(r, e)
             \/ EmitOnly(r, e) \/ EmitOnlyFails(r, e)
      PROVE  task[p] = "emit" /\ job'[p] = job[p]
  BY <1>2 DEF SaveRefused, SavePanics, EmitOnly, EmitOnlyFails
<1>3. ASSUME NEW r \in Publishers,
             Emit(r) \/ EmitFails(r) \/ PublisherCrash(r) \/ PublisherStart(r)
      PROVE  task[p] = "emit" /\ job'[p] = job[p]
  BY <1>3 DEF Emit, EmitFails, PublisherCrash, PublisherStart
<1>4. \/ UNCHANGED publishing
      \/ \E r \in Publishers, e \in Events : SaveInserts(r, e)
      \/ \E r \in Publishers, e \in Events :
           \/ SaveRefused(r, e) \/ SavePanics(r, e)
           \/ EmitOnly(r, e) \/ EmitOnlyFails(r, e)
      \/ \E r \in Publishers :
           Emit(r) \/ EmitFails(r) \/ PublisherCrash(r) \/ PublisherStart(r)
  BY DEF Next, vars, SubscribeConnects, BindQueue, Consume, Deliver, Handle, HandleOk,
         HandleErr, Unparseable, HandlerPanics, Refuse, LoopDies, Ack, AckFails,
         StreamEnds, Resubscribe, ConnectionBreaks, BrokerRestart, Broker
<1> QED BY <1>1, <1>2, <1>3, <1>4 DEF publishing

(* The log grows by what was at the head of a wire.                        *)
LEMMA LogGrowsFromWire ==
  ASSUME TypeOK, [Next]_vars, NEW n \in DOMAIN published'
  PROVE  \/ n \in DOMAIN published /\ published'[n] = published[n]
         \/ \E p \in Publishers : \E i \in DOMAIN wire[p] : published'[n] = wire[p][i]
<1>1. ASSUME NEW p \in Publishers, BrokerTakes(p), n \notin DOMAIN published
      PROVE  1 \in DOMAIN wire[p] /\ published'[n] = wire[p][1]
  <2>1. n = Len(published) + 1 /\ published'[n] = Head(wire[p])
    <3>1. /\ Len(published) \in Nat
          /\ DOMAIN published = 1 .. Len(published)
          /\ DOMAIN published' = 1 .. Len(published) + 1
          /\ published'[Len(published) + 1] = Head(wire[p])
      BY <1>1, LogGrows DEF TypeOK
    <3> QED BY <1>1, <3>1
  <2>2. wire[p] \in Seq(Message) /\ wire[p] # <<>>
    BY <1>1 DEF BrokerTakes, TypeOK, BrokerTypeOK
  <2>3. Len(wire[p]) \in Nat /\ DOMAIN wire[p] = 1 .. Len(wire[p]) /\ Len(wire[p]) # 0
    BY <2>2, LenProperties, EmptySeq
  <2>4. Head(wire[p]) = wire[p][1]
    BY <2>2, HeadTailProperties
  <2> QED BY <2>1, <2>3, <2>4
<1> QED BY <1>1, LogStep, LogKept

LEMMA SeenStep ==
  ASSUME TypeOK, SeenInv, [Next]_vars
  PROVE  SeenInv'
<1> DEFINE Stored(e) == \E row \in events' : IdOf[row] = IdOf[e]
           Kept(message) == message.by = "save" => Stored(message.event)
<1>0. /\ \A e : HasId(e) => Stored(e)
      /\ \A message : FromSave(message) => Kept(message)
  BY StoreStep DEF TypeOK, HasId, FromSave
<1>1. ASSUME NEW p \in Publishers, task'[p] = "emit" PROVE Stored(job'[p])
  <2>1. CASE task[p] = "emit" /\ job'[p] = job[p]
    BY <1>0, <2>1 DEF SeenInv
  <2>2. CASE HasId(job[p])'
    BY <2>2 DEF HasId
  <2> QED BY <1>1, <2>1, <2>2, TaskInserted
<1>2. ASSUME NEW p \in Publishers, NEW i \in DOMAIN wire'[p]
      PROVE  Kept(wire'[p][i])
  <2>1. ASSUME NEW j \in DOMAIN wire[p], wire'[p][i] = wire[p][j]
        PROVE  Kept(wire'[p][i])
    <3>1. Kept(wire[p][j])
      BY <1>0 DEF SeenInv
    <3> HIDE DEF Kept
    <3> QED BY <2>1, <3>1
  <2>2. CASE task[p] = "emit" /\ wire'[p][i].event = job[p]
    BY <1>0, <2>2 DEF SeenInv
  <2>3. CASE wire'[p][i].by = "emit"
    BY <2>3
  <2> QED BY <2>1, <2>2, <2>3, WireGrows
<1>3. ASSUME NEW n \in DOMAIN published' PROVE Kept(published'[n])
  <2>1. ASSUME n \in DOMAIN published, published'[n] = published[n]
        PROVE  Kept(published'[n])
    BY <1>0, <2>1 DEF SeenInv
  <2>2. ASSUME NEW p \in Publishers, NEW i \in DOMAIN wire[p],
               published'[n] = wire[p][i]
        PROVE  Kept(published'[n])
    <3>1. Kept(wire[p][i])
      BY <1>0 DEF SeenInv
    <3> HIDE DEF Kept
    <3> QED BY <2>2, <3>1
  <2> QED BY <2>1, <2>2, LogGrowsFromWire
<1> QED BY <1>1, <1>2, <1>3 DEF SeenInv, FromSave, HasId

(* A subscriber never sees an event that save emitted and whose id is not  *)
(* in the store, whatever crashes, fails and is retried.                   *)
THEOREM SeenWasStored == Spec => []SeenIsStored
<1>1. TypeOK /\ SeenInv => SeenIsStored
  BY DEF TypeOK, SubscribersTypeOK, SeenInv, SeenIsStored, FromSave
<1>2. TypeOK /\ SeenInv /\ [Next]_vars => SeenInv'
  BY SeenStep
<1> QED BY <1>1, <1>2, SeenInit, TypeCorrect, PTL DEF Spec

--------------------------------------------------------------------------------
(* NoSilentLoss.                                                           *)

(* Where a message of q can be that is not lost silently.                  *)
Accounted(q, n) == n \in ready[q] \cup UnackedOn(q) \cup handled[q] \cup lost[q]

(* subscribe returns only when its queue is bound, and a binding stays.    *)
BindingInv ==
  /\ \A q \in Queues : from[q] # {} => q \in bound
  /\ \A s \in Subscribers : loop[s] = "bound" => QueueOf[s] \in bound

(* An ack is sent for a message only after a handler has returned Ok for   *)
(* that same message.                                                      *)
AckInv ==
  /\ \A s \in Subscribers : acks[s] \subseteq handled[QueueOf[s]]
  /\ \A s \in Subscribers :
       loop[s] = "acking" => Head(inbox[s]) \in handled[QueueOf[s]]

LEMMA LossInit == Init => BindingInv /\ AckInv /\ NoSilentLoss
BY DEF Init, AmqpInit, BindingInv, AckInv, NoSilentLoss

(* What is handled stays handled.                                          *)
LEMMA HandledGrows ==
  ASSUME TypeOK, [Next]_vars, NEW q \in Queues
  PROVE  handled[q] \subseteq handled'[q]
<1>1. ASSUME NEW s \in Subscribers, HandleOk(s) PROVE handled[q] \subseteq handled'[q]
  BY <1>1 DEF HandleOk, TypeOK, SubscribersTypeOK
<1>2. handled' = handled \/ \E s \in Subscribers : HandleOk(s)
  BY DEF Next, vars, subscribing, SaveInserts, SaveRefused, SavePanics, EmitOnly,
         EmitOnlyFails, Emit, EmitFails, PublisherCrash, PublisherStart,
         SubscribeConnects, BindQueue, Consume, Deliver, Handle, HandleErr,
         Unparseable, HandlerPanics, Refuse, LoopDies, Ack, AckFails, StreamEnds,
         Resubscribe, ConnectionBreaks, BrokerRestart, Broker
<1> QED BY <1>1, <1>2

LEMMA BindingStep ==
  ASSUME TypeOK, BindingInv, [Next]_vars
  PROVE  BindingInv'
<1> USE AmqpAssumption DEF BindingInv
<1>0. /\ loop \in [Subscribers -> {"off", "connected", "bound", "consuming",
                                   "acking", "dead"}]
      /\ from \in [Queues -> SUBSET Nat]
  BY DEF TypeOK, SubscribersTypeOK
<1>1. ASSUME NEW s \in Subscribers, BindQueue(s) PROVE BindingInv'
  BY <1>0, <1>1 DEF BindQueue
<1>2. ASSUME NEW s \in Subscribers, Consume(s) PROVE BindingInv'
  <2>1. QueueOf[s] \in bound /\ bound' = bound
    BY <1>2 DEF Consume, amqp
  <2>2. \A q \in Queues : q # QueueOf[s] => from'[q] = from[q]
    BY <1>0, <1>2 DEF Consume
  <2>3. \A r \in Subscribers : loop'[r] = "bound" => loop[r] = "bound"
    BY <1>0, <1>2 DEF Consume
  <2> QED BY <2>1, <2>2, <2>3
<1>3. ASSUME UNCHANGED <<bound, from>>,
             \A r \in Subscribers : loop'[r] = "bound" => loop[r] = "bound"
      PROVE  BindingInv'
  BY <1>3
<1>4. CASE UNCHANGED <<bound, from, loop>>
  BY <1>4
<1>5. ASSUME NEW s \in Subscribers,
             \/ SubscribeConnects(s) \/ HandleOk(s) \/ HandlerPanics(s) \/ Ack(s)
             \/ AckFails(s) \/ StreamEnds(s) \/ Resubscribe(s)
      PROVE  BindingInv'
  <2>1. \A r \in Subscribers : loop'[r] = "bound" => loop[r] = "bound"
    BY <1>0, <1>5 DEF SubscribeConnects, HandleOk, HandlerPanics, Ack, AckFails,
       StreamEnds, LoopDies, Resubscribe
  <2>2. UNCHANGED <<bound, from>>
    BY <1>5 DEF SubscribeConnects, HandleOk, HandlerPanics, Ack, AckFails, StreamEnds,
       LoopDies, Resubscribe, Disconnect, amqp
  <2> QED BY <1>3, <2>1, <2>2
<1>6. \/ UNCHANGED <<bound, from, loop>>
      \/ \E s \in Subscribers : BindQueue(s)
      \/ \E s \in Subscribers : Consume(s)
      \/ \E s \in Subscribers :
           \/ SubscribeConnects(s) \/ HandleOk(s) \/ HandlerPanics(s) \/ Ack(s)
           \/ AckFails(s) \/ StreamEnds(s) \/ Resubscribe(s)
  BY DEF Next, vars, amqp, subscribing, SaveInserts, SaveRefused, SavePanics,
         EmitOnly, EmitOnlyFails, Emit, EmitFails, PublisherCrash, PublisherStart,
         Deliver, Push, Handle, HandleErr, Unparseable, Refuse, ConnectionBreaks,
         Disconnect, BrokerRestart, BrokerRestarts, Broker, BrokerStep, BrokerTakes,
         BrokerAcked
<1> QED BY <1>1, <1>2, <1>4, <1>5, <1>6

(* A push does not change the message a loop is at.                        *)
LEMMA HeadStays ==
  ASSUME NEW S, NEW list \in Seq(S), list # <<>>, NEW n \in S
  PROVE  Head(Append(list, n)) = Head(list)
<1>1. /\ Append(list, n) \in Seq(S) /\ Append(list, n) # <<>>
      /\ Append(list, n)[1] = list[1]
  BY AppendProperties, LenProperties, EmptySeq
<1>2. Head(Append(list, n)) = Append(list, n)[1] /\ Head(list) = list[1]
  BY <1>1, HeadTailProperties
<1> QED BY <1>1, <1>2

(* The acks of a connection are of messages handled before.                *)
LEMMA AcksHandled ==
  ASSUME TypeOK, AckInv, [Next]_vars, NEW s \in Subscribers
  PROVE  acks'[s] \subseteq handled[QueueOf[s]]
<1> USE AmqpAssumption, DeliveryAssumption
<1>0. acks \in [Subscribers -> SUBSET DOMAIN published] /\ acks[s] \subseteq handled[QueueOf[s]]
  BY DEF TypeOK, BrokerTypeOK, AckInv
<1>1. CASE acks'[s] \subseteq acks[s]
  BY <1>0, <1>1
<1>2. ASSUME NEW r \in Subscribers, Ack(r)
      PROVE  acks'[s] \subseteq handled[QueueOf[s]]
  <2>1. acks' = [acks EXCEPT ![r] = acks[r] \cup {m \in unacked[r] : m = Head(inbox[r])}]
    BY <1>2 DEF Ack, BasicAck
  <2>2. Head(inbox[r]) \in handled[QueueOf[r]]
    BY <1>2 DEF Ack, AckInv
  <2> QED BY <1>0, <2>1, <2>2
<1>3. ASSUME NEW r \in Subscribers, BrokerAcked(r) PROVE acks'[s] \subseteq acks[s]
  BY <1>0, <1>3 DEF BrokerAcked
<1>4. ASSUME NEW x \in Publishers \cup Subscribers, Disconnect(x)
      PROVE  acks'[s] \subseteq acks[s]
  BY <1>0, <1>4 DEF Disconnect
<1>5. CASE BrokerRestart
  BY <1>0, <1>5 DEF BrokerRestart, BrokerRestarts
<1>6. \/ acks' = acks
      \/ \E r \in Subscribers : Ack(r)
      \/ \E r \in Subscribers : BrokerAcked(r)
      \/ \E x \in Publishers \cup Subscribers : Disconnect(x)
      \/ BrokerRestart
  BY DEF Next, vars, amqp, SaveInserts, SaveRefused, SavePanics, EmitOnly,
         EmitOnlyFails, Emit, EmitFails, PublisherCrash, PublisherStart,
         SubscribeConnects, BindQueue, Consume, Deliver, Push, Handle, HandleOk,
         HandleErr, Unparseable, HandlerPanics, Refuse, LoopDies, AckFails,
         StreamEnds, Resubscribe, ConnectionBreaks, Broker, BrokerStep, BrokerTakes
<1> QED BY <1>0, <1>1, <1>2, <1>3, <1>4, <1>5, <1>6

(* A loop that is about to ack is at a message that its handler handled.   *)
LEMMA AckingHandled ==
  ASSUME TypeOK, AckInv, [Next]_vars, NEW s \in Subscribers, loop'[s] = "acking"
  PROVE  Head(inbox'[s]) \in handled'[QueueOf[s]]
<1> USE AmqpAssumption
<1>0. /\ loop \in [Subscribers -> {"off", "connected", "bound", "consuming",
                                   "acking", "dead"}]
      /\ inbox \in [Subscribers -> Seq(DOMAIN published)]
      /\ handled \in [Queues -> SUBSET DOMAIN published]
      /\ ready \in [Queues -> SUBSET DOMAIN published]
      /\ loop[s] = "acking" => inbox[s] # <<>>
  BY DEF TypeOK, SubscribersTypeOK, BrokerTypeOK
<1>1. ASSUME loop[s] = "acking", Head(inbox'[s]) = Head(inbox[s])
      PROVE  Head(inbox'[s]) \in handled'[QueueOf[s]]
  BY <1>1, HandledGrows DEF AckInv
<1>2. ASSUME NEW r \in Subscribers, HandleOk(r)
      PROVE  Head(inbox'[s]) \in handled'[QueueOf[s]]
  <2>1. CASE r = s
    BY <1>0, <1>2, <2>1 DEF HandleOk
  <2>2. CASE r # s
    BY <1>0, <1>1, <1>2, <2>2 DEF HandleOk
  <2> QED BY <2>1, <2>2
<1>3. ASSUME NEW r \in Subscribers, Deliver(r)
      PROVE  loop[s] = "acking" /\ Head(inbox'[s]) = Head(inbox[s])
  <2>1. PICK n \in ready[QueueOf[r]] : inbox' = [inbox EXCEPT ![r] = Append(inbox[r], n)]
    BY <1>3 DEF Deliver
  <2>2. loop' = loop
    BY <1>3 DEF Deliver
  <2>3. inbox'[s] = inbox[s] \/ inbox'[s] = Append(inbox[s], n)
    BY <1>0, <2>1
  <2>4. n \in DOMAIN published
    BY <1>0, <2>1
  <2> QED BY <1>0, <2>2, <2>3, <2>4, HeadStays
<1>4. ASSUME NEW r \in Subscribers,
             \/ HandleErr(r) \/ Unparseable(r) \/ HandlerPanics(r) \/ Ack(r)
             \/ AckFails(r) \/ StreamEnds(r) \/ Resubscribe(r)
      PROVE  loop[s] = "acking" /\ inbox'[s] = inbox[s]
  BY <1>0, <1>4 DEF HandleErr, Unparseable, Refuse, Taken, HandlerPanics, LoopDies, Ack,
     AckFails, StreamEnds, Resubscribe
<1>5. ASSUME NEW r \in Subscribers,
             SubscribeConnects(r) \/ BindQueue(r) \/ Consume(r)
      PROVE  loop[s] = "acking" /\ inbox'[s] = inbox[s]
  BY <1>0, <1>5 DEF SubscribeConnects, BindQueue, Consume
<1>6. \/ UNCHANGED <<loop, inbox>>
      \/ \E r \in Subscribers : HandleOk(r)
      \/ \E r \in Subscribers : Deliver(r)
      \/ \E r \in Subscribers :
           \/ HandleErr(r) \/ Unparseable(r) \/ HandlerPanics(r) \/ Ack(r)
           \/ AckFails(r) \/ StreamEnds(r) \/ Resubscribe(r)
      \/ \E r \in Subscribers : SubscribeConnects(r) \/ BindQueue(r) \/ Consume(r)
  BY DEF Next, vars, subscribing, SaveInserts, SaveRefused, SavePanics, EmitOnly,
         EmitOnlyFails, Emit, EmitFails, PublisherCrash, PublisherStart, Handle,
         ConnectionBreaks, BrokerRestart, Broker
<1> QED BY <1>1, <1>2, <1>3, <1>4, <1>5, <1>6

LEMMA AckStep ==
  ASSUME TypeOK, AckInv, [Next]_vars
  PROVE  AckInv'
<1>1. \A s \in Subscribers : acks'[s] \subseteq handled'[QueueOf[s]]
  BY AcksHandled, HandledGrows, AmqpAssumption
<1> QED BY <1>1, AckingHandled DEF AckInv

(* A message that was not lost silently is not lost silently by a step.    *)
LEMMA StaysAccounted ==
  ASSUME TypeOK, AckInv, [Next]_vars, NEW q \in Queues, NEW n, Accounted(q, n)
  PROVE  Accounted(q, n)'
<1> USE AmqpAssumption, DeliveryAssumption DEF Accounted, UnackedOn, Consumers
<1>0. /\ ready \in [Queues -> SUBSET DOMAIN published]
      /\ lost \in [Queues -> SUBSET DOMAIN published]
      /\ unacked \in [Subscribers -> SUBSET DOMAIN published]
      /\ handled[q] \subseteq handled'[q]
  BY HandledGrows DEF TypeOK, BrokerTypeOK
<1>1. CASE UNCHANGED <<ready, unacked, lost>>
  BY <1>0, <1>1
<1>2. ASSUME NEW p \in Publishers, BrokerTakes(p) PROVE Accounted(q, n)'
  <2>1. ready[q] \subseteq ready'[q]
    BY <1>0, <1>2 DEF BrokerTakes
  <2>2. UNCHANGED <<unacked, lost>>
    BY <1>2 DEF BrokerTakes
  <2> QED BY <1>0, <2>1, <2>2
<1>3. ASSUME NEW s \in Subscribers, Deliver(s) PROVE Accounted(q, n)'
  <2>1. PICK m : /\ ready' = [ready EXCEPT ![QueueOf[s]] = ready[QueueOf[s]] \ {m}]
                 /\ unacked' = [unacked EXCEPT ![s] = unacked[s] \cup {m}]
                 /\ lost' = lost
    BY <1>3 DEF Deliver, Push
  <2>2. \A r \in Subscribers : unacked[r] \subseteq unacked'[r]
    BY <1>0, <2>1
  <2>3. m \in unacked'[s]
    BY <1>0, <2>1
  <2>4. \A x \in ready[q] : x \in ready'[q] \/ (x = m /\ QueueOf[s] = q)
    BY <1>0, <2>1
  <2> QED BY <1>0, <2>1, <2>2, <2>3, <2>4
<1>4. ASSUME NEW s \in Subscribers, BrokerAcked(s) PROVE Accounted(q, n)'
  <2>1. PICK m \in acks[s] : unacked' = [unacked EXCEPT ![s] = unacked[s] \ {m}]
    BY <1>4 DEF BrokerAcked
  <2>2. UNCHANGED <<ready, lost>>
    BY <1>4 DEF BrokerAcked
  <2>3. m \in handled[QueueOf[s]]
    BY <2>1 DEF AckInv
  <2>4. \A r \in Subscribers : \A x \in unacked[r] :
          x \in unacked'[r] \/ (x = m /\ r = s)
    BY <1>0, <2>1
  <2> QED BY <1>0, <2>2, <2>3, <2>4
<1>5. ASSUME NEW x \in Publishers \cup Subscribers, Disconnect(x) PROVE Accounted(q, n)'
  <2>1. CASE x \in Publishers
    BY <1>1, <1>5, <2>1 DEF Disconnect
  <2>2. CASE x \notin Publishers
    <3>1. /\ ready' = [ready EXCEPT ![QueueOf[x]] = ready[QueueOf[x]] \cup unacked[x]]
          /\ unacked' = [unacked EXCEPT ![x] = {}]
          /\ lost' = lost
      BY <1>5, <2>2 DEF Disconnect
    <3>2. \A r \in Subscribers : r = x \/ unacked'[r] = unacked[r]
      BY <1>0, <2>2, <3>1
    <3>3. ready[q] \subseteq ready'[q] /\ unacked[x] \subseteq ready'[QueueOf[x]]
      BY <1>0, <2>2, <3>1
    <3> QED BY <1>0, <3>1, <3>2, <3>3
  <2> QED BY <2>1, <2>2
<1>6. CASE BrokerRestart
  BY <1>0, <1>6 DEF BrokerRestart, BrokerRestarts
<1>7. \/ UNCHANGED <<ready, unacked, lost>>
      \/ \E p \in Publishers : BrokerTakes(p)
      \/ \E s \in Subscribers : Deliver(s)
      \/ \E s \in Subscribers : BrokerAcked(s)
      \/ \E x \in Publishers \cup Subscribers : Disconnect(x)
      \/ BrokerRestart
  BY DEF Next, vars, amqp, SaveInserts, SaveRefused, SavePanics, EmitOnly,
         EmitOnlyFails, Emit, EmitFails, PublisherCrash, PublisherStart,
         SubscribeConnects, BindQueue, Consume, Handle, HandleOk, HandleErr,
         Unparseable, HandlerPanics, Refuse, LoopDies, Ack, AckFails, StreamEnds,
         Resubscribe, ConnectionBreaks, Broker, BrokerStep
<1> HIDE DEF Accounted
<1> QED BY <1>1, <1>2, <1>3, <1>4, <1>5, <1>6, <1>7

(* Subscriptions are counted from the message before their first return.   *)
LEMMA FromStep ==
  ASSUME TypeOK, [Next]_vars, NEW q \in Queues, NEW k \in from'[q]
  PROVE  k \in from[q] \/ (k = Len(published) /\ published' = published)
<1>0. from \in [Queues -> SUBSET Nat]
  BY DEF TypeOK, SubscribersTypeOK
<1>1. ASSUME NEW s \in Subscribers, Consume(s)
      PROVE  k \in from[q] \/ (k = Len(published) /\ published' = published)
  BY <1>0, <1>1, AmqpAssumption DEF Consume, amqp
<1>2. from' = from \/ \E s \in Subscribers : Consume(s)
  BY DEF Next, vars, subscribing, SaveInserts, SaveRefused, SavePanics, EmitOnly,
         EmitOnlyFails, Emit, EmitFails, PublisherCrash, PublisherStart,
         SubscribeConnects, BindQueue, Deliver, Handle, HandleOk, HandleErr,
         Unparseable, HandlerPanics, Refuse, LoopDies, Ack, AckFails, StreamEnds,
         Resubscribe, ConnectionBreaks, BrokerRestart, Broker
<1> QED BY <1>1, <1>2

(* What lies after k and up to l.                                          *)
LEMMA InInterval ==
  ASSUME NEW k \in Nat, NEW l \in Nat, NEW n \in (k + 1) .. l
  PROVE  n \in 1 .. l /\ k # l
OBVIOUS

LEMMA LossStep ==
  ASSUME TypeOK, BindingInv, AckInv, NoSilentLoss, [Next]_vars
  PROVE  NoSilentLoss'
<1> SUFFICES ASSUME NEW q \in Queues, NEW k \in from'[q],
                    NEW n \in (k + 1) .. Len(published'),
                    published'[n].name = BoundTo[q]
             PROVE  Accounted(q, n)'
  BY DEF NoSilentLoss, Accounted, UnackedOn
<1>0. /\ from \in [Queues -> SUBSET Nat]
      /\ Len(published) \in Nat /\ DOMAIN published = 1 .. Len(published)
      /\ k \in Nat
  BY FromStep, LogKept DEF TypeOK, SubscribersTypeOK
<1>1. ASSUME k \in from[q], n \in 1 .. Len(published) PROVE Accounted(q, n)'
  <2>1. published'[n] = published[n]
    BY <1>0, <1>1, LogKept
  <2>2. n \in (k + 1) .. Len(published)
    BY <1>0, <1>1
  <2>3. Accounted(q, n)
    BY <1>1, <2>1, <2>2 DEF NoSilentLoss, Accounted
  <2> QED BY <2>3, StaysAccounted
<1>2. CASE published' = published
  <2>1. n \in (k + 1) .. Len(published)
    BY <1>2
  <2>2. n \in 1 .. Len(published) /\ k # Len(published)
    BY <1>0, <2>1, InInterval
  <2> QED BY <1>1, <2>2, FromStep
<1>3. ASSUME NEW p \in Publishers, BrokerTakes(p), published' # published
      PROVE  Accounted(q, n)'
  <2>1. k \in from[q]
    BY <1>3, FromStep
  <2>2. /\ published' \in Seq(Message)
        /\ DOMAIN published' = 1 .. Len(published) + 1
        /\ published'[Len(published) + 1] = Head(wire[p])
    BY <1>3, LogGrows DEF TypeOK
  <2>3. Len(published') = Len(published) + 1
    BY <1>0, <2>2, LenProperties
  <2>4. CASE n = Len(published) + 1
    <3>1. q \in bound /\ Head(wire[p]).name = BoundTo[q]
      BY <2>1, <2>2, <2>4 DEF BindingInv
    <3>2. n \in ready'[q]
      BY <1>3, <2>4, <3>1 DEF BrokerTakes
    <3> QED BY <3>2 DEF Accounted
  <2>5. CASE n # Len(published) + 1
    <3>1. n \in 1 .. Len(published)
      BY <1>0, <2>3, <2>5
    <3> QED BY <1>1, <2>1, <3>1
  <2> QED BY <2>4, <2>5
<1> QED BY <1>2, <1>3, LogStep

(* Whatever crashes, breaks and interleaves, an event of a subscription's  *)
(* name, emitted after subscribe has returned, is handled, or waits to be, *)
(* unless the broker restarted with it.                                    *)
THEOREM NothingLostSilently == Spec => []NoSilentLoss
<1> DEFINE LossInv == BindingInv /\ AckInv /\ NoSilentLoss
<1>1. Init => LossInv
  BY LossInit
<1>2. TypeOK /\ LossInv /\ [Next]_vars => LossInv'
  BY BindingStep, AckStep, LossStep
<1>3. LossInv => NoSilentLoss
  OBVIOUS
<1> HIDE DEF LossInv
<1> QED BY <1>1, <1>2, <1>3, TypeCorrect, PTL DEF Spec

--------------------------------------------------------------------------------
(* OkUnlessBroken.                                                         *)

(* A process that starts again has no answer from before.                  *)
OkInv == OkUnlessBroken /\ \A p \in Publishers : task[p] = "down" => reply[p] # "Ok"

(* While the connection of p stays open, what is on its wire stays there   *)
(* until it is in the log.                                                 *)
LEMMA MessageStays ==
  ASSUME TypeOK, [Next]_vars, NEW p \in Publishers, p \in open', NEW i \in DOMAIN wire[p]
  PROVE  \/ \E j \in DOMAIN wire'[p] : wire'[p][j] = wire[p][i]
         \/ \E n \in DOMAIN published' : published'[n] = wire[p][i]
<1>0. wire \in [Publishers -> Seq(Message)] /\ wire[p] \in Seq(Message)
  BY DEF TypeOK, BrokerTypeOK
<1>1. Len(wire[p]) \in Nat /\ DOMAIN wire[p] = 1 .. Len(wire[p])
  BY <1>0, LenProperties
<1> DEFINE Goal == \/ \E j \in DOMAIN wire'[p] : wire'[p][j] = wire[p][i]
                   \/ \E n \in DOMAIN published' : published'[n] = wire[p][i]
<1> SUFFICES Goal
  OBVIOUS
<1>2. CASE wire'[p] = wire[p]
  BY <1>2
<1>3. ASSUME NEW message \in Message, wire'[p] = Append(wire[p], message)
      PROVE  Goal
  <2>1. i \in DOMAIN wire'[p] /\ wire'[p][i] = wire[p][i]
    BY <1>0, <1>1, <1>3, AppendProperties
  <2> QED BY <2>1
<1>4. ASSUME BrokerTakes(p) PROVE Goal
  <2>1. wire[p] # <<>> /\ wire'[p] = Tail(wire[p])
    BY <1>0, <1>4 DEF BrokerTakes
  <2>2. /\ Head(wire[p]) = wire[p][1]
        /\ DOMAIN wire'[p] = 1 .. Len(wire[p]) - 1
        /\ \A j \in 1 .. Len(wire[p]) - 1 : wire'[p][j] = wire[p][j + 1]
    BY <1>0, <2>1, HeadTailProperties, LenProperties
  <2>3. CASE i = 1
    <3>1. /\ Len(published) + 1 \in DOMAIN published'
          /\ published'[Len(published) + 1] = wire[p][i]
      BY <1>4, <2>2, <2>3, LogGrows DEF TypeOK
    <3> QED BY <3>1
  <2>4. CASE i # 1
    <3>1. i - 1 \in DOMAIN wire'[p] /\ wire'[p][i - 1] = wire[p][i]
      BY <1>1, <2>2, <2>4
    <3> QED BY <3>1
  <2> QED BY <2>3, <2>4
<1>5. ASSUME NEW r \in Publishers, BrokerTakes(r) PROVE Goal
  <2>1. r # p => wire'[p] = wire[p]
    BY <1>0, <1>5 DEF BrokerTakes
  <2> HIDE DEF Goal
  <2> QED BY <1>2, <1>4, <1>5, <2>1
<1>6. ASSUME NEW r \in Publishers, NEW e \in Events, NEW by \in {"save", "emit"},
             Send(r, e, by)
      PROVE  Goal
  <2> DEFINE message == [event |-> e, name |-> NameOf[e], by |-> by]
  <2>1. message \in Message
    BY DeliveryAssumption DEF Message
  <2>2. wire'[p] = Append(wire[p], message) \/ wire'[p] = wire[p]
    BY <1>0, <1>6 DEF Send, Publish
  <2> HIDE DEF message, Goal
  <2> QED BY <1>2, <1>3, <2>1, <2>2
<1>7. ASSUME NEW x \in Publishers \cup Subscribers, Disconnect(x) PROVE Goal
  <2>1. CASE x \in Publishers
    <3>1. wire' = [wire EXCEPT ![x] = <<>>] /\ open' = open \ {x}
      BY <1>7, <2>1 DEF Disconnect
    <3>2. p # x
      BY <3>1
    <3>3. wire'[p] = wire[p]
      BY <1>0, <2>1, <3>1, <3>2, EmptyFor
    <3> QED BY <1>2, <3>3
  <2>2. CASE x \notin Publishers
    BY <1>2, <1>7, <2>2 DEF Disconnect
  <2> QED BY <2>1, <2>2
<1>8. CASE BrokerRestart
  BY <1>8 DEF BrokerRestart, BrokerRestarts
<1>9. \/ wire' = wire
      \/ \E r \in Publishers : Send(r, job[r], "save")
      \/ \E r \in Publishers, e \in Events : Send(r, e, "emit")
      \/ \E r \in Publishers : BrokerTakes(r)
      \/ \E x \in Publishers \cup Subscribers : Disconnect(x)
      \/ BrokerRestart
  BY DEF Next, vars, amqp, SaveInserts, SaveRefused, SavePanics, Emit, EmitFails,
         EmitOnly, EmitOnlyFails, PublisherCrash, PublisherStart, SubscribeConnects,
         BindQueue, Consume, Deliver, Push, Handle, HandleOk, HandleErr, Unparseable,
         HandlerPanics, Refuse, LoopDies, Ack, AckFails, StreamEnds, Resubscribe,
         ConnectionBreaks, Broker, BrokerStep, BrokerAcked
<1>10. \A r \in Publishers : job[r] \in Events
  BY DEF TypeOK, PublishersTypeOK
<1> HIDE DEF Goal
<1> QED BY <1>2, <1>5, <1>6, <1>7, <1>8, <1>9, <1>10

(* Emit puts the event of its task on the wire.                            *)
LEMMA EmitEmits ==
  ASSUME TypeOK, NEW p \in Publishers, Emit(p)
  PROVE  Emitted(p)'
<1> DEFINE message == [event |-> job[p], name |-> NameOf[job[p]], by |-> "save"]
<1>1. wire \in [Publishers -> Seq(Message)] /\ job' = job
  BY DEF TypeOK, BrokerTypeOK, Emit
<1>2. message \in Message /\ SavedAs(message, job[p])
  BY DeliveryAssumption DEF TypeOK, PublishersTypeOK, Message, SavedAs
<1>3. wire'[p] = Append(wire[p], message)
  BY <1>1 DEF Emit, Send, Publish
<1> HIDE DEF message
<1>4. Len(wire[p]) + 1 \in DOMAIN wire'[p] /\ wire'[p][Len(wire[p]) + 1] = message
  BY <1>1, <1>2, <1>3, AppendProperties, LenProperties
<1> QED BY <1>1, <1>2, <1>4 DEF Emitted

(* Who has an Ok has it from before, with its connection and its event, or *)
(* emits now.                                                              *)
LEMMA OkSince ==
  ASSUME TypeOK, OkInv, [Next]_vars, NEW p \in Publishers, reply'[p] = "Ok"
  PROVE  /\ task'[p] # "down"
         /\ \/ Emit(p)
            \/ reply[p] = "Ok" /\ job'[p] = job[p] /\ (p \in open' => p \in open)
<1> USE DEF TypeOK, PublishersTypeOK
<1> DEFINE Goal ==
      /\ task'[p] # "down"
      /\ \/ Emit(p)
         \/ reply[p] = "Ok" /\ job'[p] = job[p] /\ (p \in open' => p \in open)
<1>0. reply[p] = "Ok" => task[p] # "down"
  BY DEF OkInv
<1>1. ASSUME NEW r \in Publishers, NEW e \in Events,
             \/ SaveInserts(r, e) \/ SaveRefused(r, e) \/ SavePanics(r, e)
             \/ EmitOnly(r, e) \/ EmitOnlyFails(r, e)
      PROVE  Goal
  BY <1>0, <1>1 DEF SaveInserts, SaveRefused, SavePanics, EmitOnly, EmitOnlyFails,
                    amqp
<1>2. ASSUME NEW r \in Publishers,
             Emit(r) \/ EmitFails(r) \/ PublisherCrash(r) \/ PublisherStart(r)
      PROVE  Goal
  BY <1>0, <1>2 DEF Emit, EmitFails, PublisherCrash, PublisherStart, Disconnect, amqp
<1>3. ASSUME UNCHANGED publishing, open' \subseteq open \cup Subscribers PROVE Goal
  <2>1. task'[p] = task[p] /\ reply[p] = "Ok" /\ job'[p] = job[p]
    BY <1>3 DEF publishing
  <2>2. p \in open' => p \in open
    BY <1>3, DeliveryAssumption
  <2> QED BY <1>0, <2>1, <2>2
<1>4. \/ \E r \in Publishers, e \in Events :
           \/ SaveInserts(r, e) \/ SaveRefused(r, e) \/ SavePanics(r, e)
           \/ EmitOnly(r, e) \/ EmitOnlyFails(r, e)
      \/ \E r \in Publishers :
           Emit(r) \/ EmitFails(r) \/ PublisherCrash(r) \/ PublisherStart(r)
      \/ UNCHANGED publishing /\ open' \subseteq open \cup Subscribers
  BY DEF Next, vars, amqp, SubscribeConnects, BindQueue, Consume, Deliver, Push, Handle,
         HandleOk, HandleErr, Unparseable, HandlerPanics, Refuse, LoopDies, Ack,
         AckFails, StreamEnds, Resubscribe, ConnectionBreaks, BrokerRestart,
         BrokerRestarts, Disconnect, Broker, BrokerStep, BrokerTakes, BrokerAcked
<1> HIDE DEF Goal
<1>5. Goal
  BY <1>1, <1>2, <1>3, <1>4
<1> QED BY <1>5 DEF Goal

LEMMA OkStep ==
  ASSUME TypeOK, SeenInv, OkInv, [Next]_vars
  PROVE  OkInv'
<1>1. ASSUME NEW p \in Publishers, reply'[p] = "Ok"
      PROVE  task'[p] # "down" /\ HasId(job[p])' /\ (p \in open' => Emitted(p)')
  <2>1. \A e : HasId(e) => \E row \in events' : IdOf[row] = IdOf[e]
    BY StoreStep DEF TypeOK, HasId
  <2>2. CASE Emit(p)
    <3>1. job' = job /\ HasId(job[p])
      BY <2>2 DEF Emit, SeenInv
    <3>2. HasId(job[p])'
      BY <2>1, <3>1 DEF HasId
    <3> QED BY <1>1, <2>2, <3>2, EmitEmits, OkSince
  <2>3. CASE reply[p] = "Ok" /\ job'[p] = job[p] /\ (p \in open' => p \in open)
    <3>1. HasId(job[p]) /\ (p \in open' => Emitted(p))
      BY <2>3 DEF OkInv, OkUnlessBroken
    <3>2. HasId(job[p])'
      BY <2>1, <2>3, <3>1 DEF HasId
    <3>3. ASSUME p \in open', NEW i \in DOMAIN wire[p], SavedAs(wire[p][i], job[p])
          PROVE  Emitted(p)'
      BY <2>3, <3>3, MessageStays DEF Emitted
    <3>4. ASSUME NEW n \in DOMAIN published, SavedAs(published[n], job[p])
          PROVE  Emitted(p)'
      BY <2>3, <3>4, LogKept DEF Emitted
    <3>5. p \in open' => Emitted(p)'
      BY <3>1, <3>3, <3>4 DEF Emitted
    <3> QED BY <1>1, <3>2, <3>5, OkSince
  <2> QED BY <1>1, <2>2, <2>3, OkSince
<1> QED BY <1>1 DEF OkInv, OkUnlessBroken

(* An Ok of save means that the event is stored and, unless the connection *)
(* of the publisher has broken since, on its way or at the broker.         *)
THEOREM OkStandsUnlessBroken == Spec => []OkUnlessBroken
<1>1. Init => OkInv
  BY DEF Init, AmqpInit, OkInv, OkUnlessBroken
<1>2. TypeOK /\ SeenInv /\ [Next]_vars => SeenInv'
  BY SeenStep
<1>3. TypeOK /\ SeenInv /\ OkInv /\ [Next]_vars => OkInv'
  BY OkStep
<1>4. OkInv => OkUnlessBroken
  BY DEF OkInv
<1> QED BY <1>1, <1>2, <1>3, <1>4, SeenInit, TypeCorrect, PTL DEF Spec
================================================================================
