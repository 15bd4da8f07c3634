------------------------------ MODULE ServiceProofs ------------------------------
(***************************************************************************)
(* Proofs about Service: what Aggregation and Delivery guarantee each on   *)
(* its own, they guarantee together, over one table.                       *)
(***************************************************************************)
EXTENDS Service, SequenceTheorems, TLAPS

AP == INSTANCE AggregationProofs
DP == INSTANCE DeliveryProofs

(* The parts of a service start as they do on their own.                   *)
LEMMA ServiceInits == Init => AP!Init /\ DP!Init
BY DEF Init, A!Init, AP!Init, D!Init, DP!Init, D!AmqpInit, DP!AmqpInit

(* The actions that Service takes from Aggregation: the insert, ...        *)
LEMMA SaveIsSave ==
  ASSUME NEW e \in Events, A!Save(e)
  PROVE  AP!Save(e)
BY DEF A!Save, AP!Save, A!Insert, AP!Insert, A!HasId, AP!HasId, A!Overtaken,
       AP!Overtaken, A!Passed, AP!Passed

(* ... the first step of a call of aggregate, ...                          *)
LEMMA AggregateIsAggregate ==
  ASSUME NEW c \in Callers, NEW a \in Aggregators,
         A!CacheMiss(c, a) \/ A!CacheHit(c, a) \/ A!CacheUndecodable(c, a)
  PROVE  AP!CacheMiss(c, a) \/ AP!CacheHit(c, a) \/ AP!CacheUndecodable(c, a)
BY DEF A!CacheMiss, AP!CacheMiss, A!CacheHit, AP!CacheHit, A!CacheUndecodable,
       AP!CacheUndecodable, A!CacheRead, AP!CacheRead, A!KeyOf, AP!KeyOf, A!InCall,
       AP!InCall

(* ... and those that follow it.                                           *)
LEMMA CallIsCall ==
  ASSUME NEW c \in Callers,
         \/ A!ReadEvents(c) \/ A!RowUndecodable(c)
         \/ A!StartCacheSave(c) \/ A!CacheSave(c) \/ A!Fail(c)
  PROVE  \/ AP!ReadEvents(c) \/ AP!RowUndecodable(c)
         \/ AP!StartCacheSave(c) \/ AP!CacheSave(c) \/ AP!Fail(c)
<1>0. ASSUME NEW S PROVE A!Cardinality(S) = AP!Cardinality(S)
  BY DEF A!Cardinality, AP!Cardinality
<1>1. A!Found(c) = AP!Found(c)
  BY DEF A!Found, AP!Found, A!Matching, AP!Matching
<1>2. ASSUME A!ReadEvents(c) PROVE AP!ReadEvents(c)
  BY <1>0, <1>1, <1>2 DEF A!ReadEvents, AP!ReadEvents, A!Read, AP!Read, A!Matching,
                    AP!Matching, A!OrderedBy, AP!OrderedBy
<1>3. ASSUME A!RowUndecodable(c) PROVE AP!RowUndecodable(c)
  BY <1>1, <1>3 DEF A!RowUndecodable, AP!RowUndecodable
<1>4. ASSUME A!StartCacheSave(c) PROVE AP!StartCacheSave(c)
  BY <1>4 DEF A!StartCacheSave, AP!StartCacheSave
<1>5. ASSUME A!CacheSave(c) PROVE AP!CacheSave(c)
  BY <1>5 DEF A!CacheSave, AP!CacheSave, A!CacheUpsert, AP!CacheUpsert, A!KeyOf,
              AP!KeyOf
<1>6. ASSUME A!Fail(c) PROVE AP!Fail(c)
  BY <1>6 DEF A!Fail, AP!Fail, A!InCall, AP!InCall
<1> QED BY <1>2, <1>3, <1>4, <1>5, <1>6

(* Of saving and subscribing only the insert touches the table.            *)
LEMMA DeliveryLeavesTable == Goes => UNCHANGED events
BY DEF Goes, D!Emit, D!EmitFails, D!PublisherCrash, D!PublisherStart,
       D!SubscribeConnects, D!BindQueue, D!Consume, D!Deliver, D!Handle, D!HandleOk,
       D!HandleErr, D!Unparseable, D!HandlerPanics, D!Refuse, D!LoopDies, D!Ack,
       D!AckFails, D!StreamEnds, D!Resubscribe, D!ConnectionBreaks, D!BrokerRestart,
       D!Broker

(* A step of a service is one of its aggregates or leaves them alone.      *)
LEMMA AggregateStep == [Next]_vars => [AP!Next]_(AP!vars)
<1> SUFFICES ASSUME [Next]_vars PROVE [AP!Next]_(AP!vars)
  OBVIOUS
<1>1. ASSUME NEW e \in Events, CreateEvent(e) PROVE AP!CreateEvent(e)
  BY <1>1 DEF CreateEvent, A!CreateEvent, AP!CreateEvent
<1>2. ASSUME NEW p \in Publishers, NEW e \in Events, SaveInserts(p, e) PROVE AP!Save(e)
  BY <1>2, SaveIsSave DEF SaveInserts
<1>3. ASSUME NEW p \in Publishers, NEW e \in Events,
             \/ SavePanics(p, e) \/ SaveRefused(p, e)
             \/ EmitOnly(p, e) \/ EmitOnlyFails(p, e)
      PROVE  AP!Save(e) \/ UNCHANGED <<events, aggregating>>
  BY <1>3, SaveIsSave DEF SavePanics, SaveRefused, D!SaveRefused, EmitOnly, D!EmitOnly,
                            EmitOnlyFails, D!EmitOnlyFails
<1>4. ASSUME NEW c \in Callers, NEW a \in Aggregators, Aggregate(c, a)
      PROVE  AP!CacheMiss(c, a) \/ AP!CacheHit(c, a) \/ AP!CacheUndecodable(c, a)
  BY <1>4, AggregateIsAggregate DEF Aggregate
<1>5. ASSUME NEW c \in Callers, AggregateGoesOn(c)
      PROVE  \/ AP!ReadEvents(c) \/ AP!RowUndecodable(c)
             \/ AP!StartCacheSave(c) \/ AP!CacheSave(c) \/ AP!Fail(c)
  BY <1>5, CallIsCall DEF AggregateGoesOn
<1>6. CASE Delivers
  <2>1. UNCHANGED <<events, aggregating>>
    BY <1>6, DeliveryLeavesTable DEF Delivers
  <2> QED BY <2>1 DEF aggregating, AP!vars
<1>7. CASE UNCHANGED vars
  BY <1>7 DEF vars, aggregating, AP!vars
<1> QED
  BY <1>1, <1>2, <1>3, <1>4, <1>5, <1>6, <1>7 DEF Next, AP!Next, aggregating, AP!vars

(* The actions that Service takes from Delivery: broken connections, ...   *)
LEMMA DisconnectIsDisconnect ==
  ASSUME NEW x, D!Disconnect(x)
  PROVE  DP!Disconnect(x)
BY DEF D!Disconnect, DP!Disconnect

(* ... the calls of save and emit, ...                                     *)
LEMMA SaveIsDelivery ==
  ASSUME NEW p \in Publishers, NEW e \in Events,
         \/ D!SaveInserts(p, e) \/ D!SaveRefused(p, e) \/ D!SavePanics(p, e)
         \/ D!EmitOnly(p, e) \/ D!EmitOnlyFails(p, e)
  PROVE  \/ DP!SaveInserts(p, e) \/ DP!SaveRefused(p, e) \/ DP!SavePanics(p, e)
         \/ DP!EmitOnly(p, e) \/ DP!EmitOnlyFails(p, e)
<1> USE DEF D!amqp, DP!amqp, D!subscribing, DP!subscribing
<1>1. ASSUME D!Insert(e) PROVE DP!Insert(e)
  BY <1>1 DEF D!Insert, DP!Insert, D!HasId, DP!HasId
<1>2. ASSUME D!SaveInserts(p, e) PROVE DP!SaveInserts(p, e)
  BY <1>1, <1>2 DEF D!SaveInserts, DP!SaveInserts
<1>3. ASSUME D!SaveRefused(p, e) PROVE DP!SaveRefused(p, e)
  BY <1>3 DEF D!SaveRefused, DP!SaveRefused
<1>4. ASSUME D!SavePanics(p, e) PROVE DP!SavePanics(p, e)
  BY <1>1, <1>4 DEF D!SavePanics, DP!SavePanics
<1>5. ASSUME D!EmitOnly(p, e) PROVE DP!EmitOnly(p, e)
  BY <1>5 DEF D!EmitOnly, DP!EmitOnly, D!Send, DP!Send, D!Publish, DP!Publish
<1>6. ASSUME D!EmitOnlyFails(p, e) PROVE DP!EmitOnlyFails(p, e)
  BY <1>6 DEF D!EmitOnlyFails, DP!EmitOnlyFails
<1> QED BY <1>2, <1>3, <1>4, <1>5, <1>6

(* ... what the process of a publisher does after the insert, ...          *)
LEMMA PublisherIsPublisher ==
  ASSUME NEW p \in Publishers,
         D!Emit(p) \/ D!EmitFails(p) \/ D!PublisherCrash(p) \/ D!PublisherStart(p)
  PROVE  DP!Emit(p) \/ DP!EmitFails(p) \/ DP!PublisherCrash(p) \/ DP!PublisherStart(p)
<1> USE DEF D!amqp, DP!amqp, D!subscribing, DP!subscribing
<1>1. ASSUME D!Emit(p) PROVE DP!Emit(p)
  BY <1>1 DEF D!Emit, DP!Emit, D!Send, DP!Send, D!Publish, DP!Publish
<1>2. ASSUME D!EmitFails(p) PROVE DP!EmitFails(p)
  BY <1>2 DEF D!EmitFails, DP!EmitFails
<1>3. ASSUME D!PublisherCrash(p) PROVE DP!PublisherCrash(p)
  BY <1>3, DisconnectIsDisconnect DEF D!PublisherCrash, DP!PublisherCrash
<1>4. ASSUME D!PublisherStart(p) PROVE DP!PublisherStart(p)
  BY <1>4 DEF D!PublisherStart, DP!PublisherStart
<1> QED BY <1>1, <1>2, <1>3, <1>4

(* ... the call of subscribe, ...                                          *)
LEMMA SubscribeIsSubscribe ==
  ASSUME NEW s \in Subscribers,
         \/ D!SubscribeConnects(s) \/ D!BindQueue(s) \/ D!Consume(s)
         \/ D!Deliver(s) \/ D!Resubscribe(s)
  PROVE  \/ DP!SubscribeConnects(s) \/ DP!BindQueue(s) \/ DP!Consume(s)
         \/ DP!Deliver(s) \/ DP!Resubscribe(s)
<1> USE DEF D!amqp, DP!amqp, D!publishing, DP!publishing
<1>1. ASSUME D!SubscribeConnects(s) PROVE DP!SubscribeConnects(s)
  BY <1>1 DEF D!SubscribeConnects, DP!SubscribeConnects
<1>2. ASSUME D!BindQueue(s) PROVE DP!BindQueue(s)
  BY <1>2 DEF D!BindQueue, DP!BindQueue
<1>3. ASSUME D!Consume(s) PROVE DP!Consume(s)
  BY <1>3 DEF D!Consume, DP!Consume
<1>4. ASSUME D!Deliver(s) PROVE DP!Deliver(s)
  BY <1>4 DEF D!Deliver, DP!Deliver, D!Push, DP!Push, D!Oldest, DP!Oldest
<1>5. ASSUME D!Resubscribe(s) PROVE DP!Resubscribe(s)
  BY <1>5, DisconnectIsDisconnect DEF D!Resubscribe, DP!Resubscribe
<1> QED BY <1>1, <1>2, <1>3, <1>4, <1>5

(* ... the loop it spawns, ...                                             *)
LEMMA LoopIsLoop ==
  ASSUME NEW s \in Subscribers,
         D!Handle(s) \/ D!Ack(s) \/ D!AckFails(s) \/ D!StreamEnds(s)
  PROVE  DP!Handle(s) \/ DP!Ack(s) \/ DP!AckFails(s) \/ DP!StreamEnds(s)
<1> USE DEF D!amqp, DP!amqp, D!publishing, DP!publishing, D!Taken, DP!Taken
<1>1. ASSUME NEW n PROVE D!Parses(n) = DP!Parses(n)
  BY DEF D!Parses, DP!Parses
<1>2. ASSUME D!LoopDies(s) PROVE DP!LoopDies(s)
  BY <1>2 DEF D!LoopDies, DP!LoopDies
<1>3. ASSUME D!Refuse(s) PROVE DP!Refuse(s)
  BY <1>3 DEF D!Refuse, DP!Refuse
<1>4. ASSUME D!HandleOk(s) PROVE DP!HandleOk(s)
  BY <1>4 DEF D!HandleOk, DP!HandleOk, D!Parses, DP!Parses
<1>5. ASSUME D!HandleErr(s) PROVE DP!HandleErr(s)
  BY <1>3, <1>5 DEF D!HandleErr, DP!HandleErr, D!Parses, DP!Parses
<1>6. ASSUME D!Unparseable(s) PROVE DP!Unparseable(s)
  BY <1>3, <1>6 DEF D!Unparseable, DP!Unparseable, D!Parses, DP!Parses
<1>7. ASSUME D!HandlerPanics(s) PROVE DP!HandlerPanics(s)
  BY <1>2, <1>7 DEF D!HandlerPanics, DP!HandlerPanics, D!Parses, DP!Parses
<1>8. ASSUME D!Ack(s) PROVE DP!Ack(s)
  BY <1>8 DEF D!Ack, DP!Ack, D!BasicAck, DP!BasicAck
<1>9. ASSUME D!AckFails(s) \/ D!StreamEnds(s) PROVE DP!AckFails(s) \/ DP!StreamEnds(s)
  BY <1>2, <1>9 DEF D!AckFails, DP!AckFails, D!StreamEnds, DP!StreamEnds
<1> QED BY <1>4, <1>5, <1>6, <1>7, <1>8, <1>9 DEF D!Handle, DP!Handle

(* ... and the broker.                                                     *)
LEMMA BrokerIsBroker ==
  ASSUME D!BrokerRestart \/ D!Broker
  PROVE  DP!BrokerRestart \/ DP!Broker
<1> USE DEF D!publishing, DP!publishing, D!subscribing, DP!subscribing
<1>1. ASSUME D!BrokerRestart PROVE DP!BrokerRestart
  BY <1>1 DEF D!BrokerRestart, DP!BrokerRestart, D!BrokerRestarts, DP!BrokerRestarts,
              D!UnackedOn, DP!UnackedOn, D!Consumers, DP!Consumers
<1>2. ASSUME NEW p \in Publishers, D!BrokerTakes(p) PROVE DP!BrokerTakes(p)
  BY <1>2 DEF D!BrokerTakes, DP!BrokerTakes
<1>3. ASSUME NEW s \in Subscribers, D!BrokerAcked(s) PROVE DP!BrokerAcked(s)
  BY <1>3 DEF D!BrokerAcked, DP!BrokerAcked
<1> QED BY <1>1, <1>2, <1>3 DEF D!Broker, DP!Broker, D!BrokerStep, DP!BrokerStep

(* A step of a service is one of saving and subscribing or none of it.     *)
LEMMA DeliveryStep == [Next]_vars => [DP!Next]_(DP!vars)
<1> SUFFICES ASSUME [Next]_vars PROVE [DP!Next]_(DP!vars)
  OBVIOUS
<1> USE DEF DP!Next
<1>1. ASSUME NEW p \in Publishers, NEW e \in Events,
             \/ SaveInserts(p, e) \/ SavePanics(p, e) \/ SaveRefused(p, e)
             \/ EmitOnly(p, e) \/ EmitOnlyFails(p, e)
      PROVE  DP!Next
  BY <1>1, SaveIsDelivery DEF SaveInserts, SavePanics, SaveRefused, EmitOnly, EmitOnlyFails
<1>2. CASE Delivers
  <2>1. ASSUME NEW x \in Publishers \cup Subscribers, D!ConnectionBreaks(x)
        PROVE  DP!ConnectionBreaks(x)
    BY <2>1, DisconnectIsDisconnect
       DEF D!ConnectionBreaks, DP!ConnectionBreaks, D!publishing, DP!publishing,
           D!subscribing, DP!subscribing
  <2> QED
    BY <1>2, <2>1, PublisherIsPublisher, SubscribeIsSubscribe, LoopIsLoop, BrokerIsBroker
       DEF Delivers, Goes
<1>3. ASSUME \/ \E e \in Events : CreateEvent(e)
             \/ \E c \in Callers, a \in Aggregators : Aggregate(c, a)
             \/ \E c \in Callers : AggregateGoesOn(c)
             \/ UNCHANGED vars
      PROVE  UNCHANGED DP!vars
  <2>1. UNCHANGED <<events, delivering>>
    BY <1>3 DEF CreateEvent, A!CreateEvent, Aggregate, A!CacheMiss, A!CacheHit,
                A!CacheUndecodable, AggregateGoesOn, A!ReadEvents, A!RowUndecodable,
                A!StartCacheSave, A!CacheSave, A!Fail, vars
  <2> QED BY <2>1 DEF delivering, DP!vars, DP!amqp, DP!publishing, DP!subscribing
<1> QED BY <1>1, <1>2, <1>3 DEF Next
--------------------------------------------------------------------------------
(* The named assumptions of the modules that a service is made of.         *)
Assumptions ==
  /\ AP!PgStoreAssumption /\ AP!PgCacheAssumption /\ AP!AggregationAssumption
  /\ DP!PgStoreAssumption /\ DP!AmqpAssumption /\ DP!DeliveryAssumption

(* What a service has saved, and what it knew of when it last began to     *)
(* aggregate, is in the table.                                             *)
SavedInv == \A p \in Publishers : reply[p] = "Ok" => DP!HasId(job[p])

KnownInv ==
  /\ knows \in [Callers -> SUBSET Events]
  /\ \A c \in Callers : \A e \in knows[c] : DP!HasId(e)

LEMMA KnownInit == Init => SavedInv /\ KnownInv
BY DEF Init, D!Init, SavedInv, KnownInv

(* A save that has just returned Ok had inserted before.                   *)
LEMMA SavedStep ==
  ASSUME Assumptions, DP!TypeOK, DP!SeenInv, SavedInv, [DP!Next]_(DP!vars)
  PROVE  SavedInv'
<1> DEFINE Stored(e) == \E row \in events' : IdOf[row] = IdOf[e]
<1>0. /\ reply \in [Publishers -> {"none", "Ok", "Err", "panic", "emitted"}]
      /\ job \in [Publishers -> Events]
  BY DEF DP!TypeOK, DP!PublishersTypeOK
<1>1. \A e : DP!HasId(e) => Stored(e)
  BY DP!StoreStep DEF Assumptions, DP!TypeOK, DP!HasId
<1> SUFFICES ASSUME NEW p \in Publishers, reply'[p] = "Ok" PROVE Stored(job'[p])
  BY DEF SavedInv, DP!HasId
<1>2. \/ task[p] = "emit" /\ job'[p] = job[p]
      \/ reply[p] = "Ok" /\ job'[p] = job[p]
  BY <1>0 DEF DP!Next, DP!vars, DP!publishing, DP!subscribing, DP!SaveInserts,
       DP!SaveRefused, DP!SavePanics, DP!EmitOnly, DP!EmitOnlyFails, DP!Emit,
       DP!EmitFails, DP!PublisherCrash, DP!PublisherStart, DP!SubscribeConnects, DP!BindQueue,
       DP!Consume, DP!Deliver, DP!Handle, DP!HandleOk, DP!HandleErr, DP!Unparseable,
       DP!HandlerPanics, DP!Refuse, DP!LoopDies, DP!Ack, DP!AckFails, DP!StreamEnds,
       DP!Resubscribe, DP!ConnectionBreaks, DP!BrokerRestart, DP!Broker
<1>3. DP!HasId(job[p])
  BY <1>2 DEF SavedInv, DP!SeenInv
<1> QED BY <1>1, <1>2, <1>3

(* All that a service has been told of, or has saved, is stored.            *)
LEMMA ToldIsStored ==
  ASSUME Assumptions, DP!TypeOK, DP!SeenInv, SavedInv,
         NEW c \in Callers, NEW e \in ToldOf(c) \cup Saved(c)
  PROVE  e \in Events /\ DP!HasId(e)
<1>1. CASE e \in Saved(c)
  BY <1>1, ServiceAssumption DEF Saved, SavedInv, DP!TypeOK, DP!PublishersTypeOK
<1>2. CASE e \in ToldOf(c)
  <2>1. PICK n \in UNION {Messages(q) : q \in Watches[c]} :
          published[n].by = "save" /\ e = published[n].event
    BY <1>2 DEF ToldOf
  <2>2. n \in DOMAIN published
    BY <2>1, ServiceAssumption DEF Messages, DP!TypeOK, DP!SubscribersTypeOK
  <2>3. published[n] \in DP!Message
    BY <2>2, ElementOfSeq DEF DP!TypeOK, DP!BrokerTypeOK
  <2> QED BY <2>1, <2>2, <2>3 DEF DP!SeenInv, DP!FromSave, DP!Message
<1> QED BY <1>1, <1>2

(* What was known stays stored, and what becomes known is.                  *)
LEMMA KnownStep ==
  ASSUME Assumptions, DP!TypeOK, DP!SeenInv, SavedInv, KnownInv, [Next]_vars
  PROVE  KnownInv'
<1> DEFINE Stored(e) == \E row \in events' : IdOf[row] = IdOf[e]
<1>1. \A e : DP!HasId(e) => Stored(e)
  BY DP!StoreStep, DeliveryStep DEF Assumptions, DP!TypeOK, DP!HasId
<1>2. ASSUME NEW c \in Callers, NEW a \in Aggregators, Aggregate(c, a)
      PROVE  KnownInv'
  <2>1. \A e \in ToldOf(c) \cup Saved(c) : e \in Events /\ DP!HasId(e)
    BY ToldIsStored
  <2>2. knows' = [knows EXCEPT ![c] = ToldOf(c) \cup Saved(c)]
    BY <1>2 DEF Aggregate
  <2> QED BY <1>1, <2>1, <2>2 DEF KnownInv, DP!HasId
<1>3. CASE UNCHANGED knows
  BY <1>1, <1>3 DEF KnownInv, DP!HasId
<1> QED
  BY <1>2, <1>3 DEF Next, vars, CreateEvent, SaveInserts, SavePanics, SaveRefused,
                    EmitOnly, EmitOnlyFails, Delivers, AggregateGoesOn

(* What was known when a call began was not inserted behind it.            *)
FreshInv ==
  \A c \in Callers :
    /\ pc[c] \notin AP!InCall => behind[c] = {}
    /\ \A f \in behind[c], e \in knows[c] : IdOf[f] # IdOf[e]

LEMMA FreshInit == Init => FreshInv
BY DEF Init, A!Init, FreshInv

LEMMA FreshStep ==
  ASSUME AP!TypeOK, KnownInv, FreshInv, [Next]_vars
  PROVE  FreshInv'
<1> DEFINE Fresh(c) ==
      /\ pc[c] \notin AP!InCall => behind[c] = {}
      /\ \A f \in behind[c], e \in knows[c] : IdOf[f] # IdOf[e]
<1>0. /\ behind \in [Callers -> SUBSET created] /\ pc = [c \in Callers |-> pc[c]]
      /\ \A c \in Callers : Fresh(c)
  BY DEF AP!TypeOK, FreshInv
<1>1. ASSUME NEW e \in Events, AP!Save(e), UNCHANGED knows PROVE FreshInv'
  <2>1. UNCHANGED pc
    BY <1>1 DEF AP!Save
  <2>2. ASSUME NEW c \in Callers
        PROVE  \/ behind'[c] = behind[c]
               \/ /\ behind'[c] = behind[c] \cup {e}
                  /\ ~ AP!HasId(e) /\ pc[c] \in AP!InCall
    BY <1>1 DEF AP!Save, AP!Passed, AP!InCall
  <2>3. \A c \in Callers : \A k \in knows[c] : ~ AP!HasId(e) => IdOf[e] # IdOf[k]
    BY DEF KnownInv, DP!HasId, AP!HasId
  <2> QED BY <1>0, <1>1, <2>1, <2>2, <2>3 DEF FreshInv
<1>2. ASSUME NEW c \in Callers, NEW a \in Aggregators, Aggregate(c, a)
      PROVE  FreshInv'
  <2>1. /\ AP!CacheMiss(c, a) \/ AP!CacheHit(c, a) \/ AP!CacheUndecodable(c, a)
        /\ knows' = [knows EXCEPT ![c] = ToldOf(c) \cup Saved(c)]
    BY <1>2, AggregateIsAggregate DEF Aggregate
  <2>2. pc[c] \notin AP!InCall /\ UNCHANGED behind
    BY <2>1 DEF AP!CacheMiss, AP!CacheHit, AP!CacheUndecodable
  <2>3. \A d \in Callers \ {c} : pc'[d] = pc[d] /\ knows'[d] = knows[d]
    BY <1>0, <2>1 DEF AP!CacheMiss, AP!CacheHit, AP!CacheUndecodable, KnownInv
  <2>4. behind[c] = {}
    BY <1>0, <2>2
  <2> QED BY <1>0, <2>2, <2>3, <2>4 DEF FreshInv
<1>3. ASSUME NEW c \in Callers, AggregateGoesOn(c) PROVE FreshInv'
  <2>1. /\ \/ AP!ReadEvents(c) \/ AP!RowUndecodable(c)
           \/ AP!StartCacheSave(c) \/ AP!CacheSave(c) \/ AP!Fail(c)
        /\ UNCHANGED knows
    BY <1>3, CallIsCall DEF AggregateGoesOn
  <2>2. /\ \/ pc'[c] \in AP!InCall /\ behind'[c] = behind[c] /\ pc[c] \in AP!InCall
           \/ behind'[c] = {}
        /\ \A d \in Callers \ {c} : pc'[d] = pc[d] /\ behind'[d] = behind[d]
    BY <1>0, <2>1 DEF AP!ReadEvents, AP!RowUndecodable, AP!StartCacheSave, AP!CacheSave,
                      AP!Fail, AP!InCall
  <2> QED BY <1>0, <2>1, <2>2 DEF FreshInv
<1>4. ASSUME UNCHANGED <<pc, behind, knows>> PROVE FreshInv'
  BY <1>0, <1>4 DEF FreshInv
<1>5. \/ \E e \in Events : AP!Save(e) /\ UNCHANGED knows
      \/ \E c \in Callers, a \in Aggregators : Aggregate(c, a)
      \/ \E c \in Callers : AggregateGoesOn(c)
      \/ UNCHANGED <<pc, behind, knows>>
  BY SaveIsSave DEF Next, vars, aggregating, CreateEvent, A!CreateEvent, SaveInserts,
                    SavePanics, SaveRefused, EmitOnly, EmitOnlyFails, Delivers
<1> QED BY <1>1, <1>2, <1>3, <1>4, <1>5

(* KnownIsFound, whatever callers, publishers and subscribers there are:   *)
(* who has been told of an event by a save, or has saved it, has it in its *)
(* next aggregate, or it is one of the events that are late for its key.   *)
THEOREM ToldIsFound ==
  ASSUME Assumptions, AP!InjectiveKeys
  PROVE  Spec => []KnownIsFound
<1>1. Spec => AP!Spec /\ DP!Spec
  BY ServiceInits, AggregateStep, DeliveryStep, PTL DEF Spec, AP!Spec, DP!Spec
<1>2. AP!Spec => []AP!OnlyLateMissed
  BY AP!MissedOnlyWhenLate DEF Assumptions
<1>3. (AP!Spec => []AP!TypeOK) /\ (DP!Spec => []DP!TypeOK)
  BY AP!TypeCorrect, DP!TypeCorrect DEF Assumptions
<1>4. Init => DP!SeenInv /\ SavedInv /\ KnownInv /\ FreshInv
  BY ServiceInits, KnownInit, FreshInit, DP!SeenInit DEF Assumptions
<1>5. /\ AP!TypeOK /\ DP!TypeOK /\ DP!SeenInv /\ SavedInv /\ KnownInv /\ FreshInv
      /\ [Next]_vars
      => (DP!SeenInv /\ SavedInv /\ KnownInv /\ FreshInv)'
  BY DeliveryStep, SavedStep, KnownStep, FreshStep, DP!SeenStep DEF Assumptions
<1>6. KnownInv /\ FreshInv /\ AP!OnlyLateMissed => KnownIsFound
  <2> SUFFICES ASSUME KnownInv, FreshInv, AP!OnlyLateMissed, NEW c \in Callers,
                      pc[c] = "folded", NEW e \in knows[c], NEW row \in events,
                      IdOf[row] = IdOf[e], row \in Selects[QueryOf[aggregator[c]]]
               PROVE  \/ \E i \in DOMAIN acc[c] : acc[c][i] = row
                      \/ <<row, A!KeyOf(aggregator[c])>> \in late
    BY DEF KnownInv, KnownIsFound, DP!HasId
  <2>1. row \notin behind[c]
    BY DEF FreshInv
  <2> QED BY <2>1 DEF AP!OnlyLateMissed, AP!KeyOf, A!KeyOf, AP!Range
<1> QED BY <1>1, <1>2, <1>3, <1>4, <1>5, <1>6, PTL DEF Spec
================================================================================
