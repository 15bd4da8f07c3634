---------------------------- MODULE AtLeastOnceProofs ----------------------------
(***************************************************************************)
(* Delivery implements AtLeastOnce, for every set of publishers,           *)
(* subscribers, queues and events, and every number of sends and faults.   *)
(***************************************************************************)
EXTENDS DeliveryProofs

(* What the queues owe, as the refinement mapping of Promise has it.       *)
Owed == [q \in Queues |-> ready[q] \cup UnackedOn(q)]

(* What is on a wire goes by the name of its event, and what is in the     *)
(* stream of a consumer has not been forgotten by its queue.               *)
NamedInv == \A p \in Publishers : \A i \in DOMAIN wire[p] : Named(wire[p][i])

InboxInv ==
  \A s \in Subscribers : \A i \in DOMAIN inbox[s] : Accounted(QueueOf[s], inbox[s][i])

LEMMA NamedStep ==
  ASSUME TypeOK, NamedInv, [Next]_vars
  PROVE  NamedInv'
<1> SUFFICES ASSUME NEW p \in Publishers, NEW i \in DOMAIN wire'[p]
             PROVE  Named(wire'[p][i])
  BY DEF NamedInv, Named
<1> QED BY WireGrows DEF NamedInv

(* What a consumer has in its stream was there, or was ready and is pushed.*)
LEMMA InboxGrows ==
  ASSUME TypeOK, [Next]_vars, NEW s \in Subscribers, NEW i \in DOMAIN inbox'[s]
  PROVE  \/ \E j \in DOMAIN inbox[s] : inbox'[s][i] = inbox[s][j]
         \/ inbox'[s][i] \in ready[QueueOf[s]]
<1> DEFINE Goal == \/ \E j \in DOMAIN inbox[s] : inbox'[s][i] = inbox[s][j]
                   \/ inbox'[s][i] \in ready[QueueOf[s]]
<1> SUFFICES Goal
  OBVIOUS
<1>0. /\ inbox \in [Subscribers -> Seq(DOMAIN published)]
      /\ ready \in [Queues -> SUBSET DOMAIN published]
  BY DEF TypeOK, BrokerTypeOK, SubscribersTypeOK
<1>1. CASE inbox'[s] = inbox[s]
  BY <1>1
<1>2. CASE inbox'[s] = <<>>
  BY <1>2
<1>3. ASSUME NEW n \in ready[QueueOf[s]], inbox'[s] = Append(inbox[s], n) PROVE Goal
  <2>1. n \in DOMAIN published
    BY <1>0, AmqpAssumption
  <2>2. /\ Len(inbox[s]) \in Nat /\ DOMAIN inbox[s] = 1 .. Len(inbox[s])
        /\ DOMAIN inbox'[s] = 1 .. Len(inbox[s]) + 1
        /\ \A j \in 1 .. Len(inbox[s]) : inbox'[s][j] = inbox[s][j]
        /\ inbox'[s][Len(inbox[s]) + 1] = n
    BY <1>0, <1>3, <2>1, AppendProperties, LenProperties
  <2> QED BY <2>2
<1>4. ASSUME inbox[s] # <<>>, inbox'[s] = Tail(inbox[s]) PROVE Goal
  <2>1. /\ Len(inbox[s]) \in Nat /\ DOMAIN inbox[s] = 1 .. Len(inbox[s])
        /\ DOMAIN inbox'[s] = 1 .. Len(inbox[s]) - 1
        /\ \A j \in 1 .. Len(inbox[s]) - 1 : inbox'[s][j] = inbox[s][j + 1]
    BY <1>0, <1>4, HeadTailProperties, LenProperties
  <2>2. i + 1 \in DOMAIN inbox[s] /\ inbox'[s][i] = inbox[s][i + 1]
    BY <2>1
  <2> QED BY <2>2
<1>5. ASSUME NEW r \in Subscribers, Deliver(r) PROVE Goal
  <2>1. PICK n \in ready[QueueOf[r]] : inbox' = [inbox EXCEPT ![r] = Append(inbox[r], n)]
    BY <1>5 DEF Deliver
  <2> QED BY <1>0, <1>1, <1>3, <2>1
<1>6. ASSUME NEW r \in Subscribers, Refuse(r) PROVE Goal
  <2>1. inbox' = [inbox EXCEPT ![r] = Tail(inbox[r])] /\ inbox[r] # <<>>
    BY <1>6 DEF Refuse, Taken
  <2> QED BY <1>0, <1>1, <1>4, <2>1
<1>7. ASSUME NEW r \in Subscribers, Ack(r) PROVE Goal
  <2>1. inbox' = [inbox EXCEPT ![r] = Tail(inbox[r])] /\ inbox[r] # <<>>
    BY <1>7 DEF Ack, TypeOK, SubscribersTypeOK
  <2> QED BY <1>0, <1>1, <1>4, <2>1
<1>8. ASSUME NEW r \in Subscribers, LoopDies(r) \/ Resubscribe(r) PROVE Goal
  <2>1. inbox' = [inbox EXCEPT ![r] = <<>>]
    BY <1>8 DEF LoopDies, Resubscribe
  <2>2. inbox'[s] = <<>> \/ inbox'[s] = inbox[s]
    BY <1>0, <2>1, EmptyFor
  <2> QED BY <1>1, <1>2, <2>2
<1>9. \/ inbox' = inbox
      \/ \E r \in Subscribers :
           Deliver(r) \/ Refuse(r) \/ Ack(r) \/ LoopDies(r) \/ Resubscribe(r)
  BY DEF Next, vars, subscribing, SaveInserts, SaveRefused, SavePanics, EmitOnly,
         EmitOnlyFails, Emit, EmitFails, PublisherCrash, PublisherStart,
         SubscribeConnects, BindQueue, Consume, Handle, HandleOk, HandleErr,
         Unparseable, HandlerPanics, AckFails, StreamEnds, ConnectionBreaks,
         BrokerRestart, Broker
<1> HIDE DEF Goal
<1> QED BY <1>1, <1>5, <1>6, <1>7, <1>8, <1>9

LEMMA InboxStep ==
  ASSUME TypeOK, AckInv, InboxInv, [Next]_vars
  PROVE  InboxInv'
<1> SUFFICES ASSUME NEW s \in Subscribers, NEW i \in DOMAIN inbox'[s],
                    NEW n, n = inbox'[s][i]
             PROVE  Accounted(QueueOf[s], n)'
  BY DEF InboxInv, Accounted
<1>1. Accounted(QueueOf[s], n)
  BY InboxGrows DEF InboxInv, Accounted
<1>2. QueueOf[s] \in Queues
  BY AmqpAssumption
<1> QED BY <1>1, <1>2, StaysAccounted
--------------------------------------------------------------------------------
(* Every step is a step of the promise or changes nothing that it is about.*)

(* What is invisible: the queues owe what they owed.                       *)
Invisible == UNCHANGED <<events, published, bound, Owed, handled, lost>>

LEMMA PromiseInit == Init => Promise!Init
<1> SUFFICES ASSUME Init PROVE Promise!Init
  OBVIOUS
<1>1. \A q \in Queues : ready[q] \cup UnackedOn(q) = {}
  BY DEF Init, AmqpInit, UnackedOn, Consumers
<1> QED BY <1>1 DEF Init, AmqpInit, Promise!Init

LEMMA StoresOrNot ==
  ASSUME NEW e \in Events, Insert(e), UNCHANGED <<amqp, handled>>
  PROVE  Promise!Next \/ Invisible
<1>0. UNCHANGED <<published, bound, ready, unacked, handled, lost>>
  BY DEF amqp
<1>1. Owed' = Owed
  BY <1>0 DEF Owed, UnackedOn
<1>2. CASE HasId(e)
  BY <1>0, <1>1, <1>2 DEF Insert, Invisible
<1>3. CASE ~ HasId(e)
  <2>1. Promise!Store(e)
    BY <1>0, <1>1, <1>3 DEF Insert, HasId, Promise!Store, Promise!IsStored, Owed
  <2> QED BY <2>1 DEF Promise!Next
<1> QED BY <1>2, <1>3

LEMMA TakingAnnounces ==
  ASSUME TypeOK, SeenInv, NamedInv, NEW p \in Publishers, BrokerTakes(p),
         UNCHANGED <<events, handled>>
  PROVE  Promise!Next
<1>0. PICK m : m = Head(wire[p])
  OBVIOUS
<1>1. /\ wire[p] \in Seq(Message) /\ wire[p] # <<>>
      /\ 1 \in DOMAIN wire[p] /\ m = wire[p][1] /\ m \in Message
  <2>1. wire[p] \in Seq(Message) /\ wire[p] # <<>>
    BY DEF BrokerTakes, TypeOK, BrokerTypeOK
  <2> QED BY <1>0, <2>1, HeadTailProperties, LenProperties, EmptySeq
<1>2. m.name = NameOf[m.event] /\ (m.by = "save" => HasId(m.event))
  BY <1>1 DEF NamedInv, Named, SeenInv, FromSave
<1>3. /\ published' = Append(published, m)
      /\ ready' = [q \in Queues |->
                     IF q \in bound /\ BoundTo[q] = m.name
                     THEN ready[q] \cup {Len(published) + 1}
                     ELSE ready[q]]
      /\ UNCHANGED <<bound, unacked, lost>>
  BY <1>0 DEF BrokerTakes
<1>4. m \in Promise!Messages
  BY <1>1, <1>2 DEF Promise!Messages, Message
<1>5. m.by = "save" => Promise!IsStored(m.event)
  BY <1>2 DEF HasId, Promise!IsStored
<1>6. Owed' = [q \in Queues |-> IF q \in bound /\ BoundTo[q] = m.name
                                THEN Owed[q] \cup {Len(published) + 1}
                                ELSE Owed[q]]
  BY <1>3 DEF Owed, UnackedOn
<1>7. Promise!Announce(m)
  BY <1>2, <1>3, <1>5, <1>6 DEF Promise!Announce, Owed
<1> QED BY <1>4, <1>7 DEF Promise!Next

LEMMA BindingBinds ==
  ASSUME NEW s \in Subscribers, BindQueue(s)
  PROVE  Promise!Next
<1>1. /\ bound' = bound \cup {QueueOf[s]}
      /\ UNCHANGED <<events, published, ready, unacked, handled, lost>>
  BY DEF BindQueue, publishing
<1>2. QueueOf[s] \in Queues
  BY AmqpAssumption
<1>3. Promise!Bind(QueueOf[s])
  BY <1>1 DEF Promise!Bind, UnackedOn
<1> QED BY <1>2, <1>3 DEF Promise!Next

(* A push takes a message from the queue to a consumer of the queue.       *)
LEMMA PushInvisible ==
  ASSUME TypeOK, NEW s \in Subscribers, Deliver(s)
  PROVE  Invisible
<1>0. /\ ready \in [Queues -> SUBSET DOMAIN published]
      /\ unacked \in [Subscribers -> SUBSET DOMAIN published]
  BY DEF TypeOK, BrokerTypeOK
<1>1. PICK n \in ready[QueueOf[s]] :
        /\ ready' = [ready EXCEPT ![QueueOf[s]] = ready[QueueOf[s]] \ {n}]
        /\ unacked' = [unacked EXCEPT ![s] = unacked[s] \cup {n}]
  BY DEF Deliver, Push
<1>2. UNCHANGED <<events, published, bound, handled, lost>>
  BY DEF Deliver, Push
<1>3. ASSUME NEW q \in Queues
      PROVE  ready'[q] \cup UnackedOn(q)' = ready[q] \cup UnackedOn(q)
  <2>1. CASE q = QueueOf[s]
    <3>1. ready'[q] = ready[q] \ {n} /\ n \in ready[q]
      BY <1>0, <1>1, <2>1
    <3>2. UnackedOn(q)' = UnackedOn(q) \cup {n}
      <4>1. s \in Consumers(q)
        BY <2>1 DEF Consumers
      <4>2. \A r \in Subscribers : unacked'[r] = unacked[r] \cup (IF r = s THEN {n} ELSE {})
        BY <1>0, <1>1
      <4> QED BY <4>1, <4>2 DEF UnackedOn, Consumers
    <3> QED BY <3>1, <3>2
  <2>2. CASE q # QueueOf[s]
    <3>1. ready'[q] = ready[q]
      BY <1>0, <1>1, <2>2
    <3>2. \A r \in Consumers(q) : unacked'[r] = unacked[r]
      BY <1>0, <1>1, <2>2 DEF Consumers
    <3> QED BY <3>1, <3>2 DEF UnackedOn, Consumers
  <2> QED BY <2>1, <2>2
<1> QED BY <1>2, <1>3 DEF Invisible, Owed

LEMMA HandlingHandles ==
  ASSUME TypeOK, InboxInv, NEW s \in Subscribers, HandleOk(s)
  PROVE  Promise!Next
<1>0. PICK q, n : q = QueueOf[s] /\ n = Head(inbox[s])
  OBVIOUS
<1>1. q \in Queues
  BY <1>0, AmqpAssumption
<1>2. 1 \in DOMAIN inbox[s] /\ n = inbox[s][1] /\ n \in DOMAIN published
  <2>1. inbox[s] \in Seq(DOMAIN published) /\ inbox[s] # <<>>
    BY DEF HandleOk, Taken, TypeOK, SubscribersTypeOK
  <2> QED BY <1>0, <2>1, HeadTailProperties, LenProperties, EmptySeq
<1>3. n \in ready[q] \cup UnackedOn(q) \cup handled[q] \cup lost[q]
  BY <1>0, <1>2 DEF InboxInv, Accounted
<1>4. /\ handled' = [handled EXCEPT ![q] = handled[q] \cup {n}]
      /\ UNCHANGED <<events, published, bound, ready, unacked, lost>>
  BY <1>0 DEF HandleOk, amqp
<1>5. Promise!Handle(q, n)
  BY <1>1, <1>3, <1>4 DEF Promise!Handle, UnackedOn
<1> QED BY <1>1, <1>2, <1>5 DEF Promise!Next

(* An ack that the broker receives settles a message that a handler has    *)
(* handled, unless another delivery of it is still out.                    *)
LEMMA AckSettles ==
  ASSUME TypeOK, AckInv, NEW s \in Subscribers, BrokerAcked(s), UNCHANGED <<events, handled>>
  PROVE  Promise!Next \/ Invisible
<1>0. /\ unacked \in [Subscribers -> SUBSET DOMAIN published]
      /\ acks[s] \subseteq unacked[s]
  BY DEF TypeOK, BrokerTypeOK
<1>1. PICK n \in acks[s] : unacked' = [unacked EXCEPT ![s] = unacked[s] \ {n}]
  BY DEF BrokerAcked
<1>2. PICK q : q = QueueOf[s]
  OBVIOUS
<1>3. UNCHANGED <<published, bound, ready, lost>>
  BY DEF BrokerAcked
<1>4. /\ q \in Queues /\ s \in Consumers(q)
      /\ n \in UnackedOn(q) /\ n \in handled[q] /\ n \in DOMAIN published
  BY <1>0, <1>1, <1>2, AmqpAssumption DEF AckInv, UnackedOn, Consumers
<1>5. ASSUME NEW p \in Queues, p # q PROVE UnackedOn(p)' = UnackedOn(p)
  <2>1. \A r \in Consumers(p) : unacked'[r] = unacked[r]
    BY <1>0, <1>1, <1>2, <1>5 DEF Consumers
  <2> QED BY <2>1 DEF UnackedOn, Consumers
<1>6. UnackedOn(q)' \in {UnackedOn(q), UnackedOn(q) \ {n}}
  <2>1. \A r \in Subscribers : unacked'[r] = unacked[r] \ (IF r = s THEN {n} ELSE {})
    BY <1>0, <1>1
  <2>2. UnackedOn(q)' \cup {n} = UnackedOn(q)
    BY <1>0, <1>1, <1>4, <2>1 DEF UnackedOn, Consumers
  <2> QED BY <1>4, <2>2
<1>7. CASE ready[q] \cup UnackedOn(q)' = ready[q] \cup UnackedOn(q)
  BY <1>3, <1>5, <1>7 DEF Invisible, Owed
<1>8. CASE ready[q] \cup UnackedOn(q)' = (ready[q] \cup UnackedOn(q)) \ {n}
  <2>1. Owed' = [Owed EXCEPT ![q] = Owed[q] \ {n}]
    BY <1>3, <1>4, <1>5, <1>8 DEF Owed
  <2>2. n \in Owed[q] \cap handled[q]
    BY <1>4 DEF Owed
  <2>3. Promise!Settle(q, n)
    BY <1>3, <2>1, <2>2 DEF Promise!Settle, Owed
  <2> QED BY <1>4, <2>3 DEF Promise!Next
<1> QED BY <1>6, <1>7, <1>8

(* What a connection that goes away had not acked is owed as before.       *)
LEMMA DisconnectInvisible ==
  ASSUME TypeOK, NEW x \in Publishers \cup Subscribers, Disconnect(x),
         UNCHANGED <<events, handled>>
  PROVE  Invisible
<1>0. /\ ready \in [Queues -> SUBSET DOMAIN published]
      /\ unacked \in [Subscribers -> SUBSET DOMAIN published]
  BY DEF TypeOK, BrokerTypeOK
<1>1. UNCHANGED <<published, bound, lost>>
  BY DEF Disconnect
<1>2. CASE x \in Publishers
  BY <1>1, <1>2 DEF Disconnect, Invisible, Owed, UnackedOn
<1>3. CASE x \notin Publishers
  <2>1. /\ ready' = [ready EXCEPT ![QueueOf[x]] = ready[QueueOf[x]] \cup unacked[x]]
        /\ unacked' = [unacked EXCEPT ![x] = {}]
    BY <1>3 DEF Disconnect
  <2>2. ASSUME NEW q \in Queues
        PROVE  ready'[q] \cup UnackedOn(q)' = ready[q] \cup UnackedOn(q)
    <3>1. CASE q = QueueOf[x]
      <4>1. ready'[q] = ready[q] \cup unacked[x]
        BY <1>0, <2>1, <3>1
      <4>2. \A r \in Subscribers : unacked'[r] = IF r = x THEN {} ELSE unacked[r]
        BY <1>0, <2>1
      <4>3. x \in Consumers(q)
        BY <1>3, <3>1 DEF Consumers
      <4>4. UnackedOn(q)' \cup unacked[x] = UnackedOn(q)
        BY <4>2, <4>3 DEF UnackedOn, Consumers
      <4> QED BY <4>1, <4>4
    <3>2. CASE q # QueueOf[x]
      <4>1. ready'[q] = ready[q]
        BY <1>0, <2>1, <3>2
      <4>2. \A r \in Consumers(q) : unacked'[r] = unacked[r]
        BY <1>0, <2>1, <3>2 DEF Consumers
      <4> QED BY <4>1, <4>2 DEF UnackedOn, Consumers
    <3> QED BY <3>1, <3>2
  <2> QED BY <1>1, <2>2 DEF Invisible, Owed
<1> QED BY <1>2, <1>3

LEMMA RestartCancels ==
  ASSUME BrokerRestart
  PROVE  Promise!Next
<1>1. /\ ready' = [q \in Queues |-> {}]
      /\ unacked' = [s \in Subscribers |-> {}]
      /\ lost' = [q \in Queues |-> lost[q] \cup ready[q] \cup UnackedOn(q)]
      /\ UNCHANGED <<events, published, bound, handled>>
  BY DEF BrokerRestart, BrokerRestarts, subscribing
<1>2. \A q \in Queues : ready'[q] \cup UnackedOn(q)' = {}
  BY <1>1 DEF UnackedOn, Consumers
<1>3. lost' = [q \in Queues |-> lost[q] \cup (ready[q] \cup UnackedOn(q))]
  BY <1>1
<1>4. Promise!Cancel
  BY <1>1, <1>2, <1>3 DEF Promise!Cancel
<1> QED BY <1>4 DEF Promise!Next

LEMMA NothingMoves ==
  ASSUME UNCHANGED <<events, published, bound, ready, unacked, handled, lost>>
  PROVE  Invisible
BY DEF Invisible, Owed, UnackedOn

LEMMA PromiseStep ==
  ASSUME TypeOK, SeenInv, NamedInv, AckInv, InboxInv, [Next]_vars
  PROVE  [Promise!Next]_(Promise!vars)
<1> DEFINE Still == UNCHANGED <<events, published, bound, ready, unacked, handled, lost>>
<1>1. ASSUME NEW p \in Publishers, NEW e \in Events,
             \/ SaveInserts(p, e) \/ SaveRefused(p, e) \/ SavePanics(p, e)
             \/ EmitOnly(p, e) \/ EmitOnlyFails(p, e)
      PROVE  Promise!Next \/ Invisible
  <2>1. Still \/ (Insert(e) /\ UNCHANGED <<amqp, handled>>)
    BY <1>1 DEF SaveInserts, SaveRefused, SavePanics, EmitOnly, EmitOnlyFails, amqp,
                subscribing
  <2> QED BY <2>1, NothingMoves, StoresOrNot
<1>2. ASSUME NEW p \in Publishers,
             Emit(p) \/ EmitFails(p) \/ PublisherCrash(p) \/ PublisherStart(p)
      PROVE  Promise!Next \/ Invisible
  <2>1. Still \/ (Disconnect(p) /\ UNCHANGED <<events, handled>>)
    BY <1>2 DEF Emit, EmitFails, PublisherCrash, PublisherStart, amqp, subscribing
  <2> QED BY <2>1, NothingMoves, DisconnectInvisible
<1>3. ASSUME NEW s \in Subscribers,
             \/ SubscribeConnects(s) \/ Consume(s) \/ HandleErr(s) \/ Unparseable(s)
             \/ HandlerPanics(s) \/ Ack(s) \/ AckFails(s) \/ StreamEnds(s)
      PROVE  Invisible
  <2>1. Still
    BY <1>3 DEF SubscribeConnects, Consume, HandleErr, Unparseable, Refuse,
                HandlerPanics, AckFails, StreamEnds, LoopDies, Ack, amqp
  <2> QED BY <2>1, NothingMoves
<1>4. ASSUME NEW s \in Subscribers, BindQueue(s) \/ Deliver(s) \/ HandleOk(s)
      PROVE  Promise!Next \/ Invisible
  BY <1>4, BindingBinds, PushInvisible, HandlingHandles
<1>5. ASSUME NEW x \in Publishers \cup Subscribers,
             ConnectionBreaks(x) \/ (x \in Subscribers /\ Resubscribe(x))
      PROVE  Invisible
  <2>1. Disconnect(x) /\ UNCHANGED <<events, handled>>
    BY <1>5 DEF ConnectionBreaks, Resubscribe, subscribing
  <2> QED BY <2>1, DisconnectInvisible
<1>6. ASSUME BrokerRestart PROVE Promise!Next
  BY <1>6, RestartCancels
<1>7. ASSUME Broker PROVE Promise!Next \/ Invisible
  <2>1. /\ UNCHANGED <<events, handled>>
        /\ \/ \E p \in Publishers : BrokerTakes(p)
           \/ \E s \in Subscribers : BrokerAcked(s)
    BY <1>7 DEF Broker, BrokerStep, subscribing
  <2> QED BY <2>1, TakingAnnounces, AckSettles
<1>8. ASSUME UNCHANGED vars PROVE Invisible
  <2>1. Still
    BY <1>8 DEF vars, amqp, subscribing
  <2> QED BY <2>1, NothingMoves
<1>9. Promise!Next \/ Invisible
  BY <1>1, <1>2, <1>3, <1>4, <1>5, <1>6, <1>7, <1>8 DEF Next, Handle
<1>10. Invisible => UNCHANGED Promise!vars
  BY DEF Invisible, Owed, Promise!vars
<1> QED BY <1>9, <1>10

(* Saving, emitting and subscribing implement delivery at least once: rows *)
(* come before announcements, and a queue that is bound is owed every      *)
(* message of its name until a handler of its service has returned Ok,     *)
(* whatever stops or breaks but the broker (store.rs, amqp.rs).            *)
THEOREM AtLeastOnceDelivered == Spec => DeliversAtLeastOnce
<1> DEFINE Inv == SeenInv /\ NamedInv /\ BindingInv /\ AckInv /\ InboxInv
<1>1. Init => Inv
  BY SeenInit, LossInit DEF Init, AmqpInit, NamedInv, InboxInv
<1>2. TypeOK /\ Inv /\ [Next]_vars => Inv'
  BY SeenStep, NamedStep, BindingStep, AckStep, InboxStep
<1>3. TypeOK /\ Inv /\ [Next]_vars => [Promise!Next]_(Promise!vars)
  BY PromiseStep
<1> HIDE DEF Inv
<1> QED BY <1>1, <1>2, <1>3, PromiseInit, TypeCorrect, PTL
        DEF Spec, DeliversAtLeastOnce, Promise!Spec
================================================================================
