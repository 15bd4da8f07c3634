--------------------------- MODULE AggregationProofs ---------------------------
(***************************************************************************)
(* Proofs about Aggregation, for every set of events, queries, aggregators *)
(* and callers and every bound on the clock.                               *)
(***************************************************************************)
EXTENDS Aggregation, FiniteSetTheorems, SequenceTheorems, TLAPS

--------------------------------------------------------------------------------
(* Lists of events.                                                        *)

(* What the list s \o t is made of.                                        *)
LEMMA RangeConcat ==
  ASSUME NEW S, NEW s \in Seq(S), NEW t \in Seq(S)
  PROVE  /\ s \o t \in Seq(S)
         /\ Range(s \o t) = Range(s) \cup Range(t)
<1>1. /\ s \o t \in Seq(S)
      /\ Len(s \o t) = Len(s) + Len(t)
      /\ \A i \in 1 .. Len(s) + Len(t) :
           (s \o t)[i] = IF i =< Len(s) THEN s[i] ELSE t[i - Len(s)]
  BY ConcatProperties
<1>2. /\ Len(s) \in Nat /\ DOMAIN s = 1 .. Len(s)
      /\ Len(t) \in Nat /\ DOMAIN t = 1 .. Len(t)
      /\ DOMAIN (s \o t) = 1 .. Len(s) + Len(t)
  BY <1>1, LenProperties
<1>3. ASSUME NEW x \in Range(s \o t) PROVE x \in Range(s) \cup Range(t)
  <2>1. PICK i \in 1 .. Len(s) + Len(t) : (s \o t)[i] = x
    BY <1>2 DEF Range
  <2>2. CASE i =< Len(s)
    <3>1. i \in DOMAIN s /\ x = s[i]
      BY <1>1, <1>2, <2>1, <2>2
    <3> QED BY <3>1 DEF Range
  <2>3. CASE ~ (i =< Len(s))
    <3>1. i - Len(s) \in DOMAIN t /\ x = t[i - Len(s)]
      BY <1>1, <1>2, <2>1, <2>3
    <3> QED BY <3>1 DEF Range
  <2> QED BY <2>2, <2>3
<1>4. ASSUME NEW x \in Range(s) PROVE x \in Range(s \o t)
  <2>1. PICK i \in 1 .. Len(s) : s[i] = x
    BY <1>2 DEF Range
  <2>2. i \in DOMAIN (s \o t) /\ (s \o t)[i] = x
    BY <1>1, <1>2, <2>1
  <2> QED BY <2>2 DEF Range
<1>5. ASSUME NEW x \in Range(t) PROVE x \in Range(s \o t)
  <2>1. PICK i \in 1 .. Len(t) : t[i] = x
    BY <1>2 DEF Range
  <2>2. i + Len(s) \in 1 .. Len(s) + Len(t) /\ (s \o t)[i + Len(s)] = x
    BY <1>1, <1>2, <2>1
  <2> QED BY <1>2, <2>2 DEF Range
<1> QED BY <1>1, <1>3, <1>4, <1>5

(* A list followed by a list of later events is in order when both are.    *)
LEMMA ConcatOnceInOrder ==
  ASSUME NEW s \in Seq(Events), NEW t \in Seq(Events),
         time \in [Events -> Int],
         OnceInOrder(s), OnceInOrder(t),
         \A e \in Range(s), f \in Range(t) : time[e] < time[f]
  PROVE  OnceInOrder(s \o t)
<1> DEFINE st == s \o t
<1>1. /\ Len(st) = Len(s) + Len(t)
      /\ \A i \in 1 .. Len(s) + Len(t) :
           st[i] = IF i =< Len(s) THEN s[i] ELSE t[i - Len(s)]
      /\ st \in Seq(Events)
  BY ConcatProperties
<1>2. /\ Len(s) \in Nat /\ DOMAIN s = 1 .. Len(s)
      /\ Len(t) \in Nat /\ DOMAIN t = 1 .. Len(t)
      /\ DOMAIN st = 1 .. Len(s) + Len(t)
  BY <1>1, LenProperties
<1> SUFFICES ASSUME NEW i \in DOMAIN st, NEW j \in DOMAIN st, i < j
             PROVE  st[i] # st[j] /\ time[st[i]] =< time[st[j]]
  BY DEF OnceInOrder
<1> HIDE DEF st
<1>3. CASE j =< Len(s)
  <2>1. i \in DOMAIN s /\ j \in DOMAIN s /\ st[i] = s[i] /\ st[j] = s[j]
    BY <1>1, <1>2, <1>3
  <2> QED BY <2>1 DEF OnceInOrder
<1>4. CASE i > Len(s)
  <2> DEFINE k == i - Len(s)
             l == j - Len(s)
  <2>0. k \in 1 .. Len(t) /\ l \in 1 .. Len(t) /\ k < l
    BY <1>2, <1>4
  <2>1. k \in DOMAIN t /\ l \in DOMAIN t /\ k < l /\ st[i] = t[k] /\ st[j] = t[l]
    <3>1. i \in 1 .. Len(s) + Len(t) /\ j \in 1 .. Len(s) + Len(t)
      BY <1>2
    <3>2. ~ (i =< Len(s)) /\ ~ (j =< Len(s))
      BY <1>2, <1>4, <3>1
    <3>3. st[i] = t[k] /\ st[j] = t[l]
      BY <1>1, <3>1, <3>2
    <3> QED BY <1>2, <2>0, <3>3
  <2> HIDE DEF k, l
  <2> QED BY <2>1 DEF OnceInOrder
<1>5. CASE i =< Len(s) /\ j > Len(s)
  <2> DEFINE l == j - Len(s)
  <2>1. i \in DOMAIN s /\ l \in DOMAIN t /\ st[i] = s[i] /\ st[j] = t[l]
    BY <1>1, <1>2, <1>5
  <2> HIDE DEF l
  <2>2. st[i] \in Range(s) /\ st[j] \in Range(t)
    BY <2>1 DEF Range
  <2>3. st[i] \in Events /\ st[j] \in Events
    BY <1>1, <1>2, ElementOfSeq
  <2>4. time[st[i]] < time[st[j]] /\ time[st[i]] \in Int /\ time[st[j]] \in Int
    BY <2>2, <2>3
  <2> QED BY <2>4
<1> QED BY <1>2, <1>3, <1>4, <1>5

(* The empty list, T::default().                                           *)
LEMMA EmptyList ==
  /\ <<>> \in Aggregates
  /\ Range(<<>>) = {}
  /\ OnceInOrder(<<>>)
BY DEF Range, OnceInOrder, Aggregates

(* A caller whose aggregate is reset.                                      *)
LEMMA Reset ==
  ASSUME TypeOK, NEW c \in Callers, acc' = [acc EXCEPT ![c] = <<>>]
  PROVE  /\ acc' \in [Callers -> Aggregates]
         /\ acc'[c] = <<>>
         /\ \A d \in Callers \ {c} : acc'[d] = acc[d]
<1> DEFINE empty == <<>>
<1>1. empty \in Aggregates
  BY EmptyList
<1>2. acc' = [acc EXCEPT ![c] = empty]
  OBVIOUS
<1> HIDE DEF empty
<1>3. /\ acc' \in [Callers -> Aggregates]
      /\ acc'[c] = empty
      /\ \A d \in Callers \ {c} : acc'[d] = acc[d]
  BY <1>1, <1>2 DEF TypeOK
<1> QED BY <1>3 DEF empty

(* What PgStoreAdapter::read returns: the rows of S, once each, sorted.    *)
LEMMA OrderedByRows ==
  ASSUME NEW S \in SUBSET Events, NEW rows \in OrderedBy(S, time)
  PROVE  /\ rows \in Seq(Events)
         /\ Range(rows) = S
         /\ OnceInOrder(rows)
<1>1. Cardinality(S) \in Nat
  BY PgStoreAssumption, FS_Subset, FS_CardinalityType
<1>2. /\ rows \in [1 .. Cardinality(S) -> S]
      /\ \A e \in S : \E i \in 1 .. Cardinality(S) : rows[i] = e
      /\ \A i, j \in 1 .. Cardinality(S) :
           i < j => rows[i] # rows[j] /\ time[rows[i]] =< time[rows[j]]
  BY DEF OrderedBy
<1>3. rows \in Seq(Events)
  BY <1>1, <1>2, SeqDef
<1>4. Range(rows) = S
  BY <1>2 DEF Range
<1>5. OnceInOrder(rows)
  BY <1>2 DEF OnceInOrder
<1> QED BY <1>3, <1>4, <1>5

--------------------------------------------------------------------------------
(* Type correctness.                                                       *)

(* TypeOK, with UniqueIds and UniqueKeys in it, is inductive by itself.    *)
LEMMA TypeInit == Init => TypeOK
<1> SUFFICES ASSUME Init PROVE TypeOK
  OBVIOUS
<1> USE DEF Init
<1>1. UniqueIds /\ UniqueKeys
  BY DEF UniqueIds, UniqueKeys
<1>2. acc \in [Callers -> Aggregates]
  BY EmptyList
<1>3. clock \in 0 .. MaxClock
  BY AggregationAssumption
<1> QED BY <1>1, <1>2, <1>3 DEF TypeOK, InCall

(* A cache write leaves one well-typed row for its key.                    *)
LEMMA UpsertTyped ==
  ASSUME TypeOK, NEW key \in Keys, NEW a \in Aggregators,
         NEW value \in Aggregates, NEW now \in Int,
         CacheUpsert(key, a, value, now)
  PROVE  aggregate_cache' \subseteq CacheRows(Aggregates) /\ UniqueKeys'
BY DEF TypeOK, CacheUpsert, CacheRows, UniqueKeys

LEMMA TypeStep == TypeOK /\ [Next]_vars => TypeOK'
<1> SUFFICES ASSUME TypeOK, [Next]_vars PROVE TypeOK'
  OBVIOUS
<1> USE AggregationAssumption
<1>1. ASSUME NEW e \in Events, CreateEvent(e) PROVE TypeOK'
  <2>1. created' \subseteq Events /\ events' \subseteq created'
        /\ late' \subseteq created' \X Keys /\ behind' \in [Callers -> SUBSET created']
    BY <1>1 DEF TypeOK, CreateEvent
  <2>2. clock' \in 0 .. MaxClock /\ time' \in [Events -> Int]
    BY <1>1 DEF TypeOK, CreateEvent
  <2>3. UniqueIds' /\ UniqueKeys'
    BY <1>1 DEF TypeOK, CreateEvent, UniqueIds, UniqueKeys
  <2> QED BY <1>1, <2>1, <2>2, <2>3 DEF TypeOK, CreateEvent
<1>2. ASSUME NEW e \in Events, Save(e) PROVE TypeOK'
  <2>1. events' \subseteq created' /\ UniqueIds'
    BY <1>2 DEF TypeOK, Save, Insert, HasId, UniqueIds
  <2>2. late' \subseteq created' \X Keys /\ behind' \in [Callers -> SUBSET created']
    BY <1>2 DEF TypeOK, Save
  <2>3. UniqueKeys'
    BY <1>2 DEF TypeOK, Save, UniqueKeys
  <2> QED BY <1>2, <2>1, <2>2, <2>3 DEF TypeOK, Save
<1>3. ASSUME NEW c \in Callers, NEW a \in Aggregators,
             CacheMiss(c, a) \/ CacheHit(c, a) \/ CacheUndecodable(c, a)
      PROVE  TypeOK'
  <2>1. UNCHANGED <<events, aggregate_cache, clock, created, time, stamp, behind, late>>
    BY <1>3 DEF CacheMiss, CacheHit, CacheUndecodable
  <2>2. UniqueIds' /\ UniqueKeys'
    BY <2>1 DEF TypeOK, UniqueIds, UniqueKeys
  <2>3. acc' \in [Callers -> Aggregates] /\ since' \in [Callers -> SUBSET Int]
    <3>1. CASE CacheMiss(c, a) \/ CacheUndecodable(c, a)
      <4>1. acc' \in [Callers -> Aggregates]
        BY <3>1, Reset DEF CacheMiss, CacheUndecodable
      <4>2. since' \in [Callers -> SUBSET Int]
        BY <3>1 DEF TypeOK, CacheMiss, CacheUndecodable
      <4> QED BY <4>1, <4>2
    <3>2. CASE CacheHit(c, a)
      BY <3>2 DEF TypeOK, CacheHit, CacheRead, CacheRows
    <3> QED BY <1>3, <3>1, <3>2
  <2>4. /\ pc' \in [Callers -> InCall \cup {"idle", "returned", "failed"}]
        /\ aggregator' \in [Callers -> Aggregators]
    BY <1>3 DEF TypeOK, CacheMiss, CacheHit, CacheUndecodable, InCall
  <2> QED BY <2>1, <2>2, <2>3, <2>4 DEF TypeOK
<1>4. ASSUME NEW c \in Callers, ReadEvents(c) PROVE TypeOK'
  <2>1. PICK rows \in Read(QueryOf[aggregator[c]], time, since[c]) :
          acc' = [acc EXCEPT ![c] = acc[c] \o rows]
    BY <1>4 DEF ReadEvents
  <2>2. rows \in Seq(Events)
    BY OrderedByRows, PgStoreAssumption DEF TypeOK, Read, Matching
  <2>3. acc[c] \o rows \in Aggregates
    BY <2>2, RangeConcat DEF TypeOK, Aggregates
  <2>4. UniqueIds' /\ UniqueKeys'
    BY <1>4 DEF TypeOK, ReadEvents, UniqueIds, UniqueKeys
  <2> QED BY <1>4, <2>1, <2>3, <2>4 DEF TypeOK, ReadEvents, InCall
<1>5. ASSUME NEW c \in Callers, RowUndecodable(c) \/ Fail(c) PROVE TypeOK'
  <2>1. UniqueIds' /\ UniqueKeys'
    BY <1>5 DEF TypeOK, RowUndecodable, Fail, UniqueIds, UniqueKeys
  <2>2. acc' \in [Callers -> Aggregates]
    BY <1>5, Reset DEF RowUndecodable, Fail
  <2>3. /\ pc' \in [Callers -> InCall \cup {"idle", "returned", "failed"}]
        /\ since' \in [Callers -> SUBSET Int]
        /\ stamp' \in [Callers -> Int]
        /\ behind' \in [Callers -> SUBSET created]
    <3>1. /\ pc' = [pc EXCEPT ![c] = "failed"]
          /\ since' = [since EXCEPT ![c] = {}]
          /\ behind' = [behind EXCEPT ![c] = {}]
          /\ stamp' = stamp \/ stamp' = [stamp EXCEPT ![c] = 0]
      BY <1>5 DEF RowUndecodable, Fail
    <3> QED BY <3>1 DEF TypeOK, InCall
  <2>4. UNCHANGED <<events, aggregate_cache, clock, created, time, aggregator, late>>
    BY <1>5 DEF RowUndecodable, Fail
  <2> QED BY <2>1, <2>2, <2>3, <2>4 DEF TypeOK
<1>6. ASSUME NEW c \in Callers, StartCacheSave(c) PROVE TypeOK'
  <2>1. UniqueIds' /\ UniqueKeys'
    BY <1>6 DEF TypeOK, StartCacheSave, UniqueIds, UniqueKeys
  <2> QED BY <1>6, <2>1 DEF TypeOK, StartCacheSave, InCall
<1>7. ASSUME NEW c \in Callers, CacheSave(c) PROVE TypeOK'
  <2>1. /\ KeyOf(aggregator[c]) \in Keys
        /\ aggregator[c] \in Aggregators
        /\ acc[c] \in Aggregates
        /\ stamp[c] \in Int
    BY DEF TypeOK, KeyOf
  <2>2. aggregate_cache' \subseteq CacheRows(Aggregates) /\ UniqueKeys'
    BY <1>7, <2>1, UpsertTyped DEF CacheSave
  <2>3. UniqueIds'
    BY <1>7 DEF TypeOK, CacheSave, UniqueIds
  <2>4. acc' \in [Callers -> Aggregates]
    BY <1>7, Reset DEF TypeOK, CacheSave
  <2>5. /\ pc' \in [Callers -> InCall \cup {"idle", "returned", "failed"}]
        /\ stamp' \in [Callers -> Int]
        /\ behind' \in [Callers -> SUBSET created]
    <3>1. /\ pc' = [pc EXCEPT ![c] = "returned"] \/ pc' = [pc EXCEPT ![c] = "failed"]
          /\ stamp' = [stamp EXCEPT ![c] = 0]
          /\ behind' = [behind EXCEPT ![c] = {}]
      BY <1>7 DEF CacheSave
    <3> QED BY <3>1 DEF TypeOK, InCall
  <2>6. UNCHANGED <<events, clock, created, time, aggregator, since>>
    BY <1>7 DEF CacheSave
  <2>7. late' \subseteq created \X Keys
    BY <1>7, <2>1 DEF CacheSave, TypeOK
  <2> QED BY <2>2, <2>3, <2>4, <2>5, <2>6, <2>7 DEF TypeOK
<1>8. CASE UNCHANGED vars
  BY <1>8 DEF TypeOK, vars, UniqueIds, UniqueKeys
<1> QED BY <1>1, <1>2, <1>3, <1>4, <1>5, <1>6, <1>7, <1>8 DEF Next

(* The variables keep their types and the primary keys of the two tables   *)
(* hold, whatever saves, calls, failures and crashes interleave.           *)
THEOREM TypeCorrect == Spec => []TypeOK
BY TypeInit, TypeStep, PTL DEF Spec

--------------------------------------------------------------------------------
(* What the inductive invariants say.                                      *)

(* No two queries share a cache key.                                       *)
InjectiveKeys == \A p, q \in Queries : UniqueId[p] = UniqueId[q] => p = q

(* The clock of no creator of events is ahead of the database's.           *)
NoSkewAhead == \A skew \in Skews : skew =< 0

(* FoldedOnceInOrder holds because what is in a list is older than the     *)
(* time from which the list will be continued: the time of its cache row,  *)
(* the since of the call that resumed from it, the stamp of its next row.  *)
Before(list, t) == \A e \in Range(list) : time[e] < t

RowInOrder(row) ==
  /\ OnceInOrder(row.data)
  /\ Range(row.data) \subseteq events
  /\ Before(row.data, row.time)
  /\ row.time =< clock

CallInOrder(c) ==
  /\ OnceInOrder(acc[c])
  /\ Range(acc[c]) \subseteq events
  /\ pc[c] = "resumed" =>
       /\ since[c] = {} => Range(acc[c]) = {}
       /\ \A t \in since[c] : Before(acc[c], t)
  /\ pc[c] = "stamped" => Before(acc[c], stamp[c]) /\ stamp[c] =< clock

InOrderInv ==
  /\ \A e \in created : time[e] =< clock
  /\ \A row \in aggregate_cache : RowInOrder(row)
  /\ \A c \in Callers : CallInOrder(c)

(* OnlyLateMissed holds because what a list lacks, and was not inserted    *)
(* late, lies at or after the time from which the list will be continued.  *)
Due(q) == {e \in events \cap Selects[q] : <<e, UniqueId[q]>> \notin late}

RowComplete(row, q) ==
  \A e \in Due(q) : e \in Range(row.data) \/ time[e] >= row.time

CallComplete(c) ==
  \A e \in Due(QueryOf[aggregator[c]]) \ behind[c] :
    /\ pc[c] = "resumed" => e \in Range(acc[c]) \/ \A t \in since[c] : time[e] >= t
    /\ pc[c] = "folded" => e \in Range(acc[c])
    /\ pc[c] = "stamped" => e \in Range(acc[c]) \/ time[e] >= stamp[c]

CompleteInv ==
  /\ \A row \in aggregate_cache, q \in Queries :
       UniqueId[q] = row.id => RowComplete(row, q)
  /\ \A c \in Callers : CallComplete(c)

--------------------------------------------------------------------------------
(* Steps that several invariants look at.                                  *)

(* The read appends the rows it found, in their order.                     *)
LEMMA ReadAppends ==
  ASSUME TypeOK, NEW c \in Callers, ReadEvents(c)
  PROVE  \E rows \in OrderedBy(Found(c), time) :
           /\ Found(c) \in SUBSET Events
           /\ rows \in Aggregates
           /\ Range(rows) = Found(c)
           /\ OnceInOrder(rows)
           /\ acc'[c] = acc[c] \o rows
           /\ Range(acc'[c]) = Range(acc[c]) \cup Found(c)
           /\ \A d \in Callers \ {c} : acc'[d] = acc[d]
<1>1. PICK rows \in OrderedBy(Found(c), time) :
        acc' = [acc EXCEPT ![c] = acc[c] \o rows]
  BY DEF ReadEvents, Read, Found
<1>2. Found(c) \in SUBSET Events
  BY DEF TypeOK, Found, Matching
<1>3. rows \in Aggregates /\ Range(rows) = Found(c) /\ OnceInOrder(rows)
  BY <1>2, OrderedByRows DEF Aggregates
<1>4. acc'[c] = acc[c] \o rows /\ \A d \in Callers \ {c} : acc'[d] = acc[d]
  BY <1>1 DEF TypeOK
<1>5. Range(acc'[c]) = Range(acc[c]) \cup Found(c)
  BY <1>3, <1>4, RangeConcat DEF TypeOK, Aggregates
<1> QED BY <1>2, <1>3, <1>4, <1>5

(* A step that takes the call of c from one place to another: who it may   *)
(* change, and what its list may become.                                   *)
LEMMA CallStarts ==
  ASSUME TypeOK, NEW c \in Callers, NEW a \in Aggregators,
         CacheMiss(c, a) \/ CacheHit(c, a) \/ CacheUndecodable(c, a)
  PROVE  /\ UNCHANGED <<events, aggregate_cache, clock, created, time, stamp, behind, late>>
         /\ aggregator'[c] = a
         /\ \/ /\ acc'[c] = <<>>
               /\ (pc'[c] = "resumed" /\ since'[c] = {}) \/ pc'[c] = "failed"
            \/ \E row \in aggregate_cache :
                 /\ row.id = KeyOf(a)
                 /\ acc'[c] = row.data
                 /\ pc'[c] = "resumed" /\ since'[c] = {row.time}
         /\ \A d \in Callers \ {c} :
              /\ acc'[d] = acc[d] /\ aggregator'[d] = aggregator[d]
              /\ pc'[d] = pc[d] /\ since'[d] = since[d]
<1>1. CASE CacheMiss(c, a)
  <2>1. acc'[c] = <<>> /\ \A d \in Callers \ {c} : acc'[d] = acc[d]
    BY <1>1, Reset DEF CacheMiss
  <2>2. /\ UNCHANGED <<events, aggregate_cache, clock, created, time, stamp, behind, late>>
        /\ aggregator' = [aggregator EXCEPT ![c] = a]
        /\ pc' = [pc EXCEPT ![c] = "resumed"]
        /\ since' = [since EXCEPT ![c] = {}]
    BY <1>1 DEF CacheMiss
  <2> QED BY <2>1, <2>2 DEF TypeOK
<1>2. CASE CacheHit(c, a)
  <2>1. PICK row \in aggregate_cache :
          /\ row.id = KeyOf(a)
          /\ acc' = [acc EXCEPT ![c] = row.data]
          /\ since' = [since EXCEPT ![c] = {row.time}]
    BY <1>2 DEF CacheHit, CacheRead
  <2>2. /\ UNCHANGED <<events, aggregate_cache, clock, created, time, stamp, behind, late>>
        /\ aggregator' = [aggregator EXCEPT ![c] = a]
        /\ pc' = [pc EXCEPT ![c] = "resumed"]
    BY <1>2 DEF CacheHit
  <2> QED BY <2>1, <2>2 DEF TypeOK
<1>3. CASE CacheUndecodable(c, a)
  <2>1. acc'[c] = <<>> /\ \A d \in Callers \ {c} : acc'[d] = acc[d]
    BY <1>3, Reset DEF CacheUndecodable
  <2>2. /\ UNCHANGED <<events, aggregate_cache, clock, created, time, since, stamp, behind, late>>
        /\ aggregator' = [aggregator EXCEPT ![c] = a]
        /\ pc' = [pc EXCEPT ![c] = "failed"]
    BY <1>3 DEF CacheUndecodable
  <2> QED BY <2>1, <2>2 DEF TypeOK
<1> QED BY <1>1, <1>2, <1>3

LEMMA CallFails ==
  ASSUME TypeOK, NEW c \in Callers, RowUndecodable(c) \/ Fail(c)
  PROVE  /\ UNCHANGED <<events, aggregate_cache, clock, created, time, aggregator, late>>
         /\ acc'[c] = <<>> /\ pc'[c] = "failed"
         /\ \A d \in Callers \ {c} :
              /\ acc'[d] = acc[d] /\ pc'[d] = pc[d]
              /\ since'[d] = since[d] /\ stamp'[d] = stamp[d]
              /\ behind'[d] = behind[d]
<1>1. acc'[c] = <<>> /\ \A d \in Callers \ {c} : acc'[d] = acc[d]
  BY Reset DEF RowUndecodable, Fail
<1>2. /\ UNCHANGED <<events, aggregate_cache, clock, created, time, aggregator, late>>
      /\ pc' = [pc EXCEPT ![c] = "failed"]
      /\ since' = [since EXCEPT ![c] = {}]
      /\ stamp' = [stamp EXCEPT ![c] = 0] \/ stamp' = stamp
      /\ behind' = [behind EXCEPT ![c] = {}]
  BY DEF RowUndecodable, Fail
<1> QED BY <1>1, <1>2 DEF TypeOK

LEMMA CallStores ==
  ASSUME TypeOK, NEW c \in Callers, CacheSave(c)
  PROVE  /\ UNCHANGED <<events, clock, created, time, aggregator, since>>
         /\ late' = late \cup {<<e, KeyOf(aggregator[c])>> :
                                e \in {f \in behind[c] : time[f] < stamp[c]}}
         /\ acc'[c] \in {acc[c], <<>>} /\ pc'[c] \in {"returned", "failed"}
         /\ \A d \in Callers \ {c} :
              /\ acc'[d] = acc[d] /\ pc'[d] = pc[d]
              /\ stamp'[d] = stamp[d] /\ behind'[d] = behind[d]
         /\ \A row \in aggregate_cache' :
              \/ row \in aggregate_cache
              \/ row = [id |-> KeyOf(aggregator[c]), type |-> aggregator[c],
                       data |-> acc[c], time |-> stamp[c]]
<1>1. acc'[c] \in {acc[c], <<>>} /\ \A d \in Callers \ {c} : acc'[d] = acc[d]
  BY Reset DEF CacheSave
<1>2. /\ UNCHANGED <<events, clock, created, time, aggregator, since>>
      /\ late' = late \cup {<<e, KeyOf(aggregator[c])>> :
                             e \in {f \in behind[c] : time[f] < stamp[c]}}
      /\ behind' = [behind EXCEPT ![c] = {}]
      /\ pc' = [pc EXCEPT ![c] = "returned"] \/ pc' = [pc EXCEPT ![c] = "failed"]
      /\ stamp' = [stamp EXCEPT ![c] = 0]
      /\ CacheUpsert(KeyOf(aggregator[c]), aggregator[c], acc[c], stamp[c])
  BY DEF CacheSave
<1> QED BY <1>1, <1>2 DEF TypeOK, CacheUpsert

--------------------------------------------------------------------------------
(* FoldedAreStored.                                                        *)

LEMMA StoredInit == Init => FoldedAreStored
BY EmptyList DEF Init, FoldedAreStored

LEMMA StoredStep ==
  ASSUME InjectiveKeys, TypeOK, FoldedAreStored, [Next]_vars
  PROVE  FoldedAreStored'
<1> USE DEF FoldedAreStored
<1>1. ASSUME NEW e \in Events, CreateEvent(e) \/ Save(e) PROVE FoldedAreStored'
  BY <1>1 DEF CreateEvent, Save, Insert
<1>2. ASSUME NEW c \in Callers, NEW a \in Aggregators,
             CacheMiss(c, a) \/ CacheHit(c, a) \/ CacheUndecodable(c, a)
      PROVE  FoldedAreStored'
  <2>1. Range(acc'[c]) \subseteq events \cap Selects[QueryOf[a]]
    BY <1>2, CallStarts, EmptyList, AggregationAssumption DEF KeyOf
  <2> QED BY <1>2, <2>1, CallStarts
<1>3. ASSUME NEW c \in Callers, ReadEvents(c) PROVE FoldedAreStored'
  <2>1. Found(c) \subseteq events \cap Selects[QueryOf[aggregator[c]]]
    BY DEF Found, Matching
  <2>2. UNCHANGED <<events, aggregate_cache, aggregator>>
    BY <1>3 DEF ReadEvents
  <2>3. /\ Range(acc'[c]) = Range(acc[c]) \cup Found(c)
        /\ \A d \in Callers \ {c} : acc'[d] = acc[d]
    BY <1>3, ReadAppends
  <2> QED BY <2>1, <2>2, <2>3
<1>4. ASSUME NEW c \in Callers, RowUndecodable(c) \/ Fail(c) PROVE FoldedAreStored'
  <2>1. /\ UNCHANGED <<events, aggregate_cache, aggregator>>
        /\ Range(acc'[c]) = {}
        /\ \A d \in Callers \ {c} : acc'[d] = acc[d]
    BY <1>4, CallFails, EmptyList
  <2> QED BY <2>1
<1>5. ASSUME NEW c \in Callers, StartCacheSave(c) PROVE FoldedAreStored'
  BY <1>5 DEF StartCacheSave
<1>6. ASSUME NEW c \in Callers, CacheSave(c) PROVE FoldedAreStored'
  <2>1. /\ UNCHANGED <<events, aggregator>>
        /\ Range(acc'[c]) \subseteq Range(acc[c])
        /\ \A d \in Callers \ {c} : acc'[d] = acc[d]
    BY <1>6, CallStores, EmptyList
  <2>2. ASSUME NEW row \in aggregate_cache', NEW q \in Queries, UniqueId[q] = row.id
        PROVE  Range(row.data) \subseteq events \cap Selects[q]
    <3>1. CASE row \in aggregate_cache
      BY <2>2, <3>1
    <3>2. CASE row.id = KeyOf(aggregator[c]) /\ row.data = acc[c]
      <4>1. QueryOf[aggregator[c]] \in Queries
        BY AggregationAssumption DEF TypeOK
      <4>2. q = QueryOf[aggregator[c]]
        BY <2>2, <3>2, <4>1 DEF InjectiveKeys, KeyOf
      <4> QED BY <3>2, <4>2
    <3> QED BY <1>6, <3>1, <3>2, CallStores
  <2> QED BY <2>1, <2>2
<1>7. CASE UNCHANGED vars
  BY <1>7 DEF vars
<1> QED BY <1>1, <1>2, <1>3, <1>4, <1>5, <1>6, <1>7 DEF Next

(* When no two queries share a cache key, no aggregate, returned or cached,*)
(* ever holds an event that is not in the table or that its query does not *)
(* select.                                                                 *)
THEOREM OnlyStoredFolded ==
  ASSUME InjectiveKeys
  PROVE  Spec => []FoldedAreStored
<1>1. TypeOK /\ FoldedAreStored /\ [Next]_vars => FoldedAreStored'
  BY StoredStep
<1> QED BY <1>1, StoredInit, TypeCorrect, PTL DEF Spec

--------------------------------------------------------------------------------
(* FoldedOnceInOrder.                                                      *)

(* Times of stored events never change, so lists of them stay in order.    *)
LEMMA StaysInOrder ==
  ASSUME TypeOK, [Next]_vars, NEW list, Range(list) \subseteq events,
         OnceInOrder(list)
  PROVE  /\ \A e \in created : time'[e] = time[e]
         /\ events \subseteq events'
         /\ \A i, j \in DOMAIN list :
              i < j => list[i] # list[j] /\ time'[list[i]] =< time'[list[j]]
<1>1. \A e \in created : time'[e] = time[e]
  <2>1. ASSUME NEW f \in Events, CreateEvent(f) PROVE \A e \in created : time'[e] = time[e]
    BY <2>1 DEF CreateEvent, TypeOK
  <2>2. (\A f \in Events : ~ CreateEvent(f)) => time' = time
    BY DEF Next, vars, Save, CacheMiss, CacheHit, CacheUndecodable, ReadEvents,
           RowUndecodable, StartCacheSave, CacheSave, Fail
  <2> QED BY <2>1, <2>2
<1>2. events \subseteq events'
  BY DEF Next, vars, CreateEvent, Save, Insert, CacheMiss, CacheHit,
         CacheUndecodable, ReadEvents, RowUndecodable, StartCacheSave, CacheSave,
         Fail
<1>3. \A i \in DOMAIN list : list[i] \in created
  BY DEF Range, TypeOK
<1> QED BY <1>1, <1>2, <1>3 DEF OnceInOrder

LEMMA InOrderInit == Init => InOrderInv
BY EmptyList DEF Init, InOrderInv, CallInOrder

(* The clock never goes back, and events are created at or behind it.      *)
LEMMA CreatedBehindClock ==
  ASSUME NoSkewAhead, TypeOK, InOrderInv, [Next]_vars
  PROVE  /\ clock \in Int /\ clock' \in Int /\ clock =< clock'
         /\ \A e \in created' : time'[e] =< clock'
<1> USE AggregationAssumption
<1>1. ASSUME NEW e \in Events, CreateEvent(e)
      PROVE  /\ clock =< clock'
             /\ \A f \in created' : time'[f] =< clock'
  <2>1. PICK now \in {clock, clock + 1} \cap (0 .. MaxClock), skew \in Skews :
          clock' = now /\ time' = [time EXCEPT ![e] = now + skew]
    BY <1>1 DEF CreateEvent
  <2>2. clock =< clock' /\ time'[e] =< clock'
    BY <2>1 DEF NoSkewAhead, TypeOK
  <2>3. ASSUME NEW f \in created, f # e PROVE time'[f] =< clock'
    BY <2>1, <2>2, <2>3 DEF InOrderInv, TypeOK
  <2> QED BY <1>1, <2>2, <2>3 DEF CreateEvent
<1>2. ASSUME NEW c \in Callers, StartCacheSave(c)
      PROVE  /\ clock =< clock'
             /\ \A f \in created' : time'[f] =< clock'
  BY <1>2 DEF StartCacheSave, InOrderInv, TypeOK
<1>3. CASE UNCHANGED <<clock, created, time>>
  BY <1>3 DEF InOrderInv, TypeOK
<1>4. \/ \E e \in Events : CreateEvent(e)
      \/ \E c \in Callers : StartCacheSave(c)
      \/ UNCHANGED <<clock, created, time>>
  BY DEF Next, vars, Save, CacheMiss, CacheHit, CacheUndecodable, ReadEvents,
         RowUndecodable, CacheSave, Fail
<1>5. clock \in Int /\ clock' \in Int
  BY TypeStep DEF TypeOK
<1> QED BY <1>1, <1>2, <1>3, <1>4, <1>5

(* A cache row, and a call the step leaves alone, stay in order.           *)
LEMMA RowStaysInOrder ==
  ASSUME NoSkewAhead, TypeOK, InOrderInv, [Next]_vars, NEW row \in aggregate_cache
  PROVE  RowInOrder(row)'
<1>1. RowInOrder(row) /\ row.time \in Int
  BY DEF InOrderInv, TypeOK, CacheRows
<1>2. OnceInOrder(row.data)' /\ (Range(row.data) \subseteq events)'
  BY <1>1, StaysInOrder DEF RowInOrder, OnceInOrder
<1>3. Before(row.data, row.time)'
  BY <1>1, StaysInOrder DEF RowInOrder, Before, TypeOK
<1>4. row.time =< clock'
  BY <1>1, CreatedBehindClock DEF RowInOrder
<1> QED BY <1>2, <1>3, <1>4 DEF RowInOrder

LEMMA CallStaysInOrder ==
  ASSUME NoSkewAhead, TypeOK, InOrderInv, [Next]_vars, NEW c \in Callers,
         pc'[c] = pc[c], acc'[c] = acc[c],
         pc[c] = "resumed" => since'[c] = since[c],
         pc[c] = "stamped" => stamp'[c] = stamp[c]
  PROVE  CallInOrder(c)'
<1>1. CallInOrder(c) /\ stamp[c] \in Int
  BY DEF InOrderInv, TypeOK
<1>2. OnceInOrder(acc[c])' /\ Range(acc'[c]) \subseteq events'
  BY <1>1, StaysInOrder DEF CallInOrder, OnceInOrder
<1>3. ASSUME NEW t, Before(acc[c], t) PROVE \A e \in Range(acc'[c]) : time'[e] < t
  BY <1>1, <1>3, StaysInOrder DEF CallInOrder, Before, TypeOK
<1>4. pc'[c] = "resumed" =>
        /\ since'[c] = {} => Range(acc'[c]) = {}
        /\ \A t \in since'[c] : Before(acc[c], t)'
  BY <1>1, <1>3 DEF CallInOrder, Before
<1>5. pc'[c] = "stamped" => Before(acc[c], stamp[c])' /\ stamp'[c] =< clock'
  BY <1>1, <1>3, CreatedBehindClock DEF CallInOrder, Before
<1> QED BY <1>2, <1>4, <1>5 DEF CallInOrder, OnceInOrder, Before

LEMMA InOrderStep ==
  ASSUME NoSkewAhead, TypeOK, InOrderInv, [Next]_vars
  PROVE  InOrderInv'
<1>1. \A e \in created' : time'[e] =< clock'
  BY CreatedBehindClock
<1>2. \A row \in aggregate_cache : RowInOrder(row)'
  BY RowStaysInOrder
<1>3. ASSUME NEW e \in Events, CreateEvent(e) \/ Save(e) PROVE InOrderInv'
  <2>1. UNCHANGED <<aggregate_cache, pc, acc, since, stamp>>
    BY <1>3 DEF CreateEvent, Save
  <2> QED BY <1>1, <1>2, <2>1, CallStaysInOrder DEF InOrderInv
<1>4. ASSUME NEW c \in Callers, NEW a \in Aggregators,
             CacheMiss(c, a) \/ CacheHit(c, a) \/ CacheUndecodable(c, a)
      PROVE  InOrderInv'
  <2>1. UNCHANGED <<events, aggregate_cache, time, stamp>>
    BY <1>4, CallStarts
  <2>2. \A d \in Callers \ {c} : CallInOrder(d)'
    BY <1>4, <2>1, CallStarts, CallStaysInOrder
  <2>3. ASSUME acc'[c] = <<>>, (pc'[c] = "resumed" /\ since'[c] = {}) \/ pc'[c] = "failed"
        PROVE  CallInOrder(c)'
    BY <2>3, EmptyList DEF CallInOrder, OnceInOrder
  <2>4. ASSUME NEW row \in aggregate_cache, acc'[c] = row.data,
               pc'[c] = "resumed", since'[c] = {row.time}
        PROVE  CallInOrder(c)'
    <3>1. RowInOrder(row)'
      BY <1>2
    <3> QED BY <2>4, <3>1 DEF CallInOrder, RowInOrder, OnceInOrder, Before
  <2>5. CallInOrder(c)'
    BY <1>4, <2>3, <2>4, CallStarts
  <2> QED BY <1>1, <1>2, <2>1, <2>2, <2>5 DEF InOrderInv
<1>5. ASSUME NEW c \in Callers, ReadEvents(c) PROVE InOrderInv'
  <2>1. /\ UNCHANGED <<events, aggregate_cache, time, stamp>>
        /\ pc[c] = "resumed" /\ pc' = [pc EXCEPT ![c] = "folded"]
        /\ since' = [since EXCEPT ![c] = {}]
    BY <1>5 DEF ReadEvents
  <2>2. PICK rows \in Aggregates :
          /\ Range(rows) = Found(c) /\ OnceInOrder(rows)
          /\ acc'[c] = acc[c] \o rows
          /\ Range(acc'[c]) = Range(acc[c]) \cup Found(c)
          /\ \A d \in Callers \ {c} : acc'[d] = acc[d]
    BY <1>5, ReadAppends
  <2>3. \A d \in Callers \ {c} : CallInOrder(d)'
    BY <2>1, <2>2, CallStaysInOrder DEF TypeOK
  <2>4. CallInOrder(c) /\ acc[c] \in Aggregates /\ since[c] \in SUBSET Int
    BY DEF InOrderInv, TypeOK
  <2>5. \A e \in Range(acc[c]), f \in Range(rows) : time[e] < time[f]
    <3>1. SUFFICES ASSUME NEW e \in Range(acc[c]), NEW f \in Found(c)
                   PROVE  time[e] < time[f]
      BY <2>2
    <3>2. PICK t \in since[c] : TRUE
      BY <2>1, <2>4 DEF CallInOrder
    <3>3. time[e] < t /\ time[f] >= t
      BY <2>1, <2>4 DEF CallInOrder, Before, Found, Matching
    <3>4. e \in Events /\ f \in Events
      BY <2>4 DEF CallInOrder, TypeOK, Found, Matching
    <3> QED BY <2>4, <3>2, <3>3, <3>4 DEF TypeOK
  <2>6. OnceInOrder(acc[c] \o rows)
    BY <2>2, <2>4, <2>5, ConcatOnceInOrder DEF CallInOrder, TypeOK, Aggregates
  <2>7. Range(acc'[c]) \subseteq events
    BY <2>2, <2>4 DEF CallInOrder, Found, Matching
  <2>8. pc'[c] = "folded"
    BY <2>1 DEF TypeOK
  <2>9. CallInOrder(c)'
    BY <2>1, <2>2, <2>6, <2>7, <2>8 DEF CallInOrder, OnceInOrder
  <2> QED BY <1>1, <1>2, <2>1, <2>3, <2>9 DEF InOrderInv
<1>6. ASSUME NEW c \in Callers, RowUndecodable(c) \/ Fail(c) PROVE InOrderInv'
  <2>1. \A d \in Callers \ {c} : CallInOrder(d)'
    BY <1>6, CallFails, CallStaysInOrder
  <2>2. CallInOrder(c)'
    BY <1>6, CallFails, EmptyList DEF CallInOrder, OnceInOrder
  <2>3. UNCHANGED aggregate_cache
    BY <1>6, CallFails
  <2> QED BY <1>1, <1>2, <2>1, <2>2, <2>3 DEF InOrderInv
<1>7. ASSUME NEW c \in Callers, StartCacheSave(c) PROVE InOrderInv'
  <2>1. /\ UNCHANGED <<events, aggregate_cache, time, acc, since>>
        /\ pc' = [pc EXCEPT ![c] = "stamped"]
        /\ clock' = clock + 1 /\ stamp' = [stamp EXCEPT ![c] = clock + 1]
    BY <1>7 DEF StartCacheSave
  <2>2. \A d \in Callers \ {c} : CallInOrder(d)'
    BY <2>1, CallStaysInOrder DEF TypeOK
  <2>3. pc'[c] = "stamped" /\ stamp'[c] = clock + 1 /\ clock \in Int
    BY <2>1, CreatedBehindClock DEF TypeOK
  <2>4. Before(acc[c], clock + 1)
    BY <2>3 DEF InOrderInv, CallInOrder, Before, TypeOK
  <2>5. CallInOrder(c)'
    BY <2>1, <2>3, <2>4 DEF InOrderInv, CallInOrder, OnceInOrder, Before
  <2> QED BY <1>1, <1>2, <2>1, <2>2, <2>5 DEF InOrderInv
<1>8. ASSUME NEW c \in Callers, CacheSave(c) PROVE InOrderInv'
  <2>1. pc[c] = "stamped" /\ UNCHANGED <<events, clock, time>> /\ CallInOrder(c)
    BY <1>8 DEF CacheSave, InOrderInv
  <2>2. \A d \in Callers \ {c} : CallInOrder(d)'
    BY <1>8, CallStores, CallStaysInOrder
  <2>3. CallInOrder(c)'
    BY <1>8, <2>1, CallStores, EmptyList DEF CallInOrder, OnceInOrder
  <2>4. ASSUME NEW row, row.data = acc[c], row.time = stamp[c] PROVE RowInOrder(row)'
    BY <2>1, <2>4 DEF CallInOrder, RowInOrder, OnceInOrder, Before
  <2>5. \A row \in aggregate_cache' : RowInOrder(row)'
    BY <1>2, <1>8, <2>4, CallStores
  <2> QED BY <1>1, <2>2, <2>3, <2>5 DEF InOrderInv
<1>9. CASE UNCHANGED vars
  BY <1>1, <1>2, <1>9, CallStaysInOrder DEF vars, InOrderInv
<1> QED BY <1>3, <1>4, <1>5, <1>6, <1>7, <1>8, <1>9 DEF Next

(* When no creator's clock is ahead of the database's, no aggregate ever   *)
(* has an event applied twice or out of the order of times, whatever calls *)
(* and saves interleave and wherever calls fail.                           *)
THEOREM AppliedOnceInOrder ==
  ASSUME NoSkewAhead
  PROVE  Spec => []FoldedOnceInOrder
<1>1. InOrderInv => FoldedOnceInOrder
  BY DEF InOrderInv, RowInOrder, CallInOrder, FoldedOnceInOrder
<1>2. TypeOK /\ InOrderInv /\ [Next]_vars => InOrderInv'
  BY InOrderStep
<1> QED BY <1>1, <1>2, InOrderInit, TypeCorrect, PTL DEF Spec

--------------------------------------------------------------------------------
(* OnlyLateMissed.                                                         *)

LEMMA CompleteInit == Init => CompleteInv
BY DEF Init, CompleteInv, CallComplete, Due

(* What becomes due in a step was saved by it, and no row was past it.     *)
LEMMA DueGrows ==
  ASSUME TypeOK, [Next]_vars, NEW q \in Queries, NEW e \in Due(q)'
  PROVE  /\ e \in Events /\ time'[e] = time[e]
         /\ \/ e \in Due(q)
            \/ Save(e) /\ ~ HasId(e) /\ ~ Overtaken(e, UniqueId[q])
<1> DEFINE Inserted == Save(e) /\ ~ HasId(e) /\ ~ Overtaken(e, UniqueId[q])
<1>1. \A f \in created : time'[f] = time[f]
  BY StaysInOrder, EmptyList
<1>2. e \in events' /\ e \in Selects[q] /\ <<e, UniqueId[q]>> \notin late'
  BY DEF Due
<1>3. ASSUME NEW f \in Events, Save(f)
      PROVE  e \in created /\ (e \in Due(q) \/ Inserted)
  <2>1. late \subseteq late'
    BY <1>3 DEF Save
  <2>2. CASE e \in events
    <3>1. e \in Due(q)
      BY <1>2, <2>1, <2>2 DEF Due
    <3>2. e \in created
      BY <2>2 DEF TypeOK
    <3> QED BY <3>1, <3>2
  <2>3. CASE e \notin events
    <3>1. e = f /\ ~ HasId(e)
      BY <1>2, <1>3, <2>3 DEF Save, Insert
    <3>2. UniqueId[q] \in Keys
      BY AggregationAssumption
    <3>3. ~ Overtaken(e, UniqueId[q])
      BY <1>2, <1>3, <3>1, <3>2 DEF Save
    <3> QED BY <1>3, <3>1, <3>3 DEF Save
  <2> QED BY <2>2, <2>3
<1>4. ASSUME events' = events, late \subseteq late'
      PROVE  e \in created /\ e \in Due(q)
  BY <1>2, <1>4 DEF Due, TypeOK
<1>5. (\E f \in Events : Save(f)) \/ (events' = events /\ late \subseteq late')
  BY DEF Next, vars, CreateEvent, CacheMiss, CacheHit, CacheUndecodable, ReadEvents,
         RowUndecodable, StartCacheSave, CacheSave, Fail
<1>6. e \in created /\ (e \in Due(q) \/ Inserted)
  BY <1>3, <1>4, <1>5
<1> QED BY <1>1, <1>6 DEF TypeOK

(* A cache row, and a call the step leaves alone, stay complete.           *)
LEMMA RowStaysComplete ==
  ASSUME TypeOK, CompleteInv, [Next]_vars,
         NEW row \in aggregate_cache, NEW q \in Queries, UniqueId[q] = row.id
  PROVE  RowComplete(row, q)'
<1>1. SUFFICES ASSUME NEW e \in Due(q)'
               PROVE  e \in Range(row.data) \/ time'[e] >= row.time
  BY DEF RowComplete
<1>2. CASE e \in Due(q)
  BY <1>2, DueGrows DEF CompleteInv, RowComplete
<1>3. CASE ~ Overtaken(e, UniqueId[q])
  <2>1. time'[e] = time[e] /\ time[e] \in Int /\ row.time \in Int
    BY DueGrows DEF TypeOK, CacheRows
  <2> QED BY <1>3, <2>1 DEF Overtaken
<1> QED BY <1>2, <1>3, DueGrows

LEMMA CallStaysComplete ==
  ASSUME TypeOK, CompleteInv, [Next]_vars, NEW c \in Callers,
         pc'[c] = pc[c], acc'[c] = acc[c], aggregator'[c] = aggregator[c],
         pc[c] = "resumed" => since'[c] = since[c],
         pc[c] = "stamped" => stamp'[c] = stamp[c],
         behind[c] \subseteq behind'[c]
  PROVE  CallComplete(c)'
<1> DEFINE q == QueryOf[aggregator[c]]
<1>1. q \in Queries
  BY AggregationAssumption DEF TypeOK
<1>2. ASSUME NEW e \in Due(q)', e \notin behind'[c]
      PROVE  /\ pc[c] = "resumed" =>
                  e \in Range(acc[c]) \/ \A t \in since[c] : time'[e] >= t
             /\ pc[c] = "folded" => e \in Range(acc[c])
             /\ pc[c] = "stamped" => e \in Range(acc[c]) \/ time'[e] >= stamp[c]
  <2>1. /\ e \in Events /\ time'[e] = time[e]
        /\ e \in Due(q) \/ (Save(e) /\ ~ HasId(e))
    BY <1>1, DueGrows
  <2>2. CASE e \in Due(q)
    <3>1. e \notin behind[c]
      BY <1>2
    <3> QED BY <2>1, <2>2, <3>1 DEF CompleteInv, CallComplete
  <2>3. CASE Save(e) /\ ~ HasId(e)
    <3>1. ~ Passed(c, e)
      BY <1>2, <2>3 DEF Save
    <3>2. time[e] \in Int /\ stamp[c] \in Int /\ since[c] \in SUBSET Int
      BY <2>1 DEF TypeOK
    <3> QED BY <2>1, <3>1, <3>2 DEF Passed
  <2> QED BY <2>1, <2>2, <2>3
<1> QED BY <1>2 DEF CallComplete

LEMMA CompleteStep ==
  ASSUME InjectiveKeys, TypeOK, CompleteInv, [Next]_vars
  PROVE  CompleteInv'
<1>1. \A row \in aggregate_cache, q \in Queries :
        UniqueId[q] = row.id => RowComplete(row, q)'
  BY RowStaysComplete
<1>2. ASSUME NEW e \in Events, CreateEvent(e) \/ Save(e) PROVE CompleteInv'
  <2>1. /\ UNCHANGED <<aggregate_cache, pc, aggregator, acc, since, stamp>>
        /\ \A d \in Callers : behind[d] \subseteq behind'[d]
    BY <1>2 DEF CreateEvent, Save
  <2> QED BY <1>1, <2>1, CallStaysComplete DEF CompleteInv
<1>3. ASSUME NEW c \in Callers, NEW a \in Aggregators,
             CacheMiss(c, a) \/ CacheHit(c, a) \/ CacheUndecodable(c, a)
      PROVE  CompleteInv'
  <2>1. UNCHANGED <<events, aggregate_cache, time, stamp, behind, late>> /\ aggregator'[c] = a
    BY <1>3, CallStarts
  <2>2. \A d \in Callers \ {c} : CallComplete(d)'
    BY <1>3, <2>1, CallStarts, CallStaysComplete
  <2>3. ASSUME (pc'[c] = "resumed" /\ since'[c] = {}) \/ pc'[c] = "failed"
        PROVE  CallComplete(c)'
    BY <2>3 DEF CallComplete
  <2>4. ASSUME NEW row \in aggregate_cache, row.id = KeyOf(a), acc'[c] = row.data,
               pc'[c] = "resumed", since'[c] = {row.time}
        PROVE  CallComplete(c)'
    <3>1. RowComplete(row, QueryOf[a])'
      BY <1>1, <2>4, AggregationAssumption DEF KeyOf
    <3> QED BY <2>1, <2>4, <3>1 DEF CallComplete, RowComplete
  <2>5. CallComplete(c)'
    BY <1>3, <2>3, <2>4, CallStarts
  <2> QED BY <1>1, <2>1, <2>2, <2>5 DEF CompleteInv
<1>4. ASSUME NEW c \in Callers, ReadEvents(c) PROVE CompleteInv'
  <2>1. /\ UNCHANGED <<events, aggregate_cache, time, aggregator, stamp, behind, late>>
        /\ pc[c] = "resumed" /\ pc' = [pc EXCEPT ![c] = "folded"]
        /\ since' = [since EXCEPT ![c] = {}]
    BY <1>4 DEF ReadEvents
  <2>2. /\ Range(acc'[c]) = Range(acc[c]) \cup Found(c)
        /\ \A d \in Callers \ {c} : acc'[d] = acc[d]
    BY <1>4, ReadAppends
  <2>3. \A d \in Callers \ {c} : CallComplete(d)'
    BY <2>1, <2>2, CallStaysComplete DEF TypeOK
  <2>4. ASSUME NEW e \in Due(QueryOf[aggregator[c]]), e \notin behind[c]
        PROVE  e \in Range(acc[c]) \cup Found(c)
    BY <2>1, <2>4 DEF CompleteInv, CallComplete, Found, Matching, Due
  <2>5. pc'[c] = "folded"
    BY <2>1 DEF TypeOK
  <2>6. CallComplete(c)'
    BY <2>1, <2>2, <2>4, <2>5 DEF CallComplete, Due
  <2> QED BY <1>1, <2>1, <2>3, <2>6 DEF CompleteInv
<1>5. ASSUME NEW c \in Callers, RowUndecodable(c) \/ Fail(c) PROVE CompleteInv'
  <2>1. \A d \in Callers \ {c} : CallComplete(d)'
    BY <1>5, CallFails, CallStaysComplete
  <2>2. CallComplete(c)' /\ UNCHANGED aggregate_cache
    BY <1>5, CallFails DEF CallComplete
  <2> QED BY <1>1, <2>1, <2>2 DEF CompleteInv
<1>6. ASSUME NEW c \in Callers, StartCacheSave(c) PROVE CompleteInv'
  <2>1. /\ UNCHANGED <<events, aggregate_cache, time, aggregator, acc, since, behind, late>>
        /\ pc[c] = "folded" /\ pc' = [pc EXCEPT ![c] = "stamped"]
        /\ stamp' = [stamp EXCEPT ![c] = clock + 1]
    BY <1>6 DEF StartCacheSave
  <2>2. \A d \in Callers \ {c} : CallComplete(d)'
    BY <2>1, CallStaysComplete DEF TypeOK
  <2>3. pc'[c] = "stamped"
    BY <2>1 DEF TypeOK
  <2>4. CallComplete(c)'
    BY <2>1, <2>3 DEF CompleteInv, CallComplete, Due
  <2> QED BY <1>1, <2>1, <2>2, <2>4 DEF CompleteInv
<1>7. ASSUME NEW c \in Callers, CacheSave(c) PROVE CompleteInv'
  <2>1. /\ pc[c] = "stamped" /\ UNCHANGED <<events, time, aggregator>>
        /\ late' = late \cup {<<e, KeyOf(aggregator[c])>> :
                               e \in {f \in behind[c] : time[f] < stamp[c]}}
        /\ pc'[c] \in {"returned", "failed"}
    BY <1>7, CallStores DEF CacheSave
  <2>2. \A d \in Callers \ {c} : CallComplete(d)'
    BY <1>7, CallStores, CallStaysComplete
  <2>3. CallComplete(c)'
    BY <2>1 DEF CallComplete
  <2>4. ASSUME NEW row, NEW q \in Queries, UniqueId[q] = row.id,
               row.id = KeyOf(aggregator[c]), row.data = acc[c], row.time = stamp[c]
        PROVE  RowComplete(row, q)'
    <3>1. q = QueryOf[aggregator[c]]
      BY <2>4, AggregationAssumption DEF InjectiveKeys, KeyOf, TypeOK
    <3>2. ASSUME NEW e \in Due(q)' PROVE e \in Range(acc[c]) \/ time[e] >= stamp[c]
      <4>1. e \in Due(q)
        BY <2>1 DEF Due
      <4>2. CASE e \in behind[c]
        <5>1. ~ (time[e] < stamp[c])
          BY <2>1, <2>4, <4>2 DEF Due
        <5>2. time[e] \in Int /\ stamp[c] \in Int
          BY <4>1 DEF Due, TypeOK
        <5> QED BY <5>1, <5>2
      <4>3. CASE e \notin behind[c]
        BY <2>1, <3>1, <4>1, <4>3 DEF CompleteInv, CallComplete
      <4> QED BY <4>2, <4>3
    <3> QED BY <2>1, <2>4, <3>2 DEF RowComplete
  <2>5. \A row \in aggregate_cache', q \in Queries :
          UniqueId[q] = row.id => RowComplete(row, q)'
    BY <1>1, <1>7, <2>4, CallStores
  <2> QED BY <2>2, <2>3, <2>5 DEF CompleteInv
<1>8. CASE UNCHANGED vars
  BY <1>1, <1>8, CallStaysComplete DEF vars, CompleteInv
<1> QED BY <1>2, <1>3, <1>4, <1>5, <1>6, <1>7, <1>8 DEF Next

(* When no two queries share a cache key, and whatever the clocks do, the  *)
(* fold of a call lacks a stored event of its query only if that event was *)
(* inserted behind this call, behind the cache row of the key, or behind a *)
(* call that then wrote a row younger than the event.                      *)
THEOREM MissedOnlyWhenLate ==
  ASSUME InjectiveKeys
  PROVE  Spec => []OnlyLateMissed
<1>1. CompleteInv => OnlyLateMissed
  BY DEF CompleteInv, CallComplete, OnlyLateMissed, Due, KeyOf
<1>2. TypeOK /\ CompleteInv /\ [Next]_vars => CompleteInv'
  BY CompleteStep
<1> QED BY <1>1, <1>2, CompleteInit, TypeCorrect, PTL DEF Spec

--------------------------------------------------------------------------------
(* ResumesOwnState.                                                        *)

(* No two aggregators, types with their arguments, share a cache key.      *)
OwnKeys == \A a, b \in Aggregators : KeyOf(a) = KeyOf(b) => a = b

(* A row lies under the key of the aggregator that wrote it.               *)
OwnRowsInv == \A row \in aggregate_cache : KeyOf(row.type) = row.id

LEMMA OwnRowsStep ==
  ASSUME TypeOK, OwnRowsInv, [Next]_vars
  PROVE  OwnRowsInv'
<1>1. ASSUME NEW c \in Callers, CacheSave(c) PROVE OwnRowsInv'
  BY <1>1 DEF CacheSave, CacheUpsert, OwnRowsInv, KeyOf
<1>2. ASSUME UNCHANGED aggregate_cache PROVE OwnRowsInv'
  BY <1>2 DEF OwnRowsInv, KeyOf
<1>3. UNCHANGED aggregate_cache \/ \E c \in Callers : CacheSave(c)
  BY DEF Next, vars, CreateEvent, Save, CacheMiss, CacheHit, CacheUndecodable, ReadEvents,
         RowUndecodable, StartCacheSave, Fail
<1> QED BY <1>1, <1>2, <1>3

(* A call resumes from a state of its own aggregator type when no two of   *)
(* them share a key; that the key is made of the query alone is the only   *)
(* reason that it may not (unique_id, pg.rs; cache.read, store.rs).        *)
THEOREM OwnStateResumed ==
  ASSUME OwnKeys
  PROVE  Spec => ResumesOwnState
<1>1. Init => OwnRowsInv
  BY DEF Init, OwnRowsInv
<1>2. TypeOK /\ OwnRowsInv /\ [Next]_vars => OwnRowsInv'
  BY OwnRowsStep
<1>3. TypeOK /\ TypeOK' /\ OwnRowsInv
        => [\A c \in Callers :
              pc[c] \notin InCall /\ pc'[c] = "resumed"
                => \A row \in CacheRead(KeyOf(aggregator'[c])) :
                     row.type = aggregator'[c]]_vars
  <2> SUFFICES ASSUME TypeOK, TypeOK', OwnRowsInv, NEW c \in Callers,
                      NEW row \in CacheRead(KeyOf(aggregator'[c]))
               PROVE  row.type = aggregator'[c]
    OBVIOUS
  <2>1. row \in aggregate_cache /\ row.id = KeyOf(aggregator'[c])
    BY DEF CacheRead
  <2>2. row.type \in Aggregators /\ aggregator'[c] \in Aggregators
    BY <2>1 DEF TypeOK, CacheRows
  <2>3. KeyOf(row.type) = KeyOf(aggregator'[c])
    BY <2>1 DEF OwnRowsInv
  <2> QED BY <2>2, <2>3 DEF OwnKeys
<1> QED BY <1>1, <1>2, <1>3, TypeCorrect, PTL DEF Spec, ResumesOwnState

================================================================================
