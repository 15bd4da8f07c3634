----------------------------- MODULE QuietUseProofs -----------------------------
(***************************************************************************)
(* Proofs about QuietUse: used quietly, by programs whose clocks agree     *)
(* with the database's, the cache changes nothing of what aggregate        *)
(* promises, for every set of events, queries, aggregators and callers.    *)
(***************************************************************************)
EXTENDS QuietUse, AggregationProofs, FunctionTheorems

(* Events are stamped with the time of the database's clock.               *)
ClocksAgree == \A skew \in Skews : skew = 0

LEMMA AgreeingIsNotAhead == ClocksAgree => NoSkewAhead
BY DEF ClocksAgree, NoSkewAhead

LEMMA QuietIsSpec == QuietSpec => Spec
<1>1. [QuietNext]_vars => [Next]_vars
  BY DEF QuietNext
<1> QED BY <1>1, PTL DEF QuietSpec, Spec

(* The inductive invariant: an event that is built and not yet saved is    *)
(* not older than any cache row, so that its insert is never late; while a *)
(* call goes on there is none, so that none is inserted behind a call.     *)
QuietInv ==
  /\ Quiet
  /\ late = {} /\ \A c \in Callers : behind[c] = {}
  /\ \A e \in InFlight, row \in aggregate_cache : row.time =< time[e]

LEMMA QuietInit == Init => QuietInv
BY DEF Init, QuietInv, Quiet, InFlight, InCall

LEMMA InFlightNotOvertaken ==
  ASSUME TypeOK, QuietInv, NEW e \in InFlight
  PROVE  /\ \A key : ~ Overtaken(e, key)
         /\ \A c \in Callers : ~ Passed(c, e)
<1>1. \A c \in Callers : pc[c] \notin InCall
  BY DEF QuietInv, Quiet
<1>2. \A row \in aggregate_cache : ~ (row.time > time[e])
  BY DEF QuietInv, TypeOK, CacheRows, InFlight
<1> QED BY <1>1, <1>2 DEF Overtaken, Passed, InCall

LEMMA QuietStep ==
  ASSUME ClocksAgree, TypeOK, InOrderInv, QuietInv, [QuietNext]_vars
  PROVE  QuietInv'
<1> DEFINE NoneBehind == \A c \in Callers : behind[c] = {}
<1>1. Quiet'
  BY DEF QuietInv, Quiet, QuietNext, InFlight, HasId, vars
<1>2. ASSUME UNCHANGED <<events, created, time, aggregate_cache, late>>, NoneBehind'
      PROVE  QuietInv'
  BY <1>1, <1>2 DEF QuietInv, InFlight, HasId
<1>3. ASSUME NEW f \in Events, CreateEvent(f) PROVE QuietInv'
  <2>1. PICK now \in {clock, clock + 1} \cap (0 .. MaxClock), skew \in Skews :
          time' = [time EXCEPT ![f] = now + skew]
    BY <1>3 DEF CreateEvent
  <2>2. /\ f \notin created /\ created' = created \cup {f}
        /\ UNCHANGED <<events, aggregate_cache, behind, late>>
    BY <1>3 DEF CreateEvent
  <2>3. clock =< time'[f]
    BY <2>1 DEF ClocksAgree, TypeOK
  <2>4. ASSUME NEW e \in InFlight', NEW row \in aggregate_cache
        PROVE  row.time =< time'[e]
    <3>1. CASE e = f
      <4>1. row.time =< clock /\ row.time \in Int /\ clock \in Int
        BY AggregationAssumption DEF InOrderInv, RowInOrder, TypeOK, CacheRows
      <4>2. time'[f] \in Int
        BY <2>1 DEF TypeOK, ClocksAgree
      <4> QED BY <2>3, <3>1, <4>1, <4>2
    <3>2. CASE e # f
      <4>1. e \in InFlight /\ time'[e] = time[e]
        BY <2>1, <2>2, <3>2 DEF InFlight, HasId, TypeOK
      <4> QED BY <4>1 DEF QuietInv
    <3> QED BY <3>1, <3>2
  <2> QED BY <1>1, <2>2, <2>4 DEF QuietInv
<1>4. ASSUME NEW f \in Events, Save(f) PROVE QuietInv'
  <2>1. UNCHANGED <<created, time, aggregate_cache>> /\ events \subseteq events'
    BY <1>4 DEF Save, Insert
  <2>2. InFlight' \subseteq InFlight
    BY <2>1 DEF InFlight, HasId
  <2>3. late' = {} /\ NoneBehind'
    <3>1. ~ HasId(f) => f \in InFlight
      BY <1>4 DEF Save, InFlight
    <3>2. /\ \A k \in Keys : ~ (~ HasId(f) /\ Overtaken(f, k))
          /\ \A c \in Callers : ~ (~ HasId(f) /\ Passed(c, f))
      BY <3>1, InFlightNotOvertaken
    <3> QED BY <1>4, <3>2 DEF Save, QuietInv
  <2> QED BY <1>1, <2>1, <2>2, <2>3 DEF QuietInv
<1>5. ASSUME NEW c \in Callers, CacheSave(c) PROVE QuietInv'
  <2>1. pc[c] \in InCall /\ UNCHANGED <<events, created>>
    BY <1>5 DEF CacheSave, InCall
  <2>2. InFlight' = {}
    BY <2>1 DEF QuietInv, Quiet, InFlight, HasId
  <2>3. late' = {} /\ NoneBehind'
    BY <1>5, CallStores DEF QuietInv, CacheSave, TypeOK
  <2> QED BY <1>1, <2>2, <2>3 DEF QuietInv
<1>6. ASSUME NEW c \in Callers, NEW a \in Aggregators,
             CacheMiss(c, a) \/ CacheHit(c, a) \/ CacheUndecodable(c, a)
      PROVE  QuietInv'
  BY <1>2, <1>6 DEF CacheMiss, CacheHit, CacheUndecodable, QuietInv
<1>7. ASSUME NEW c \in Callers,
             ReadEvents(c) \/ RowUndecodable(c) \/ StartCacheSave(c) \/ Fail(c)
      PROVE  QuietInv'
  BY <1>2, <1>7 DEF ReadEvents, RowUndecodable, StartCacheSave, Fail, QuietInv, TypeOK
<1>8. CASE UNCHANGED vars
  BY <1>2, <1>8 DEF vars, QuietInv
<1> QED BY <1>3, <1>4, <1>5, <1>6, <1>7, <1>8 DEF QuietNext, Next

(* All that holds of quiet use.                                            *)
IInv ==
  /\ TypeOK
  /\ FoldedAreStored
  /\ InOrderInv
  /\ CompleteInv
  /\ QuietInv

LEMMA InvHolds ==
  ASSUME ClocksAgree, InjectiveKeys
  PROVE  QuietSpec => []IInv
<1>1. Init => IInv
  BY TypeInit, StoredInit, InOrderInit, CompleteInit, QuietInit DEF IInv
<1>2. IInv /\ [QuietNext]_vars => IInv'
  <2> SUFFICES ASSUME IInv, [QuietNext]_vars PROVE IInv'
    OBVIOUS
  <2>1. [Next]_vars /\ NoSkewAhead
    BY AgreeingIsNotAhead DEF QuietNext
  <2> QED BY <2>1, TypeStep, StoredStep, InOrderStep, CompleteStep, QuietStep DEF IInv
<1> QED BY <1>1, <1>2, PTL DEF QuietSpec
--------------------------------------------------------------------------------
(* A call that has folded has made what a read of all the table makes.     *)
FoldsAreFull ==
  \A c \in Callers : pc[c] = "folded" => IsFullRead(acc[c], aggregator[c])

LEMMA FullWhenQuiet == IInv => FoldsAreFull
<1> SUFFICES ASSUME IInv, NEW c \in Callers, pc[c] = "folded"
             PROVE  IsFullRead(acc[c], aggregator[c])
  BY DEF FoldsAreFull
<1> DEFINE q == QueryOf[aggregator[c]]
<1>1. Range(acc[c]) \subseteq events \cap Selects[q]
  BY DEF IInv, FoldedAreStored
<1>2. Due(q) \ behind[c] = events \cap Selects[q]
  BY DEF IInv, QuietInv, Due
<1>3. events \cap Selects[q] \subseteq Range(acc[c])
  BY <1>2 DEF IInv, CompleteInv, CallComplete
<1>4. OnceInOrder(acc[c])
  BY DEF IInv, InOrderInv, CallInOrder
<1> QED BY <1>1, <1>3, <1>4 DEF IsFullRead, Matching

(* Used quietly, by programs whose clocks agree with the database's, with  *)
(* a cache key for each query, a call that resumes from the cache folds    *)
(* what a call without a cache would (Store::aggregate, store.rs).         *)
THEOREM MemoizationIsTransparent ==
  ASSUME ClocksAgree, InjectiveKeys
  PROVE  QuietSpec => MemoTransparent
<1>1. FoldsAreFull' => [\A c \in Callers :
                          pc[c] = "resumed" /\ pc'[c] = "folded"
                            => IsFullRead(acc[c], aggregator[c])']_vars
  BY DEF FoldsAreFull
<1> QED BY <1>1, FullWhenQuiet, InvHolds, PTL DEF MemoTransparent
--------------------------------------------------------------------------------
(* The refinement.  A list that is a full read is one that read may return.*)
LEMMA FullReadIsRead ==
  ASSUME NEW list \in Aggregates, NEW S \in SUBSET Events,
         Range(list) = S, OnceInOrder(list)
  PROVE  list \in OrderedBy(S, time)
<1>1. Len(list) \in Nat /\ DOMAIN list = 1 .. Len(list) /\ list \in [1 .. Len(list) -> S]
  BY LenProperties DEF Aggregates, Range
<1>2. \A e \in S : \E i \in 1 .. Len(list) : list[i] = e
  BY <1>1 DEF Range
<1>3. \A i, j \in 1 .. Len(list) :
        i < j => list[i] # list[j] /\ time[list[i]] =< time[list[j]]
  BY <1>1 DEF OnceInOrder
<1>4. Cardinality(S) = Len(list)
  <2>1. \A i, j \in 1 .. Len(list) : list[i] = list[j] => i = j
    <3> SUFFICES ASSUME NEW i \in 1 .. Len(list), NEW j \in 1 .. Len(list), i # j
                 PROVE  list[i] # list[j]
      OBVIOUS
    <3>1. i < j \/ j < i
      BY <1>1
    <3> QED BY <1>3, <3>1
  <2>2. list \in Bijection(1 .. Len(list), S)
    BY <1>1, <1>2, <2>1, Fun_IsBij
  <2> QED BY <1>1, <2>2, FS_CountingElements DEF ExistsBijection
<1> QED BY <1>1, <1>2, <1>3, <1>4 DEF OrderedBy

(* A step in one call: what the others show does not change.               *)
LEMMA OneCallShows ==
  ASSUME NEW c \in Callers, NEW p, NEW list,
         \A d \in Callers \ {c} : pc'[d] = pc[d] /\ acc'[d] = acc[d],
         AbstractPc'[c] = p, AbstractAcc'[c] = list
  PROVE  /\ AbstractPc' = [AbstractPc EXCEPT ![c] = p]
         /\ AbstractAcc' = [AbstractAcc EXCEPT ![c] = list]
BY DEF AbstractPc, AbstractAcc

LEMMA UncachedInit ==
  ASSUME Init
  PROVE  Uncached!Init
<1>1. time \in [Events -> Int]
  BY DEF Init
<1>2. AbstractPc = [c \in Callers |-> "idle"] /\ AbstractAcc = [c \in Callers |-> <<>>]
  BY DEF Init, AbstractPc, AbstractAcc
<1> QED BY <1>1, <1>2 DEF Init, Uncached!Init

LEMMA CreateIsCreate ==
  ASSUME TypeOK, TypeOK', NEW e \in Events, CreateEvent(e)
  PROVE  Uncached!CreateEvent(e)
<1>1. time' \in [Events -> Int] /\ \A f \in Events \ {e} : time'[f] = time[f]
  BY DEF CreateEvent, TypeOK
<1>2. UNCHANGED <<AbstractPc, AbstractAcc>>
  BY DEF CreateEvent, AbstractPc, AbstractAcc
<1> QED BY <1>1, <1>2 DEF CreateEvent, Uncached!CreateEvent

LEMMA SaveIsSave ==
  ASSUME NEW e \in Events, Save(e)
  PROVE  Uncached!Save(e)
<1>1. UNCHANGED <<AbstractPc, AbstractAcc>>
  BY DEF Save, AbstractPc, AbstractAcc
<1> QED BY <1>1 DEF Save, Insert, HasId, Uncached!Save, Uncached!Insert, Uncached!HasId

(* A call that reads the cache, whatever it finds, has only started.       *)
LEMMA CacheReadIsCall ==
  ASSUME TypeOK, NEW c \in Callers, NEW a \in Aggregators,
         CacheMiss(c, a) \/ CacheHit(c, a)
  PROVE  Uncached!Call(c, a)
<1>1. pc[c] \notin InCall /\ pc'[c] = "resumed" /\ aggregator' = [aggregator EXCEPT ![c] = a]
  BY DEF CacheMiss, CacheHit, TypeOK
<1>2. UNCHANGED <<events, created, time>>
  BY DEF CacheMiss, CacheHit
<1>3. \A d \in Callers \ {c} : pc'[d] = pc[d] /\ acc'[d] = acc[d]
  BY CallStarts
<1>4. AbstractPc[c] \notin Uncached!InCall
  BY <1>1 DEF AbstractPc, InCall, Uncached!InCall, TypeOK
<1>5. AbstractPc'[c] = "called" /\ AbstractAcc'[c] = <<>>
  BY <1>1 DEF AbstractPc, AbstractAcc
<1> QED BY <1>1, <1>2, <1>3, <1>4, <1>5, OneCallShows DEF Uncached!Call

(* Whatever makes a call fail, it shows as one failure.                    *)
LEMMA FailureIsFail ==
  ASSUME TypeOK, NEW c \in Callers, NEW a \in Aggregators,
         pc[c] \in InCall => a = aggregator[c],
         pc'[c] = "failed", acc'[c] = <<>>,
         \A d \in Callers \ {c} : pc'[d] = pc[d] /\ acc'[d] = acc[d],
         aggregator' = [aggregator EXCEPT ![c] = a],
         UNCHANGED <<events, created, time>>
  PROVE  Uncached!Fail(c, a)
<1>1. AbstractPc'[c] = "failed" /\ AbstractAcc'[c] = <<>>
  BY DEF AbstractPc, AbstractAcc
<1>2. AbstractPc[c] \in Uncached!InCall => a = aggregator[c]
  BY DEF AbstractPc, InCall, Uncached!InCall, TypeOK
<1> QED BY <1>1, <1>2, OneCallShows DEF Uncached!Fail

(* The read of the events since the cache row is the read of all of them.  *)
LEMMA ReadIsReadAll ==
  ASSUME TypeOK, FoldsAreFull', TypeOK', NEW c \in Callers, ReadEvents(c)
  PROVE  Uncached!ReadAll(c)
<1> DEFINE q == QueryOf[aggregator[c]]
           all == events \cap Selects[q]
<1>1. /\ pc[c] = "resumed" /\ pc'[c] = "folded"
      /\ UNCHANGED <<events, created, time, aggregator>>
      /\ \A d \in Callers \ {c} : pc'[d] = pc[d] /\ acc'[d] = acc[d]
  BY ReadAppends DEF ReadEvents, TypeOK
<1>2. Range(acc'[c]) = all /\ OnceInOrder(acc'[c])
  BY <1>1 DEF FoldsAreFull, IsFullRead, Matching, OnceInOrder
<1>3. acc'[c] \in Aggregates /\ all \in SUBSET Events
  BY DEF TypeOK
<1>4. acc'[c] \in OrderedBy(all, time)
  BY <1>2, <1>3, FullReadIsRead
<1>5. acc'[c] \in Uncached!Read(q, time, {})
  <2>1. Uncached!Cardinality(all) = Cardinality(all)
    BY DEF Cardinality, Uncached!Cardinality
  <2> QED BY <1>4, <2>1 DEF OrderedBy, Uncached!Read, Uncached!Matching, Uncached!OrderedBy
<1>6. AbstractPc[c] = "called" /\ AbstractPc'[c] = "read" /\ AbstractAcc'[c] = acc'[c]
  BY <1>1 DEF AbstractPc, AbstractAcc
<1> QED BY <1>1, <1>5, <1>6, OneCallShows DEF Uncached!ReadAll

LEMMA StampIsInvisible ==
  ASSUME TypeOK, NEW c \in Callers, StartCacheSave(c)
  PROVE  UNCHANGED Uncached!vars
<1>1. UNCHANGED AbstractPc
  BY DEF StartCacheSave, AbstractPc, TypeOK
<1>2. UNCHANGED AbstractAcc
  BY DEF StartCacheSave, AbstractAcc, TypeOK
<1> QED BY <1>1, <1>2 DEF StartCacheSave, Uncached!vars

(* The cache write ends the call.                                          *)
LEMMA CacheSaveEnds ==
  ASSUME TypeOK, NEW c \in Callers, CacheSave(c)
  PROVE  Uncached!Return(c) \/ Uncached!Fail(c, aggregator[c])
<1>1. /\ pc[c] = "stamped" /\ UNCHANGED <<events, created, time, aggregator>>
      /\ \A d \in Callers \ {c} : pc'[d] = pc[d] /\ acc'[d] = acc[d]
  BY CallStores DEF CacheSave
<1>2. aggregator' = [aggregator EXCEPT ![c] = aggregator[c]] /\ aggregator[c] \in Aggregators
  BY <1>1 DEF TypeOK
<1>3. ASSUME pc'[c] = "returned", UNCHANGED acc PROVE Uncached!Return(c)
  <2>1. /\ AbstractPc[c] = "read" /\ AbstractPc'[c] = "returned"
        /\ AbstractAcc' = AbstractAcc
    BY <1>1, <1>3 DEF AbstractPc, AbstractAcc
  <2> QED BY <1>1, <2>1, OneCallShows DEF Uncached!Return
<1>4. ASSUME pc'[c] = "failed", acc'[c] = <<>> PROVE Uncached!Fail(c, aggregator[c])
  BY <1>1, <1>2, <1>4, FailureIsFail
<1>5. \/ pc'[c] = "returned" /\ UNCHANGED acc
      \/ pc'[c] = "failed" /\ acc'[c] = <<>>
  BY Reset DEF CacheSave, TypeOK
<1> QED BY <1>3, <1>4, <1>5

LEMMA UncachedStep ==
  ASSUME TypeOK, TypeOK', FoldsAreFull', [Next]_vars
  PROVE  Uncached!Next \/ UNCHANGED Uncached!vars
<1>1. ASSUME NEW e \in Events, CreateEvent(e) \/ Save(e) PROVE Uncached!Next
  BY <1>1, CreateIsCreate, SaveIsSave DEF Uncached!Next
<1>2. ASSUME NEW c \in Callers, NEW a \in Aggregators, CacheMiss(c, a) \/ CacheHit(c, a)
      PROVE  Uncached!Next
  BY <1>2, CacheReadIsCall DEF Uncached!Next
<1>3. ASSUME NEW c \in Callers, NEW a \in Aggregators, CacheUndecodable(c, a)
      PROVE  Uncached!Next
  <2>1. /\ pc[c] \notin InCall /\ pc'[c] = "failed" /\ acc'[c] = <<>>
        /\ aggregator' = [aggregator EXCEPT ![c] = a]
        /\ UNCHANGED <<events, created, time>>
        /\ \A d \in Callers \ {c} : pc'[d] = pc[d] /\ acc'[d] = acc[d]
    BY <1>3, Reset DEF CacheUndecodable, TypeOK
  <2> QED BY <2>1, FailureIsFail DEF Uncached!Next
<1>4. ASSUME NEW c \in Callers, ReadEvents(c) PROVE Uncached!Next
  BY <1>4, ReadIsReadAll DEF Uncached!Next
<1>5. ASSUME NEW c \in Callers, RowUndecodable(c) \/ Fail(c) PROVE Uncached!Next
  <2>1. /\ pc[c] \in InCall /\ pc'[c] = "failed" /\ acc'[c] = <<>>
        /\ UNCHANGED <<events, created, time, aggregator>>
        /\ \A d \in Callers \ {c} : pc'[d] = pc[d] /\ acc'[d] = acc[d]
    BY <1>5, CallFails DEF RowUndecodable, Fail, InCall
  <2>2. aggregator[c] \in Aggregators /\ aggregator' = [aggregator EXCEPT ![c] = aggregator[c]]
    BY <2>1 DEF TypeOK
  <2> QED BY <2>1, <2>2, FailureIsFail DEF Uncached!Next
<1>6. ASSUME NEW c \in Callers, CacheSave(c) PROVE Uncached!Next
  BY <1>6, CacheSaveEnds DEF Uncached!Next, TypeOK
<1>7. CASE UNCHANGED vars
  BY <1>7 DEF vars, Uncached!vars, AbstractPc, AbstractAcc
<1> QED BY <1>1, <1>2, <1>3, <1>4, <1>5, <1>6, <1>7, StampIsInvisible DEF Next

(* Used quietly, by programs whose clocks agree, with a cache key for each *)
(* query, the cached aggregate implements the one without a cache: each    *)
(* call takes, in one step, all that its query selects (store_query.rs).   *)
THEOREM CachedImplementsUncached ==
  ASSUME ClocksAgree, InjectiveKeys
  PROVE  QuietSpec => ImplementsUncached
<1>1. TypeOK /\ TypeOK' /\ FoldsAreFull' /\ [QuietNext]_vars
        => [Uncached!Next]_(Uncached!vars)
  BY UncachedStep DEF QuietNext
<1>2. IInv => TypeOK
  BY DEF IInv
<1> QED BY <1>1, <1>2, UncachedInit, FullWhenQuiet, InvHolds, PTL
        DEF QuietSpec, Uncached!Spec, ImplementsUncached
================================================================================
