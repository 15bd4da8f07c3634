------------------------------ MODULE Aggregation ------------------------------
(***************************************************************************)
(* Store::aggregate, run by any number of callers (tasks, processes) over  *)
(* one shared database, while events are created and saved around it.  A   *)
(* call is: read the cache, read the events since the cached time, fold,   *)
(* write the cache; the caller awaits between these, so calls and saves    *)
(* interleave at every one of these points.                                *)
(***************************************************************************)
EXTENDS PgStore, PgCache, Sequences, Functions

CONSTANTS
  Callers,    \* the tasks that call aggregate
  QueryOf,    \* QueryOf[a] is T::query(query_args)
  UniqueId,   \* UniqueId[q] is q.unique_id(), the cache key of the query
  Variants,   \* Variants[a]: the events a's Events enum can decode
  Skews,      \* how far the clock of an event's creator may be off
  MaxClock    \* bound on the database clock

ASSUME AggregationAssumption ==
  /\ QueryOf \in [Aggregators -> Queries]
  /\ UniqueId \in [Queries -> Keys]
  /\ Variants \in [Aggregators -> SUBSET Events]
  /\ Skews \subseteq Int
  /\ MaxClock \in Nat

VARIABLES
  clock,        \* the clock of the database server
  created,      \* the Event values built so far
  time,         \* time[e] is e.context.time
  pc,           \* where each caller stands in aggregate
  aggregator,   \* the T and query_args of the call
  acc,          \* initial_state, then result
  since,        \* the Option of the same name: {} or the time of the cache row
  stamp,        \* now() of the cache write in progress
  behind,       \* history: behind[c], inserted where c had already passed
  late          \* history: <<e, key>> when e was stored behind a row of key

vars == <<events, aggregate_cache, clock, created, time, pc, aggregator, acc,
          since, stamp, behind, late>>

KeyOf(a) == UniqueId[QueryOf[a]]

InCall == {"resumed", "folded", "stamped"}

(***************************************************************************)
(* An aggregate is T::default() with events applied to it one after the    *)
(* other.  The list of these events stands for it: whatever apply_event    *)
(* does, the aggregate is a function of the list.                          *)
(***************************************************************************)
Aggregates == Seq(Events)

Init ==
  /\ events = {}
  /\ aggregate_cache = {}
  /\ clock = 0
  /\ created = {}
  /\ time = [e \in Events |-> 0]
  /\ pc = [c \in Callers |-> "idle"]
  /\ aggregator \in [Callers -> Aggregators]
  /\ acc = [c \in Callers |-> <<>>]
  /\ since = [c \in Callers |-> {}]
  /\ stamp = [c \in Callers |-> 0]
  /\ behind = [c \in Callers |-> {}]
  /\ late = {}
--------------------------------------------------------------------------------
(***************************************************************************)
(* Event::from_data stamps the event with Utc::now() of its creator, whose *)
(* clock differs from the database's by a skew.  Time may pass before it.  *)
(***************************************************************************)
CreateEvent(e) ==
  /\ e \notin created
  /\ \E now \in {clock, clock + 1} \cap (0 .. MaxClock), skew \in Skews :
       /\ clock' = now
       /\ time' = [time EXCEPT ![e] = now + skew]
  /\ created' = created \cup {e}
  /\ UNCHANGED <<events, aggregate_cache, pc, aggregator, acc, since, stamp,
                 behind, late>>

(* The cache row of key is younger than e.                                 *)
Overtaken(e, key) ==
  \E row \in aggregate_cache : row.id = key /\ row.time > time[e]

(* The call of c is past the place of e: it has read, or is about to read  *)
(* only what is younger.                                                   *)
Passed(c, e) ==
  \/ pc[c] = "resumed" /\ \E t \in since[c] : t > time[e]
  \/ pc[c] = "folded"
  \/ pc[c] = "stamped" /\ stamp[c] > time[e]

(* PgStoreAdapter::save: one insert, in a transaction of its own.  Saving  *)
(* an id that is there already changes nothing.                            *)
Save(e) ==
  /\ e \in created
  /\ Insert(e)
  /\ late' = late \cup
       {<<e, key>> : key \in {k \in Keys : ~ HasId(e) /\ Overtaken(e, k)}}
  /\ behind' = [c \in Callers |->
       IF ~ HasId(e) /\ Passed(c, e) THEN behind[c] \cup {e} ELSE behind[c]]
  /\ UNCHANGED <<aggregate_cache, clock, created, time, pc, aggregator, acc,
                 since, stamp>>

(***************************************************************************)
(* `self.cache.read(&cache_key)`: without a row the fold starts from       *)
(* T::default() and reads every event; with one it resumes from the row.   *)
(***************************************************************************)
CacheMiss(c, a) ==
  /\ pc[c] \notin InCall
  /\ CacheRead(KeyOf(a)) = {}
  /\ pc' = [pc EXCEPT ![c] = "resumed"]
  /\ aggregator' = [aggregator EXCEPT ![c] = a]
  /\ acc' = [acc EXCEPT ![c] = <<>>]
  /\ since' = [since EXCEPT ![c] = {}]
  /\ UNCHANGED <<events, aggregate_cache, clock, created, time, stamp, behind,
                 late>>

CacheHit(c, a) ==
  /\ pc[c] \notin InCall
  /\ \E row \in CacheRead(KeyOf(a)) :
       /\ row.type \in Decodes[a]
       /\ acc' = [acc EXCEPT ![c] = row.data]
       /\ since' = [since EXCEPT ![c] = {row.time}]
  /\ pc' = [pc EXCEPT ![c] = "resumed"]
  /\ aggregator' = [aggregator EXCEPT ![c] = a]
  /\ UNCHANGED <<events, aggregate_cache, clock, created, time, stamp, behind,
                 late>>

(* The row was written by a type whose JSON T cannot read: the expect      *)
(* "Cant decode the cached entity" panics and the call never returns.      *)
CacheUndecodable(c, a) ==
  /\ pc[c] \notin InCall
  /\ \E row \in CacheRead(KeyOf(a)) : row.type \notin Decodes[a]
  /\ pc' = [pc EXCEPT ![c] = "failed"]
  /\ aggregator' = [aggregator EXCEPT ![c] = a]
  /\ acc' = [acc EXCEPT ![c] = <<>>]
  /\ UNCHANGED <<events, aggregate_cache, clock, created, time, since, stamp,
                 behind, late>>

(***************************************************************************)
(* `self.store.read(&store_query, since)` and the fold of apply_event over *)
(* what it returns.  A row that is no variant of E panics in read.         *)
(***************************************************************************)
Found(c) == Matching(QueryOf[aggregator[c]], time, since[c])

ReadEvents(c) ==
  /\ pc[c] = "resumed"
  /\ Found(c) \subseteq Variants[aggregator[c]]
  /\ \E rows \in Read(QueryOf[aggregator[c]], time, since[c]) :
       acc' = [acc EXCEPT ![c] = @ \o rows]
  /\ pc' = [pc EXCEPT ![c] = "folded"]
  /\ since' = [since EXCEPT ![c] = {}]
  /\ UNCHANGED <<events, aggregate_cache, clock, created, time, aggregator,
                 stamp, behind, late>>

RowUndecodable(c) ==
  /\ pc[c] = "resumed"
  /\ ~ (Found(c) \subseteq Variants[aggregator[c]])
  /\ pc' = [pc EXCEPT ![c] = "failed"]
  /\ acc' = [acc EXCEPT ![c] = <<>>]
  /\ since' = [since EXCEPT ![c] = {}]
  /\ behind' = [behind EXCEPT ![c] = {}]
  /\ UNCHANGED <<events, aggregate_cache, clock, created, time, aggregator,
                 stamp, late>>

(***************************************************************************)
(* `self.cache.save(&cache_key, &result)`.  now() is the time at which the *)
(* statement starts; the row changes when the statement holds its lock,    *)
(* and another caller's write to the same key may come in between.  The    *)
(* statement starts at least one round trip after the event it folded last *)
(* was created, so a clock that counts microseconds has moved on.          *)
(***************************************************************************)
StartCacheSave(c) ==
  /\ pc[c] = "folded"
  /\ clock < MaxClock
  /\ clock' = clock + 1
  /\ stamp' = [stamp EXCEPT ![c] = clock + 1]
  /\ pc' = [pc EXCEPT ![c] = "stamped"]
  /\ UNCHANGED <<events, aggregate_cache, created, time, aggregator, acc, since,
                 behind, late>>

(* The write takes effect; the call returns its result, or fails when the  *)
(* answer of the database is lost.                                         *)
CacheSave(c) ==
  /\ pc[c] = "stamped"
  /\ CacheUpsert(KeyOf(aggregator[c]), aggregator[c], acc[c], stamp[c])
  /\ \/ /\ pc' = [pc EXCEPT ![c] = "returned"]
        /\ UNCHANGED acc
     \/ /\ pc' = [pc EXCEPT ![c] = "failed"]
        /\ acc' = [acc EXCEPT ![c] = <<>>]
  /\ stamp' = [stamp EXCEPT ![c] = 0]
  /\ late' = late \cup
       {<<e, KeyOf(aggregator[c])>> : e \in {f \in behind[c] : time[f] < stamp[c]}}
  /\ behind' = [behind EXCEPT ![c] = {}]
  /\ UNCHANGED <<events, clock, created, time, aggregator, since>>

(* A database error, a panic or a crash of the caller between two steps.   *)
(* An error of cache.save fails a call whose result was already there.     *)
Fail(c) ==
  /\ pc[c] \in InCall
  /\ pc' = [pc EXCEPT ![c] = "failed"]
  /\ acc' = [acc EXCEPT ![c] = <<>>]
  /\ since' = [since EXCEPT ![c] = {}]
  /\ stamp' = [stamp EXCEPT ![c] = 0]
  /\ behind' = [behind EXCEPT ![c] = {}]
  /\ UNCHANGED <<events, aggregate_cache, clock, created, time, aggregator, late>>

Next ==
  \/ \E e \in Events : CreateEvent(e) \/ Save(e)
  \/ \E c \in Callers, a \in Aggregators :
       CacheMiss(c, a) \/ CacheHit(c, a) \/ CacheUndecodable(c, a)
  \/ \E c \in Callers :
       \/ ReadEvents(c) \/ RowUndecodable(c)
       \/ StartCacheSave(c) \/ CacheSave(c) \/ Fail(c)

Spec == Init /\ [][Next]_vars
--------------------------------------------------------------------------------
(* The variables have their types, and the primary keys of the two tables  *)
(* hold: no UUID has two rows in `events` (pg.rs, INIT_QUERIES and save),  *)
(* no key two rows in `aggregate_cache` (cache/pg.rs, `on conflict`).      *)
TypeOK ==
  /\ events \subseteq created
  /\ created \subseteq Events
  /\ UniqueIds
  /\ aggregate_cache \subseteq CacheRows(Aggregates)
  /\ UniqueKeys
  /\ clock \in 0 .. MaxClock
  /\ time \in [Events -> Int]
  /\ pc \in [Callers -> InCall \cup {"idle", "returned", "failed"}]
  /\ aggregator \in [Callers -> Aggregators]
  /\ acc \in [Callers -> Aggregates]
  /\ since \in [Callers -> SUBSET Int]
  /\ stamp \in [Callers -> Int]
  /\ behind \in [Callers -> SUBSET created]
  /\ late \subseteq created \X Keys

(* What a caller folds or gets back, and what the cache keeps for others,  *)
(* was made of stored events which the caller's own query selects:         *)
(* Store::aggregate reads through the cache and never beyond the query.    *)
FoldedAreStored ==
  /\ \A c \in Callers :
       Range(acc[c]) \subseteq events \cap Selects[QueryOf[aggregator[c]]]
  /\ \A row \in aggregate_cache, q \in Queries :
       UniqueId[q] = row.id => Range(row.data) \subseteq events \cap Selects[q]

(* An aggregate has each event applied at most once, and the events in the *)
(* order of their context.time, however many cached calls it took: what    *)
(* `time >= since order by time` (generate_query) and the time of the      *)
(* cache write have to achieve together.                                   *)
OnceInOrder(list) ==
  \A i, j \in DOMAIN list :
    i < j => list[i] # list[j] /\ time[list[i]] =< time[list[j]]

FoldedOnceInOrder ==
  /\ \A c \in Callers : OnceInOrder(acc[c])
  /\ \A row \in aggregate_cache : OnceInOrder(row.data)

(* The fold that Store::aggregate has just made lacks a stored event of    *)
(* its query only if that event was inserted behind this very call, or is  *)
(* late for its key: it was inserted behind the cache row, or behind a     *)
(* call that then wrote a row with a younger time than the event's.        *)
OnlyLateMissed ==
  \A c \in Callers : pc[c] = "folded" =>
    \A e \in events \cap Selects[QueryOf[aggregator[c]]] :
      \/ e \in Range(acc[c]) \cup behind[c]
      \/ <<e, KeyOf(aggregator[c])>> \in late

(* Memoization is transparent: the fold of a call that resumed from the    *)
(* cache is the fold of a call that reads all of the table at that moment  *)
(* (the purpose of the cache, store_query.rs).                             *)
IsFullRead(list, a) ==
  LET rows == Matching(QueryOf[a], time, {})
  IN  /\ Range(list) = rows
      /\ OnceInOrder(list)

MemoTransparent ==
  [][\A c \in Callers :
       pc[c] = "resumed" /\ pc'[c] = "folded"
         => IsFullRead(acc[c], aggregator[c])']_vars

(* A call resumes only from a state that its own aggregator type built:    *)
(* the cache key is made of the query alone (unique_id), not of T.         *)
ResumesOwnState ==
  [][\A c \in Callers :
       pc[c] \notin InCall /\ pc'[c] = "resumed"
         => \A row \in CacheRead(KeyOf(aggregator'[c])) :
              row.type = aggregator'[c]]_vars
================================================================================
