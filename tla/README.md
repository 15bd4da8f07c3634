# A TLA+ model of event-store-rs

event-store-rs is an event store in Rust. A service saves events into a
Postgres table, tells other services of them through RabbitMQ, and aggregates
the stored events of a query into a value, with a cache of earlier aggregates
in a second table. Around the library there are derive macros for event types,
a command line tool that merges the event tables of several services (the
*unifier*) and a GTK window to look at events (the *explorer*).

The code is asynchronous: every call of the database or the broker is an
`await`, and at each of them other tasks and other processes go on. Nothing in
it locks, and every guarantee comes from the order of the calls, from the
primary keys of two tables, and from comparisons of times that come from
different clocks. That is what the specifications here are about.

Contents: [inventory](#1-inventory) -
[modules](#2-modules-and-how-they-correspond-to-the-code) -
[runs and bounds](#3-what-the-runs-check) -
[fairness](#4-fairness) - [proofs](#5-what-is-proved) -
[disagreements](#6-where-code-and-documentation-disagree) -
[not modelled](#7-what-is-not-modelled-and-why) - [plan](#8-plan).

## 1. Inventory

| Component | Source | State | Operations | Modelled in |
|---|---|---|---|---|
| `Store` | `event-store/src/store.rs`, `aggregator.rs`, `store_query.rs` | none of its own; locals of each call across its awaits | `aggregate`, `save`, `emit`, `subscribe`, `read_events_since` | `Aggregation`, `Delivery`, `TypedStore` |
| `PgStoreAdapter` | `adapters/store/pg.rs` | table `events`, primary key `id` | `save` (insert, Duplicate), `read` with or without a time, `read_events_since`, `unique_id` | `PgStore`, `TimeText`, `TypedStore` |
| `PgCacheAdapter` | `adapters/cache/pg.rs` | table `aggregate_cache`, primary key `id` | `read`, `save` (upsert with `now()`) | `PgCache` |
| `Event`, `EventContext` | `event.rs`, `event_context.rs` | id, time and data of an event | constructors; `context.time` is `Utc::now()` of the creator; JSON | `Aggregation`, `TimeText`, `DerivedEvents` |
| `AmqpEmitterAdapter` | `adapters/emitter/amqp.rs`, `event_handler.rs` | a connection, a channel; per subscription a connection, a durable queue, a spawned loop | `new`, `emit`, `subscribe`, the loop | `Amqp` (the broker), `Delivery` |
| `SubscribableStore` | `subscribable_store.rs` | a `Store` and an emitter | passes each call on | `Service` |
| Unifier | `unifier/src/*.rs` | tables of all domains, of the store and of the destination; one transaction | `main` with `--copy` and `--truncate-dest` | `Unifier` |
| Derive macros | `event-store-derive*` | none; the rows written by earlier versions of a program | generate (de)serialisation by namespace and type | `DerivedEvents`, `TypedStore` |
| Explorer | `explorer/src` | list of results, selection | search, select | no (section 7) |
| `RedisCacheAdapter` | `adapters/cache/redis.rs` | unused | | no (section 7) |

**How they interact.** `aggregate` calls `cache.read`, `store.read`,
`cache.save`, in this order, with an await at each; there is no transaction
around them and no lock on the key. `save` calls `store.save` and then
`emitter.emit`; the two systems share no transaction. `subscribe` opens a
connection, binds a durable queue named after the service and the event, and
spawns a loop that takes one message at a time, calls the handler on the spot,
and acks what the handler has returned `Ok` for; a handler may call the store again, and
the tests aggregate after a message has come. The unifier reads databases that
services go on writing to, and then rewrites a destination in one transaction.

**What is hard, and what makes each component correct.**

- *Aggregation.* Two calls with one key overlap; events are built, and stamped
  with a time, before they are saved; the times that are compared come from two
  clocks; the upsert's `now()` is older than its effect. Correct would be: a
  cached aggregate is the uncached one. The weaker facts behind it: only stored
  and selected events are folded, none twice, in order of time, and none is
  missing.
- *Saving and delivery.* Processes stop between insert and emit, between handler
  and ack; connections break; the broker restarts; a message fails for ever.
  Correct would be: who is told of an event can read it; no message is lost
  silently once a service has subscribed; one bad message does not hold up the
  others; and `Ok` means emitted.
- *A service.* It aggregates because it was told of an event, or has saved one,
  over a cache that others write. Correct would be: it finds what it knows of.
- *Rows that outlive programs.* Structs are renamed, moved and extended while
  their rows stay; times are stored as text and compared as text. Correct is: a
  row is read as what it was or not at all; and who asks for the events since a
  time gets them all, and no others.
- *Unification.* A run fails half-way; sources change while it reads; two runs
  meet at one destination; ids clash between domains. Correct is: the
  destination changes in one step or not at all, and has everything that was
  there at the start when the run says it succeeded.

`PROJECT.json` lists the hazards one by one at their lines, with the properties
that would catch them.

## 2. Modules and how they correspond to the code

```
PgStore   PgCache          PgStore   Amqp          DerivedEvents  TimeText
     \     /                    \     /                     \      /
   Aggregation ----- Service ----- Delivery               TypedStore
     |                               |  implements
  QuietUse                       AtLeastOnce                Unifier
     |  implements                                             |  implements
UncachedAggregation                                    AtomicUnification
```

A module above a line is extended by the one below it; `Service` instantiates its
two neighbours; the lower end of an `implements` is an abstract specification,
instantiated by the upper one with a refinement mapping. Theorems and their
proofs are in modules of their own: `AggregationProofs`, `QuietUseProofs` (which
extends the former), `DeliveryProofs`, `AtLeastOnceProofs` (which extends the
former), `ServiceProofs`, `TimeTextProofs`, `TypedStoreProofs` (which extends the
former) and `UnifierProofs`.
`MCAggregation`, `MCQuietUse`, `MCDelivery`, `MCService`, `MCTypedStore` and
`MCUnifier` only give constants their values.

**PgStore** - the table `events` as a set of event values. An event *value*
(data, context and id, what Rust calls `Event<ED>`) is kept apart from its
*id*, because callers may choose ids and two values can carry the same one:
`Insert` of a known id is the `UNIQUE_VIOLATION` that `pg.rs` turns into
`Duplicate`. `Read` is `generate_query`: all rows of the query, or those with
`time >= since`, in any order that is sorted by time. A query is the set of
events that its text selects.

**PgCache** - the table `aggregate_cache` as a set of rows: the key, the
serialised aggregate, the time of the write. The real JSON does not name the
type it was made from; `type` records it so that decoding can be modelled.
`Decodes[a]` says which aggregators' JSON deserialises as `a`'s.

**Aggregation** - `Store::aggregate`. An aggregate is represented by the list of
events that were applied to the default value: whatever `apply_event` does, the
value is a function of this list.

| action | code |
|---|---|
| `CreateEvent` | `Event::from_data` / `EventContext`: `Utc::now()` of the creator, off by a skew from the database's clock |
| `Save` | the insert; the history variables note where it comes too late (see below) |
| `CacheMiss`, `CacheHit`, `CacheUndecodable` | `cache.read`, the default or the row, the `expect` that panics |
| `ReadEvents`, `RowUndecodable` | `store.read` and the fold, the panic at a row that no variant decodes |
| `StartCacheSave`, `CacheSave` | the upsert: `now()` is fixed when the statement starts, the row changes later; the answer may be lost |
| `Fail` | a database error, a panic or a crash at any await |

Two history variables, which guard no action, say what the cache cannot be asked
to have. `behind[c]` are the events that are inserted while the call `c` goes on
and is already past their place: it has folded, or its `since` or `stamp` is
younger. An event is `late` for a key when a row of that key is younger at
the moment of the insert, or when a call writes a row that is younger than an event
inserted behind it. An event behind a call that fails, or whose row turns
out older, is not late: the next call reads it.

Database time is an integer clock. It moves on between the last event a
call folded and the call's cache write, since these are at least one round trip
apart and Postgres counts microseconds; events of one instant are possible.

**QuietUse** - the same actions, with the restriction under which the
repository's tests use the library: what has been built is saved before anyone
aggregates, and nothing is built or saved while a call runs.
**UncachedAggregation** is the abstract specification: a call takes, at one
moment, all events of its query in the order of time.

**Amqp** - what the adapter relies on of RabbitMQ and of the client library
(external): the order of messages on a channel, routing to the queues that are
bound at that moment, pushes without a prefetch limit, acks with the `multiple`
flag, redelivery of what was unacked on a broken connection, and what a restart
of the broker keeps (durable queues and bindings) and does not (messages, which
`emit` does not mark as persistent). Messages are numbered in the order in which
the broker took them; queues hold numbers, and the log of all messages stays.

**Delivery** - `Store::save`, `Store::emit`, `AmqpEmitterAdapter::emit` and
`subscribe`.

| action | code |
|---|---|
| `SaveInserts`, `SaveRefused`, `SavePanics` | the insert and its three ends; an error without a SQL code panics in `unwrap`, perhaps after the commit |
| `Emit`, `EmitFails`, `EmitOnly`, `EmitOnlyFails` | `basic_publish` on the channel that `new` opened; no confirm, no reconnect |
| `PublisherCrash`, `PublisherStart` | a process stops between any two steps, and starts with a new emitter |
| `SubscribeConnects`, `BindQueue`, `Consume` | the awaits of `subscribe` |
| `Deliver` | a push of the broker, also to a loop that has died on an open connection |
| `HandleOk`, `HandleErr`, `Unparseable`, `HandlerPanics` | one turn of the loop up to the ack |
| `Ack`, `AckFails`, `StreamEnds` | the ack and its `expect`, the end of `while let Some(Ok(_))` |
| `Resubscribe`, `ConnectionBreaks`, `BrokerRestart` | faults |

`HandleOk` and `Ack` are two steps since the ack is an await of its own: the
process may stop between them and the message comes again.
**AtLeastOnce** is the abstract specification: rows, a log of announcements, and
what each queue owes its service. It has no processes, connections, wires,
streams or acks. Its `owed` is what waits in the queue or is unacked at one of
its consumers.

**Service** - `SubscribableStore`: `Aggregation` and `Delivery` over one table
`events`. A step is a step of one of them, and the insert is one of both. A
service is a set of publishers, of queues and of callers of `aggregate`. The
history variable `knows` holds, for each call, what the service had been told
of by saves (everything that ever reached one of its streams) or had saved
itself when the call began.

**DerivedEvents** - the derive macros as functions: `AttributeIdent` finds a
namespace or a rename among the attributes of a declaration; `Serialize`,
`Deserialize` and `Decode` are the code that is generated for a struct and, with
`untagged`, for an enum. A struct's type is the set of the values of each of
its fields; a value of a field is a number, `Null` is JSON's null.

**TimeText** - the texts of times: seconds, a period, groups of three digits, and
`Z` or `+00:00`, as sequences of numbers that compare as the bytes do. chrono
writes as few groups as a time needs; `toISOString` of JavaScript, which wrote
rows of this table too, always one. `AtOrAfter` is Postgres's `>=` of two texts
*in byte order* (`+` below the period below the digits below `Z`). The comparison in `pg.rs:215`
names no collation, so it goes by the database's default: this is byte order in
the image that the repository runs on (`postgres:9.6-alpine`, `docker-compose.yml:4`,
whose C library, musl, has no other), or with `C` or `POSIX`; a collation of ICU or of
a recent glibc (such as `en_US`) weighs punctuation and letters otherwise, and nothing said
here about `read_events_since` holds there.

**TypedStore** - rows that stay while programs are replaced.

| action | code |
|---|---|
| `Deploy` | a version of the program with other declarations, if `expect` of the macro lets it compile |
| `Save` | `Store::save` of an event of one of the enum's structs: the JSON of the data, the text of the time. The rows have no id: the insert of a known one, `Duplicate`, is in `PgStore` |
| `ReadEventsSince` | `read_events_since`: namespace and type, text comparison of the time, order by the rounded time |

**Unifier** - `main`: a select per database, the test that the map by id is as
long as the list, and one transaction of an optional `truncate` and upserts.
`Unified` is what query, decoding and encoding make of a row: the time cut to
microseconds, the legacy `type` field gone, an
absent or null `subject` made `{}`. Locks of the table and of rows appear as
guards; a run that Postgres picks as the victim of a deadlock is `Fail`.
**AtomicUnification** is the abstract specification: one step on the
destination or none.

## 3. What the runs check

States and times are of two TLC workers.

| run | instance | shows | distinct states |
|---|---|---|---|
| `aggregation` | 2 callers, 2 events, 2 aggregators that share a key and cannot read each other's rows, one of which cannot read one of the events, skews -1 and 0, clock to 4 | `FoldedOnceInOrder`, `OnlyLateMissed` and `TypeOK` | 1 051 336 |
| `quiet` | 2 callers, 3 events, 3 aggregators on 2 queries and keys, panics of decoding, clocks that agree, quiet use | `FoldedAreStored`, `MemoTransparent`, and that the cached aggregate implements the uncached one | 507 518 |
| `lost_event` | 1 caller, 2 events | violation of `MemoTransparent`, see 6 | |
| `double_count` | 1 caller, quiet use, a clock ahead | violation of `FoldedOnceInOrder`, see 6 | |
| `shared_key` | 2 aggregators of one query | violation of `ResumesOwnState`, see 6 | |
| `delivery` | 1 publisher, 2 competing subscribers on one queue, 2 event values of one id, one of them garbled, 2 sends, 1 fault | `SeenIsStored`, `NoSilentLoss`, `OkUnlessBroken` and `TypeOK` | 1 228 592 |
| `delivery_live` | 1 publisher, 2 subscribers on one queue, 2 sends, 1 fault, fairness | `EventuallySettled`, and that delivery implements `AtLeastOnce` | 368 964 |
| `delivery_unconfirmed` | as `delivery` | violation of `OkMeansEmitted`, see 6 | |
| `service` | 1 service with a publisher, a subscription and a caller, 1 event, skews -1 and 0, clock to 2, 1 send, 1 fault | `KnownIsFound` | 377 999 |
| `typed_events` | 5 versions that follow one another in any order, and one that does not compile; 2 rows; times with fractions of 0, 3, 6 and 9 digits, and one of the next second | `KeepsMeaning`, `SinceMissesNothing`, `NothingBeforeTheSecond` | 343 272 |
| `since_early` | as `typed_events` | violation of `NothingBefore`, see 6 | |
| `unifier` | 2 runs with any options, 2 domains, the store, the destination; a clash of ids, a copy of a foreign event, a row that does not decode | `CompleteOnSuccess`, `TypeOK`, and that a run implements `AtomicUnification` | 436 648 |

**The properties.**

- `FoldedAreStored`: what a caller holds or the cache keeps was made of stored
  events that the caller's query selects.
- `FoldedOnceInOrder`: no aggregate has an event twice, or out of order, across
  any number of cached calls. It holds while no creator's clock is *ahead* of
  the database's; `double_count` shows why this is needed.
- `OnlyLateMissed`: a fold lacks a stored event of its query only if that event
  was inserted behind this very call, after it had read, or is late for the key.
  This is an upper bound on what the cache can lose, and it holds whatever the clocks
  do: a skew makes more events late, it does not lose others. It is no exact
  account: an event stays late when a slower call later replaces the younger row by
  an older one, after which it is read again. And it excuses the damage that a late
  save does rather than catch it: that damage is what `MemoTransparent` is about,
  and `lost_event` shows it.
- `MemoTransparent`: a cached fold is the full fold. True of quiet use with
  clocks that agree, false in general (`lost_event`).
- `SeenIsStored`: an event that a subscriber was told of by `save` is in the
  store.
- `NoSilentLoss`: from the return of `subscribe`, each event of its name is
  waiting, at a consumer, handled, or was lost with a restart of the broker.
- `OkUnlessBroken`: what an `Ok` of `save` does mean. The event is stored, and it
  is on its way or at the broker unless the publisher's connection has broken since.
  `OkMeansEmitted`, without the exception, is false (`delivery_unconfirmed`).
- `DeliversAtLeastOnce`: saving and subscribing implement `AtLeastOnce`. In
  particular a queue's debt for a message arises with its announcement and not
  later, and ends only after a handler of the service has returned `Ok` for this
  very message, whichever of the competing consumers acks it, or with a restart
  of the broker.
- `KnownIsFound`: a service that aggregates finds what it was told of by a save,
  and what it has saved, in the table; and in the fold, if the query selects it
  and it is not late for the key. (It cannot have come in behind the call itself, which
  began after the service knew of it.) This relates the order of
  two systems without a common transaction to the reads of a third party, so
  neither `SeenIsStored` nor `OnlyLateMissed` says it alone.
- `KeepsMeaning`: whatever versions are deployed, a row is read as an event of
  the name it was written under, with the fields it was written with, or not at
  all; and it is read by a version that keeps its declaration and has no two
  variants of one name.
- `SinceMissesNothing`: `read_events_since` returns every event of the name that
  is as late as the time asked for, although it compares texts, and orders
  events that are a microsecond or more apart. `NothingBefore`, the converse of the first
  part, is false (`since_early`).
- `NothingBeforeTheSecond`: what it returns too much is of the second in which the time
  asked for lies. The texts agree up to the seconds with the times, whatever
  follows them.
- `EventuallySettled`: a message that waits is handled or refused in the end,
  whatever becomes of other messages, unless it is stuck with a dead loop on an
  open connection or nobody consumes.
- `CompleteOnSuccess`, `UnifiesAtomically`: see 1.

**Bounds, and why they are enough.** The bounds are `MaxClock` (ticks of the
database clock), `MaxSends` (emits), `MaxFaults` (crashes, broken connections and
restarts of the broker together) and the sizes of the sets. The aggregation
properties relate one list to one event, or two events of one list; what can
break them is two overlapping calls on a key (two callers), an older row that
replaces a younger one (two stamped calls), and an event on each side of a row's
time (two or three events; four ticks let one row be written, an event come
after it, and a second row follow). The delivery properties are about one
message and what happens to another one before or after it (two sends), with a
competing consumer (two subscribers); one fault at any point reaches every
recovery path of the code, as nothing in it counts faults. `service` is the
smallest instance in which everything its property names happens: a row of the
cache before and after the insert, a message before and after the ack, a crash
between insert and emit; its parts have larger instances of their own, and the
proof has none. `MaxRows` is 2, since a row's meaning depends on the version that reads it
and order is a relation of two rows; the versions have each kind of change that
a declaration can undergo (renamed with and without the attribute that keeps
the type, moved to another namespace, a field added, a field of another type, a variant
of the same shape before it). `Groups` is 3 as in chrono, `Base` is 4 instead of
1000: a comparison of texts asks only whether digits are equal or less. The times
have a second of 64 units, so 0, 16, 20 and 21 are one second with fractions of
each length, and 64 is the next one. All of
these are arbitrary in the proofs. The unifier's rows are chosen so that
every reason for a run to fail, and every rewriting, occurs.

`aggregation` and `quiet` use the symmetry of their two callers, `delivery` and
`delivery_unconfirmed` that of the two subscribers of one queue, `unifier` that
of its two runs. Their properties are safety properties that name no caller,
subscriber or run, so the reduction is sound; the run with a liveness property
uses none.

All the runs switch the deadlock check off: a bounded clock or number of
sends lets the model stop, and so may the real system (a run of the unifier
ends, nobody calls).

Every property of a passing run has a mutant in `PROJECT.json`: a change
to one definition of the model, of the kind a bug in that code would be (a
missing `order by`, an ack with `multiple`, a truncate outside the
transaction...), under which TLC finds the property violated. The mutated forms
are the operators marked `Mutant:` in the modules; no specification uses them.

## 4. Fairness

Only `EventuallySettled` needs it. `FairSpec` has weak fairness of

- `Deliver`: a broker pushes what is ready to a registered consumer; there is no
  prefetch limit that a stuck message could use up;
- `Handle` and `Ack \/ AckFails`: the executor polls a task that can go on, and a
  handler is assumed to come back (it is synchronous code of the caller);
- `StreamEnds`: the task is woken when its connection breaks.

Nothing is assumed of callers, of restarts or of new subscriptions: nothing in
the code makes them happen. Hence the exceptions in the property, which are
facts about the code: after a panic of a handler, or a failed ack, nobody
consumes again.

## 5. What is proved

By TLAPS, for every value of the constants under the named assumptions of the
modules (functions have their types, `Events` is finite, publishers are not
subscribers, `Base` is at least 2, the unifier's destination is none of its sources, the rows of the unifier are records of the
five fields that it rewrites).

| theorem | says | assumes also |
|---|---|---|
| `AggregationProofs!TypeCorrect` | `[]TypeOK`, which includes both primary keys | |
| `AggregationProofs!OnlyStoredFolded` | `[]FoldedAreStored` | `InjectiveKeys` |
| `AggregationProofs!AppliedOnceInOrder` | `[]FoldedOnceInOrder` | `NoSkewAhead` |
| `AggregationProofs!MissedOnlyWhenLate` | `[]OnlyLateMissed` | `InjectiveKeys` |
| `AggregationProofs!OwnStateResumed` | `[]ResumesOwnState` | `OwnKeys` |
| `QuietUseProofs!MemoizationIsTransparent` | `[]MemoTransparent` of quiet use | `InjectiveKeys`, `ClocksAgree` |
| `QuietUseProofs!CachedImplementsUncached` | `ImplementsUncached`: `QuietUse` implements `UncachedAggregation` | `InjectiveKeys`, `ClocksAgree` |
| `DeliveryProofs!TypeCorrect` | `[]TypeOK` | |
| `DeliveryProofs!SeenWasStored` | `[]SeenIsStored` | |
| `DeliveryProofs!NothingLostSilently` | `[]NoSilentLoss` | |
| `DeliveryProofs!OkStandsUnlessBroken` | `[]OkUnlessBroken` | |
| `AtLeastOnceProofs!AtLeastOnceDelivered` | `DeliversAtLeastOnce`: `Delivery` implements `AtLeastOnce` | |
| `ServiceProofs!ToldIsFound` | `[]KnownIsFound` | `InjectiveKeys` |
| `TypedStoreProofs!MeaningKept` | `[]KeepsMeaning` | |
| `TypedStoreProofs!NothingSinceMissed` | `[]SinceMissesNothing` | |
| `TypedStoreProofs!EarlyWithinTheSecond` | `[]NothingBeforeTheSecond` | |
| `UnifierProofs!TypeCorrect` | `[]TypeOK`, which includes the primary keys of all tables | |
| `UnifierProofs!SuccessIsComplete` | `[]CompleteOnSuccess` | |
| `UnifierProofs!RunsAreAtomic` | `UnifiesAtomically`: `Unifier` implements `AtomicUnification` | |

`InjectiveKeys` - different queries have different cache keys - is what
`unique_id` is meant for; it is not quite what it does (section 6).
`NoSkewAhead` - no creator's clock is ahead of the database's - is what the
code needs and nowhere establishes. `ClocksAgree` is stronger: events are stamped
by the database's clock itself, as on the one machine where the repository's
tests run; a clock that is behind makes events late without any concurrency.
`OwnKeys` - two aggregators, types with their arguments, have two keys - is what
a caller has to see to: it is true when each aggregator has a query of its own
and the keys are injective, and the run `shared_key` is what happens otherwise.

**The arguments.** An aggregate list carries an unwritten promise about time,
and the inductive invariants write it down for the three places a list can be
in: a cache row (with the row's time), a call that has resumed (with `since`)
and a call that is about to write (with `stamp`).

- `InOrderInv`: everything in the list is *older* than that time. So the next
  read, `time >= since`, brings only younger events, and appending them sorted
  keeps the list sorted and free of repetitions (`ConcatOnceInOrder`). A creator's
  clock that is ahead breaks the base of it, for then the list holds events that
  are younger than the time of its row.
- `CompleteInv`: every event of the query that the list lacks, and that is neither
  late nor behind the call that holds the list, is *at or after* that time. So the next
  read brings it. An insert that would break this for a row makes the event late, and
  one that would break it for a call puts the event behind the call; when the call
  writes its row, what is behind it and older than the row becomes late. The proof is that
  no other step breaks it: in particular neither the lost update of two upserts nor
  the gap between `now()` and its effect does.
- `OwnRowsInv`: a row lies under the key of the aggregator that wrote it. With
  `OwnKeys` this is the one that reads it.
- `QuietInv`: what is built and not yet saved is not older than any cache row, and
  there is none of it while a call goes on. So no insert is late or behind a call,
  `CompleteInv` has no exceptions left, and with `InOrderInv` a fold has every event once and in
  order (`FullWhenQuiet`).
- `ImplementsUncached`: the read is the moment at which the abstract call
  happens; cache reads, stamps, upserts and the answer are invisible. That a fold
  is a list that a select without the cache may return (`FullReadIsRead`) needs a
  bijection between the positions of the list and the events of the query.
  `OneCallShows` says which abstract call a concrete one stands for.
- `SeenInv`: what the broker has was on a wire, what was on a wire came from a
  task past its insert, and rows are never deleted.
- `BindingInv` and `AckInv`: a queue counts from the return of `subscribe`, and
  then it is bound, so the broker puts every later message into it; a message
  leaves queue and consumers only by an ack, and an ack is under way only for
  messages that a handler has returned `Ok` for. That the message a loop is
  about to ack is the one it has just handled needs the order of the stream:
  pushes go to its end (`HeadStays`).
- `OkInv`: a process that starts again, with a new connection, has no `Ok` from before;
  so whoever has one and an open connection has had this connection since. While it
  is open a message leaves the wire only into the log (`MessageStays`).
- `AtLeastOnce`: with `owed` for what a queue and its consumers hold, each step
  is a step of the promise or invisible to it. What is announced needs
  `SeenInv` and `NamedInv` (a message goes out under its event's name); what is handled
  needs `InboxInv`: everything on a stream is owed, handled or cancelled,
  although another consumer may have acked it meanwhile; what is settled needs
  `AckInv`. A broken connection is invisible: what was unacked is ready again.
- `Service`: a step of a service is a step of `Aggregation` or leaves it alone,
  and a step of `Delivery` or leaves it alone (`AggregateStep`,
  `DeliveryStep`), so the theorems about both hold of it. What is left is to tie
  `knows` to the table: `SavedInv` (a publisher whose `save` has returned `Ok` has
  its event stored), `KnownInv` (what was known stays stored) and `FreshInv` (what
  was known when a call began is not inserted behind it).
- `TypedStore`: `SerializedInv` remembers that each row was written by the
  generated `Serialize` of a declaration. The rest is about the first variant that
  reads it: it compares namespace and type, hence the name is the row's; and a
  variant that keeps the declaration parses whatever it wrote (`OnlyFit`).
- Texts of times (`TimeTextProofs`): `TextsCompareAsTimes` says that a row's text, with
  any number of groups that its time fits into, stands at or after the text of
  `since` whenever its time does. Two texts differ first in the seconds, in a
  group of digits, or where one of them ends and has its zone. The first two are
  decided by the numbers (`FirstDifference`, an induction over the groups: an
  equal digit leaves the comparison to the rest). In the third the row's text is the
  later one in any case: its `Z` is above, and the `+` of `since` below, all that can
  stand there. The library's induction theorems have an operator as a parameter;
  induction is therefore done with sets, by the least element that well-foundedness of `<`
  gives (`LeastOf`, `SetInduction`), and `Power`, the one recursive function here, gets
  its equation in the same way (`PowerExists`).
- `TextsInv` and `AnswerInv` bring this to the table: a row's text is one of its
  time, and an answer is a select of the table as it is.
- `UnifierInv`: the sources of a run only grow, so what it has taken is still there; what
  was there when it began it has taken or is going to; the ids of what it takes
  are distinct when it begins to write, which makes the map by id lose nothing;
  and what it has written is what its rows are rewritten to. In the refinement the
  commit is the one step that shows at the destination, and a rollback, a victim of a deadlock included,
  leaves the destination as it was.

**Only model-checked.** Liveness (`EventuallySettled`), which needs fairness and
`ENABLED`, is out of the prover's reach and stays with TLC. Every other property
of a passing run is a theorem. `NothingBefore` and `OkMeansEmitted` are false;
`MemoTransparent`, `FoldedOnceInOrder` and `ResumesOwnState`, which a run
violates where their assumptions do not hold, are theorems where they do.

## 6. Where code and documentation disagree

Each of these has a run that finds it; `PROJECT.json` quotes the lines.

1. **A cached aggregate can miss an event for ever** (`lost_event`). An event
   gets its time when it is built. Another call reads, folds and writes the
   cache between that and the save; every later call with the key asks for what
   is younger than the row. The clocks agree in this run.
2. **A cached aggregate can apply an event twice** (`double_count`). The time of
   an event is of its creator's clock, that of the row of the database's. With
   the former ahead there is no concurrency needed.
3. **Two aggregator types with one query share a cache row** (`shared_key`). The
   key is made of query text and arguments only. If the JSON of one parses as
   the other, the second resumes from a state it never built. This is the
   only way it can (`OwnStateResumed`).
4. **`save` returns `Ok` and the event is gone** (`delivery_unconfirmed`). The
   publish is not confirmed; a connection that breaks takes along what its
   channel had not sent. Nothing else does (`OkUnlessBroken`).
5. **`read_events_since` returns events from before the time asked for**
   (`since_early`). It compares texts, and `Z` is above every digit and above the period:
   a row of `...:44Z` or of `...:44.500Z` is returned to who asks for what is
   since `...:44.500123+00:00`. It never misses an event in turn
   (`SinceMissesNothing`): a shorter text that is a prefix up to its zone always
   compares as later. And what comes too early is of the same second
   (`NothingBeforeTheSecond`).

Met while reading, without a run:

- `pg.rs:91`: "should be equal to `Ok(SaveStatus::Ok)`" for a saved duplicate; the
  adapter returns `Duplicate` (140), and `Store::save` turns that into `Ok`.
- `pg.rs:137`: `err.code().unwrap()` panics for errors that are not of the
  server.
- `pg.rs:57`: `{:X}` without padding; two hashes can print alike.
- `pg.rs:212`: `read_events_since` filters on `data->>'event_namespace'`, while
  the index (33) is on the context.
- `create-db.sql:21`: `timestamp` without a time zone, where `cache/pg.rs:66`
  reads a `DateTime<Utc>`.
- `explorer/src/main.rs:103`: the address "localhost:5672" has no host for
  `Url::parse`, so `create_store` fails and the `expect` at 194 panics.
- `unifier/src/main.rs`: rows of the old format without `event_namespace` are in
  no domain; and with `--copy --truncate-dest` from a database to itself, rows saved since
  the read are lost. The specification takes source and destination to be two
  databases, as the help text (26) says; `main.rs` checks nothing of the kind, and the
  configuration in `unifier/README.md:12-13` has one server for both, so that its
  `--copy` is from the destination to itself.

## 7. What is not modelled and why

- The JSON of events and contexts: only what decoding accepts matters, and that
  is a set (`Variants`, `Garbled`, `Undecodable`).
- Queries with a `limit`, whose result is no function of a set selected row by
  row.
- The executor and its threads; a handler that blocks on a call of the store
  would need them.
- `unique_id` as text: it is any function of the query (`UniqueId`), and what two
  queries of one key do to each other is in the model (`shared_key`).
- `action` and `subject` of the context, which nothing in the library reads.
- The explorer. No callback of it is ever reached: `create_store` passes
  "localhost:5672", the adapter fails on a URL without a host, and the `expect` at
  `explorer/src/main.rs:194` panics before the window is built. What it would
  call is `ReadEventsSince`.
- Of the macros: generics, lifetimes and the tokens that are generated, and
  fields with attributes of serde.
- `RedisCacheAdapter`, which the code itself declares unused; the conversion of
  futures; the helpers that create databases for tests.
- Postgres and RabbitMQ beyond what the code uses of them: one statement is
  atomic except for the two moments of the upsert, isolation is read committed.

## 8. Plan

Everything that sections 1 and 7 do not except is modelled: aggregation,
delivery, a service over both, typed rows and the unifier; and every safety
property and refinement that a run checks is proved. What is left:

1. An abstract specification of a service, over the abstract ones of its two
   parts, and the theorem that `Service` implements it.
2. The unifier and aggregation together: that a table which was unified
   aggregates as the union of its sources.
