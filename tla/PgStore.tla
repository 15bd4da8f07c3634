-------------------------------- MODULE PgStore --------------------------------
(***************************************************************************)
(* The Postgres-backed store adapter: the table `events`, the insert of    *)
(* PgStoreAdapter::save and the select of PgStoreAdapter::read.            *)
(*                                                                         *)
(* An element of Events is one value of the type Event<ED>: data, context  *)
(* and id.  IdOf[e] is its UUID.  Two values may carry the same UUID       *)
(* (Event::new and Event::with_id take it from the caller), so the values  *)
(* and their ids are kept apart.                                           *)
(***************************************************************************)
EXTENDS Integers, FiniteSets

CONSTANTS
  Events,    \* the Event values that may be built
  Ids,       \* the UUIDs
  IdOf,      \* IdOf[e] is e.id
  Queries,   \* the PgQuery values: query text with its arguments
  Selects    \* Selects[q] is what the text of q keeps of a table of all Events

ASSUME PgStoreAssumption ==
  /\ IsFiniteSet(Events)
  /\ IdOf \in [Events -> Ids]
  /\ Selects \in [Queries -> SUBSET Events]

VARIABLE events   \* the rows of the table `events`

(***************************************************************************)
(* `id uuid primary key`: an insert of an id that is already there is a    *)
(* UNIQUE_VIOLATION, leaves the table as it is, and is reported as         *)
(* Duplicate and not as an error.                                          *)
(***************************************************************************)
HasId(e) == \E row \in events : IdOf[row] = IdOf[e]

\* Mutant: the primary key is missing.
InsertsAgain(e) == events' = events \cup {e}

Insert(e) == events' = IF HasId(e) THEN events ELSE events \cup {e}

UniqueIds == \A e, f \in events : IdOf[e] = IdOf[f] => e = f

(***************************************************************************)
(* The rows of generate_query: all those of the query, or, when the caller *)
(* passes Some(timestamp), those with context.time >= timestamp.  An       *)
(* Option is a set with at most one element.                               *)
(***************************************************************************)
\* Mutant: `>` for `>=`.
MatchingAfter(q, time, since) ==
  {e \in events \cap Selects[q] : \A t \in since : time[e] > t}

\* Mutant: the timestamp of the cache row is not passed on.
MatchingAlways(q, time, since) == events \cap Selects[q]

Matching(q, time, since) ==
  {e \in events \cap Selects[q] : \A t \in since : time[e] >= t}

(* `order by time asc`: any arrangement of the rows S that is sorted by    *)
(* context.time; rows of equal time come in an order the query leaves open. *)
\* Mutant: the `order by` is missing.
InAnyOrder(S, time) ==
  {rows \in [1 .. Cardinality(S) -> S] :
     \A e \in S : \E i \in 1 .. Cardinality(S) : rows[i] = e}

OrderedBy(S, time) ==
  {rows \in [1 .. Cardinality(S) -> S] :
     /\ \A e \in S : \E i \in 1 .. Cardinality(S) : rows[i] = e
     /\ \A i, j \in 1 .. Cardinality(S) :
          i < j => rows[i] # rows[j] /\ time[rows[i]] =< time[rows[j]]}

Read(q, time, since) == OrderedBy(Matching(q, time, since), time)

================================================================================
