-------------------------------- MODULE PgCache --------------------------------
(***************************************************************************)
(* The Postgres-backed cache adapter: the table `aggregate_cache`, with    *)
(* one row per key.  A row keeps the serialised aggregate and the time,    *)
(* read from the clock of the database, at which it was written.  The JSON *)
(* does not name the Rust type it was made from; `type` records it here so *)
(* that the decoding step can say what happens when another type reads it. *)
(***************************************************************************)
EXTENDS Integers

CONSTANTS
  Keys,          \* primary keys of the cache table
  Aggregators,   \* the types T with the query arguments they are called with
  Decodes        \* Decodes[a]: the aggregators whose JSON deserialises as a's type

ASSUME PgCacheAssumption ==
  /\ Decodes \in [Aggregators -> SUBSET Aggregators]
  /\ \A a \in Aggregators : a \in Decodes[a]

VARIABLE aggregate_cache   \* the rows of the table `aggregate_cache`

CacheRows(Values) == [id : Keys, type : Aggregators, data : Values, time : Int]

\* Mutant: the `where` is missing.
CacheReadAny(key) == aggregate_cache

CacheRead(key) == {row \in aggregate_cache : row.id = key}

\* Mutant: an insert, on a table without its primary key.
CacheInsert(key, type, value, now) ==
  aggregate_cache' = aggregate_cache
      \cup {[id |-> key, type |-> type, data |-> value, time |-> now]}

CacheUpsert(key, type, value, now) ==
  aggregate_cache' =
    {row \in aggregate_cache : row.id # key}
      \cup {[id |-> key, type |-> type, data |-> value, time |-> now]}

UniqueKeys == \A r, s \in aggregate_cache : r.id = s.id => r = s

================================================================================
