-------------------------------- MODULE Unifier --------------------------------
(***************************************************************************)
(* The unifier: a run reads the event tables of all domains, one after the *)
(* other, checks that no id occurs twice, and writes what it has read into *)
(* the table of the destination, in one transaction.  With --copy it reads *)
(* the database "event-store" instead, which must not be the destination   *)
(* ("from one events database into another").  Meanwhile the services save *)
(* events, and other runs may be going on.                                 *)
(***************************************************************************)
EXTENDS Integers

CONSTANTS
  Rows,         \* rows of the tables events
  SavedTo,      \* SavedTo[d]: the rows that services save in the database d
  Undecodable,  \* those whose data or context does not parse as the unifier's
  Domains,      \* the databases of the connection's `domains`
  NamespaceOf,  \* NamespaceOf[d]: the namespace the connection gives for d
  Store,        \* the database "event-store" at the source
  Dest,         \* the database of dest_db_uri
  Runs,         \* runs of the unifier
  Tick          \* time units to the microsecond

Databases == Domains \cup {Store, Dest}

(* That the destination is none of the sources is for the user to see to:  *)
(* main.rs compares nothing.                                               *)
ASSUME UnifierAssumption ==
  /\ SavedTo \in [Databases -> SUBSET Rows]
  /\ Dest \notin Domains \cup {Store}
  /\ Undecodable \subseteq Rows
  /\ Tick \in Nat \ {0}
  /\ \A d \in Domains : d \in DOMAIN NamespaceOf
  /\ \A r \in Rows : DOMAIN r = {"id", "namespace", "type", "subject", "time"}

VARIABLES
  tables,       \* tables[d]: the committed rows of the table events of d
  phase,        \* phase[u]: where a run stands
  copy,         \* copy[u]: args.copy
  truncate,     \* truncate[u]: args.truncate_dest
  todo,         \* todo[u]: the databases still to read
  all_events,   \* all_events[u]: <<database, row>> for each row read
  truncated,    \* truncated[u]: the transaction of u has truncated
  written,      \* written[u]: the rows it has written
  begun         \* history: what u found to read when it started

options == <<copy, truncate, begun>>
vars == <<tables, phase, options, todo, all_events, truncated, written>>

Sources(c) == IF c THEN {Store} ELSE Domains

(* `where data->>'event_namespace' = $1`; a copy takes every row.          *)
Wants(c, d, r) == c \/ r.namespace = NamespaceOf[d]

Wanted(c, d) == {r \in tables[d] : Wants(c, d, r)}

(***************************************************************************)
(* What the query, the decoding and the encoding make of a row: the time   *)
(* is cut to microseconds, the legacy `type` goes, and a subject that is   *)
(* null, {} or missing becomes {}.  The UTC text is read in the time zone  *)
(* of the session, which the client library sets to GMT when it connects.  *)
(***************************************************************************)
Unified(r) ==
  [r EXCEPT !.type = "absent",
            !.subject = IF @ \in {"absent", "null"} THEN "empty" ELSE @,
            !.time = (@ \div Tick) * Tick]

SameId(r, s) == r.id = s.id

Init ==
  /\ tables = [d \in Databases |-> {}]
  /\ phase = [u \in Runs |-> "off"]
  /\ copy = [u \in Runs |-> FALSE]
  /\ truncate = [u \in Runs |-> FALSE]
  /\ begun = [u \in Runs |-> {}]
  /\ todo = [u \in Runs |-> {}]
  /\ all_events = [u \in Runs |-> {}]
  /\ truncated = [u \in Runs |-> FALSE]
  /\ written = [u \in Runs |-> {}]
--------------------------------------------------------------------------------
(* A service saves an event; at the destination it waits for the locks of  *)
(* the transactions there.                                                 *)
Save(d, r) ==
  /\ r \in SavedTo[d]
  /\ \A s \in tables[d] : ~ SameId(r, s)
  /\ d = Dest => \A u \in Runs :
                   ~ truncated[u] /\ \A s \in written[u] : ~ SameId(r, s)
  /\ tables' = [tables EXCEPT ![d] = @ \cup {r}]
  /\ UNCHANGED <<phase, options, todo, all_events, truncated, written>>

Start(u) ==
  /\ phase[u] = "off"
  /\ phase' = [phase EXCEPT ![u] = "collecting"]
  /\ \E c, t \in BOOLEAN :
       /\ copy' = [copy EXCEPT ![u] = c]
       /\ truncate' = [truncate EXCEPT ![u] = t]
       /\ todo' = [todo EXCEPT ![u] = Sources(c)]
       /\ begun' = [begun EXCEPT ![u] =
                      UNION {{d} \X Wanted(c, d) : d \in Sources(c)}]
  /\ UNCHANGED <<tables, all_events, truncated, written>>

(* collect_domain_events and collect_store_events: one select each.        *)
Collect(u, d) ==
  /\ phase[u] = "collecting"
  /\ d \in todo[u]
  /\ Wanted(copy[u], d) \cap Undecodable = {}
  /\ todo' = [todo EXCEPT ![u] = @ \ {d}]
  /\ all_events' = [all_events EXCEPT ![u] = @ \cup ({d} \X Wanted(copy[u], d))]
  /\ UNCHANGED <<tables, phase, options, truncated, written>>

(* The run ends, its transaction is rolled back.                           *)
Ends(u) ==
  /\ phase' = [phase EXCEPT ![u] = "failed"]
  /\ todo' = [todo EXCEPT ![u] = {}]
  /\ all_events' = [all_events EXCEPT ![u] = {}]
  /\ truncated' = [truncated EXCEPT ![u] = FALSE]
  /\ written' = [written EXCEPT ![u] = {}]
  /\ UNCHANGED options

(* "Failed to parse event data", "Failed to parse event context"           *)
CollectPanics(u, d) ==
  /\ phase[u] = "collecting"
  /\ d \in todo[u]
  /\ Wanted(copy[u], d) \cap Undecodable # {}
  /\ Ends(u)
  /\ UNCHANGED tables

(* "Events are not properly unique": the map by id has fewer entries than  *)
(* there are events.                                                       *)
\* Mutant: the lengths are not compared.
NotCompared(u) == TRUE

Unique(u) == \A p, q \in all_events[u] : SameId(p[2], q[2]) => p = q

(* The HashMap keeps one event for each id, the one that came last.        *)
ById(S) ==
  {T \in SUBSET S : \A p \in S : \E q \in T : \A t \in T : SameId(t[2], p[2]) <=> t = q}

NotUnique(u) ==
  /\ phase[u] = "collecting" /\ todo[u] = {}
  /\ ~ Unique(u)
  /\ Ends(u)
  /\ UNCHANGED tables

(* The transaction begins.  Preparing the insert takes the lock that every *)
(* writer of the table holds to its end and that excludes a truncate.      *)
Begin(u) ==
  /\ phase[u] = "collecting" /\ todo[u] = {}
  /\ Unique(u)
  /\ \A v \in Runs : ~ truncated[v]
  /\ phase' = [phase EXCEPT ![u] = "writing"]
  /\ \E kept \in ById(all_events[u]) : all_events' = [all_events EXCEPT ![u] = kept]
  /\ UNCHANGED <<tables, options, todo, truncated, written>>

\* Mutant: the truncate is sent outside of the transaction.
TruncateAtOnce(u) ==
  /\ phase[u] = "writing"
  /\ truncate[u] /\ ~ truncated[u]
  /\ \A v \in Runs \ {u} : phase[v] # "writing"
  /\ truncated' = [truncated EXCEPT ![u] = TRUE]
  /\ tables' = [tables EXCEPT ![Dest] = {}]
  /\ UNCHANGED <<phase, options, todo, all_events, written>>

Truncate(u) ==
  /\ phase[u] = "writing"
  /\ truncate[u] /\ ~ truncated[u]
  /\ \A v \in Runs \ {u} : phase[v] # "writing"
  /\ truncated' = [truncated EXCEPT ![u] = TRUE]
  /\ UNCHANGED <<tables, phase, options, todo, all_events, written>>

(* `insert ... on conflict (id) do update`, in the order of the map; it    *)
(* waits for a transaction that has written the same id.                   *)
Upsert(u, r) ==
  /\ phase[u] = "writing"
  /\ truncate[u] => truncated[u]
  /\ Unified(r) \notin written[u]
  /\ \A v \in Runs \ {u} : \A s \in written[v] : ~ SameId(r, s)
  /\ written' = [written EXCEPT ![u] = @ \cup {Unified(r)}]
  /\ UNCHANGED <<tables, phase, options, todo, all_events, truncated>>

\* Mutant: the `on conflict` and the primary key are missing.
Appended(T, u) == written[u] \cup {r \in T : ~ truncated[u]}

Merged(T, u) ==
  written[u] \cup
    {r \in T : ~ truncated[u] /\ \A s \in written[u] : ~ SameId(r, s)}

(* The commit takes effect; the run ends well, or with an error when the   *)
(* answer of the database is lost.                                         *)
Commit(u) ==
  /\ phase[u] = "writing"
  /\ truncate[u] => truncated[u]
  /\ \A p \in all_events[u] : Unified(p[2]) \in written[u]
  /\ tables' = [tables EXCEPT ![Dest] = Merged(@, u)]
  /\ \E outcome \in {"done", "failed"} : phase' = [phase EXCEPT ![u] = outcome]
  /\ all_events' = [all_events EXCEPT ![u] = {}]
  /\ truncated' = [truncated EXCEPT ![u] = FALSE]
  /\ written' = [written EXCEPT ![u] = {}]
  /\ UNCHANGED <<options, todo>>

(* An error of a database, a deadlock it resolves at the run's expense, or *)
(* a crash.                                                                *)
Fail(u) ==
  /\ phase[u] \in {"collecting", "writing"}
  /\ Ends(u)
  /\ UNCHANGED tables

Next ==
  \/ \E d \in Databases, r \in Rows : Save(d, r)
  \/ \E u \in Runs, d \in Domains \cup {Store} : Collect(u, d) \/ CollectPanics(u, d)
  \/ \E u \in Runs : \E p \in all_events[u] : Upsert(u, p[2])
  \/ \E u \in Runs :
       Start(u) \/ NotUnique(u) \/ Begin(u) \/ Truncate(u) \/ Commit(u) \/ Fail(u)

Spec == Init /\ [][Next]_vars
--------------------------------------------------------------------------------
(* The variables have their types; no table holds an id twice.             *)
AllRows == Rows \cup {Unified(r) : r \in Rows}

TypeOK ==
  /\ tables \in [Databases -> SUBSET AllRows]
  /\ \A d \in Databases : \A r, s \in tables[d] : SameId(r, s) => r = s
  /\ phase \in [Runs -> {"off", "collecting", "writing", "done", "failed"}]
  /\ copy \in [Runs -> BOOLEAN]
  /\ truncate \in [Runs -> BOOLEAN]
  /\ begun \in [Runs -> SUBSET (Databases \X AllRows)]
  /\ todo \in [Runs -> SUBSET Databases]
  /\ all_events \in [Runs -> SUBSET (Databases \X AllRows)]
  /\ truncated \in [Runs -> BOOLEAN]
  /\ written \in [Runs -> SUBSET AllRows]

(* When a run ends well, every event that was in a source when it started  *)
(* is at the destination, as it was there: no other event with its id took *)
(* its place, and no run that went on at the same time undid it before     *)
(* (unifier/src/main.rs: the check for uniqueness and the one transaction).*)
CompleteOnSuccess ==
  [][\A u \in Runs : phase[u] # "done" /\ phase'[u] = "done"
       => \A p \in begun[u] : Unified(p[2]) \in tables'[Dest]]_vars

(* A run is one step on the destination, or none: it never shows truncated *)
(* or half written, neither while it goes on nor after it has failed.      *)
Atomic == INSTANCE AtomicUnification WITH
  state <- [u \in Runs |-> IF phase[u] \in {"collecting", "writing"} THEN "running"
                           ELSE phase[u]]

UnifiesAtomically == Atomic!Spec
================================================================================
