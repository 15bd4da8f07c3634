--------------------------- MODULE AtomicUnification ---------------------------
(***************************************************************************)
(* What the unifier promises: "unify multiple event store backing          *)
(* databases into a single table of all events for all domains".  A run    *)
(* changes the destination in one step or not at all.  The step takes from *)
(* every source all the rows that were there when the run started, and     *)
(* perhaps some that were saved since, no two with the same id.            *)
(***************************************************************************)
CONSTANTS
  Rows,         \* the rows that services save
  Databases,    \* the sources and the destination
  Dest,         \* the destination
  Runs,         \* runs of the unifier
  Sources(_),   \* Sources(copy): the databases that a run reads
  Wants(_, _, _), \* Wants(copy, d, r): a run takes the row r of the database d
  Unified(_)    \* Unified(r): what a run writes for the row r

VARIABLES
  tables,       \* tables[d]: the rows of the table events of d
  state,        \* state[u]: "off", "running", "done" or "failed"
  copy,         \* copy[u]: the option --copy
  truncate,     \* truncate[u]: the option --truncate-dest
  begun         \* begun[u]: what was there to take when u started

vars == <<tables, state, copy, truncate, begun>>

Ids(S) == {r.id : r \in S}

(* What there is to take for a run, with the database it is in.            *)
There(c) ==
  {pair \in Sources(c) \X UNION {tables[d] : d \in Databases} :
     pair[2] \in tables[pair[1]] /\ Wants(c, pair[1], pair[2])}

Init ==
  /\ tables = [d \in Databases |-> {}]
  /\ state = [u \in Runs |-> "off"]
  /\ copy = [u \in Runs |-> FALSE]
  /\ truncate = [u \in Runs |-> FALSE]
  /\ begun = [u \in Runs |-> {}]

Save(d, r) ==
  /\ r.id \notin Ids(tables[d])
  /\ tables' = [tables EXCEPT ![d] = @ \cup {r}]
  /\ UNCHANGED <<state, copy, truncate, begun>>

Start(u) ==
  /\ state[u] = "off"
  /\ state' = [state EXCEPT ![u] = "running"]
  /\ \E c, t \in BOOLEAN :
       /\ copy' = [copy EXCEPT ![u] = c]
       /\ truncate' = [truncate EXCEPT ![u] = t]
       /\ begun' = [begun EXCEPT ![u] = There(c)]
  /\ UNCHANGED tables

(* The rows that are left after a run has put the rows S into the table T. *)
Merged(T, S, truncates) ==
  S \cup {r \in T : ~ truncates /\ r.id \notin Ids(S)}

Available(c) == {pair[2] : pair \in There(c)}

Unify(u) ==
  /\ state[u] = "running"
  /\ \E rows \in SUBSET Available(copy[u]) :
       /\ \A r, s \in rows : r.id = s.id => r = s
       /\ \A pair \in begun[u] : pair[2] \in rows
       /\ tables' = [tables EXCEPT ![Dest] =
                       Merged(@, {Unified(r) : r \in rows}, truncate[u])]
  /\ \E outcome \in {"done", "failed"} : state' = [state EXCEPT ![u] = outcome]
  /\ UNCHANGED <<copy, truncate, begun>>

Fail(u) ==
  /\ state[u] = "running"
  /\ state' = [state EXCEPT ![u] = "failed"]
  /\ UNCHANGED <<tables, copy, truncate, begun>>

Next ==
  \/ \E d \in Databases, r \in Rows : Save(d, r)
  \/ \E u \in Runs : Start(u) \/ Unify(u) \/ Fail(u)

Spec == Init /\ [][Next]_vars
================================================================================
