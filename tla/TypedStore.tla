------------------------------- MODULE TypedStore -------------------------------
(***************************************************************************)
(* Rows outlive the programs that wrote them.  A program declares event    *)
(* types, saves events of them, is replaced by a version with other        *)
(* declarations, and reads what is there: by name and time with            *)
(* read_events_since, or as its enum of events.                            *)
(***************************************************************************)
EXTENDS DerivedEvents, TimeText, SequencesExt

CONSTANTS
  Versions,   \* the enums of events that are deployed, one after the other
  Times,      \* the times of events, and those that are asked for
  MaxRows     \* bound on the number of rows

ASSUME TypedStoreAssumption ==
  /\ \A version \in Versions : DOMAIN version = 1 .. Len(version)
  /\ Times \subseteq Nat
  /\ MaxRows \in Nat

VARIABLES
  enum,     \* the version that runs
  rows,     \* the rows of the table `events`
  answer    \* what read_events_since returned last: {} or its request and result

vars == <<enum, rows, answer>>

Deployable(version) == \A i \in DOMAIN version : Compiles(version[i])

Init ==
  /\ enum \in {version \in Versions : Deployable(version)}
  /\ rows = {}
  /\ answer = {}

Deploy(version) ==
  /\ Deployable(version)
  /\ enum' = version
  /\ answer' = {}
  /\ UNCHANGED rows

(* Store::save of an Event<ED>, ED being the struct of a variant: its JSON *)
(* goes into `data`, the text of its time into `context`.  `origin` is     *)
(* history: the declaration that it was written by.                        *)
Save(i, data, t) ==
  /\ Cardinality(rows) < MaxRows
  /\ \E text \in RowTexts(t) :
       rows' = rows \cup
         {[json |-> Serialize(enum[i], data), text |-> text, time |-> t, origin |-> enum[i]]}
  /\ answer' = {}
  /\ UNCHANGED enum

(* `where data->>'event_namespace' = $1 and data->>'event_type' = $2 and   *)
(* context->>'time' >= $3`                                                 *)
Named(name) == {row \in rows : <<row.json.namespace, row.json.type>> = name}

\* Mutant: the operands of the comparison are swapped.
UpTo(name, t) == {row \in Named(name) : AtOrAfter(Since(t), row.text)}

FromOn(name, t) == {row \in Named(name) : AtOrAfter(row.text, Since(t))}

ReadEventsSince(i, t) ==
  /\ \E list \in SetToSeqs(FromOn(Name(enum[i]), t)) :
       /\ \A j, k \in DOMAIN list :
            j < k => Timestamp(list[j].time) =< Timestamp(list[k].time)
       /\ answer' = {[struct |-> enum[i], since |-> t, list |-> list]}
  /\ UNCHANGED <<enum, rows>>

Next ==
  \/ \E version \in Versions : Deploy(version)
  \/ \E i \in DOMAIN enum, t \in Times : ReadEventsSince(i, t)
  \/ \E i \in DOMAIN enum : \E data \in Values(enum[i]), t \in Times : Save(i, data, t)

Spec == Init /\ [][Next]_vars
--------------------------------------------------------------------------------
(* A declaration keeps another: it has its name, and whatever a field of   *)
(* the one can hold, its field can hold, a field that was not there being  *)
(* optional.                                                               *)
Keeps(new, old) ==
  /\ Name(new) = Name(old)
  /\ \A f \in DOMAIN new.fields :
       IF f \in DOMAIN old.fields THEN old.fields[f] \subseteq new.fields[f]
                                  ELSE Null \in new.fields[f]

DistinctNames(version) ==
  \A i, j \in DOMAIN version : Name(version[i]) = Name(version[j]) => i = j

(* A row keeps its meaning, whatever is deployed after the program that    *)
(* wrote it: it is read as an event of the name it was written under, with *)
(* the fields it was written with, or not at all; and it is read if the    *)
(* running version has a declaration that keeps the row's own, with no     *)
(* other of its name (the generated Serialize and Deserialize).            *)
KeepsMeaning ==
  \A row \in rows :
    /\ \A read \in Decode(enum, row.json) :
         /\ Name(enum[read.variant]) = Name(row.origin)
         /\ \A f \in DOMAIN read.data : read.data[f] = Member(row.json, f)
    /\ DistinctNames(enum) /\ (\E i \in DOMAIN enum : Keeps(enum[i], row.origin))
         => Decode(enum, row.json) # {}

(* read_events_since finds every event of the name that is as late as the  *)
(* time that was asked for, in order of time to the microsecond, although  *)
(* it compares the times as texts of different forms (pg.rs).              *)
SinceMissesNothing ==
  \A a \in answer :
    /\ \A row \in Named(Name(a.struct)) :
         row.time >= a.since => \E i \in DOMAIN a.list : a.list[i] = row
    /\ \A i, j \in DOMAIN a.list :
         i < j => a.list[i].time < a.list[j].time + Microsecond

(* What it finds too much is from the second of the time that was asked    *)
(* for: the texts compare right up to the seconds (pg.rs, to_rfc3339).     *)
NothingBeforeTheSecond ==
  \A a \in answer : \A i \in DOMAIN a.list :
    a.list[i].time \div Second >= a.since \div Second

(* "Read all events since a given time" (store.rs), "Fetch events of a     *)
(* given type starting from a timestamp going forward" (pg.rs): nothing    *)
(* from before it.                                                         *)
NothingBefore ==
  \A a \in answer : \A i \in DOMAIN a.list : a.list[i].time >= a.since
================================================================================
