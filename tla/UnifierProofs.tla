------------------------------ MODULE UnifierProofs ------------------------------
(***************************************************************************)
(* Proofs about Unifier, for any number of domains, rows and runs.         *)
(***************************************************************************)
EXTENDS Unifier, TLAPS

(* A rewritten row keeps its id: its place in the table is that of the row *)
(* it was made of.                                                         *)
LEMMA UnifiedKeepsId ==
  ASSUME NEW r \in Rows
  PROVE  Unified(r).id = r.id
<1>1. "id" \in DOMAIN r
  BY UnifierAssumption
<1> QED BY <1>1 DEF Unified
--------------------------------------------------------------------------------
(* The inductive invariant.  Only the destination ever loses a row or gets *)
(* a rewritten one; the sources hold what services saved.                  *)
SourcesInv == \A d \in Domains \cup {Store} : tables[d] \subseteq Rows

(* What a run has taken is still in its sources, and what was there when   *)
(* it started it has taken or is going to.  Its transaction holds nothing  *)
(* but rewritten rows of what it has taken, of distinct ids.               *)
Collecting(u) ==
  \A p \in begun[u] :
    p \in all_events[u] \/ (p[1] \in todo[u] /\ p \in Atomic!There(copy[u]))

Writing(u) ==
  /\ begun[u] \subseteq all_events[u]
  /\ Unique(u)
  /\ written[u] \subseteq {Unified(p[2]) : p \in all_events[u]}

RunInv(u) ==
  /\ todo[u] \subseteq Sources(copy[u])
  /\ all_events[u] \subseteq Atomic!There(copy[u])
  /\ truncated[u] => truncate[u]
  /\ phase[u] \notin {"collecting", "writing"} => all_events[u] = {}
  /\ phase[u] # "writing" => written[u] = {} /\ ~ truncated[u]
  /\ phase[u] = "collecting" => Collecting(u)
  /\ phase[u] = "writing" => Writing(u)

UnifierInv == SourcesInv /\ \A u \in Runs : RunInv(u)

IInv == TypeOK /\ UnifierInv
--------------------------------------------------------------------------------
(* What the invariant says of the rows that a run has taken, ...           *)
LEMMA TakenAreRows ==
  ASSUME IInv, NEW u \in Runs, NEW p \in all_events[u]
  PROVE  /\ p = <<p[1], p[2]>>
         /\ p[1] \in Sources(copy[u]) /\ p[1] \in Domains \cup {Store}
         /\ p[2] \in tables[p[1]] /\ p[2] \in Rows
         /\ Wants(copy[u], p[1], p[2])
<1>1. p \in Atomic!There(copy[u])
  BY DEF IInv, UnifierInv, RunInv
<1> QED BY <1>1 DEF Atomic!There, Sources, IInv, UnifierInv, SourcesInv

(* ... and of what it has written.                                         *)
LEMMA WrittenAreUnified ==
  ASSUME IInv, NEW u \in Runs
  PROVE  /\ written[u] \subseteq AllRows
         /\ \A r, s \in written[u] : SameId(r, s) => r = s
<1>1. CASE written[u] = {}
  BY <1>1
<1>2. CASE phase[u] = "writing"
  <2>1. /\ written[u] \subseteq {Unified(p[2]) : p \in all_events[u]}
        /\ \A p, q \in all_events[u] : p[2].id = q[2].id => p = q
    BY <1>2 DEF IInv, UnifierInv, RunInv, Writing, Unique, SameId
  <2>2. \A p \in all_events[u] : p[2] \in Rows /\ Unified(p[2]).id = p[2].id
    BY TakenAreRows, UnifiedKeepsId
  <2> QED BY <2>1, <2>2 DEF AllRows, SameId
<1> QED BY <1>1, <1>2 DEF IInv, UnifierInv, RunInv

(* When all ids are distinct, the map by id keeps every event.             *)
LEMMA KeptAreAll ==
  ASSUME NEW u \in Runs, Unique(u), NEW kept \in ById(all_events[u])
  PROVE  kept = all_events[u]
<1>1. kept \subseteq all_events[u]
  BY DEF ById
<1>2. ASSUME NEW p \in all_events[u] PROVE p \in kept
  <2>1. PICK q \in kept : SameId(q[2], p[2])
    BY DEF ById
  <2> QED BY <1>1, <2>1 DEF Unique
<1> QED BY <1>1, <1>2

(* What there was at the start is what the specification promises to take. *)
LEMMA StartsWithAll ==
  ASSUME NEW c
  PROVE  UNION {{d} \X Wanted(c, d) : d \in Sources(c)} = Atomic!There(c)
BY UnifierAssumption DEF Wanted, Atomic!There, Sources, Databases

(* Sources only grow: a commit changes the destination, which is none.     *)
LEMMA SourcesGrow ==
  ASSUME IInv, [Next]_vars
  PROVE  /\ \A d \in Domains \cup {Store} : tables[d] \subseteq tables'[d]
         /\ \A c : Atomic!There(c) \subseteq Atomic!There(c)'
<1> USE UnifierAssumption DEF Databases
<1>0. tables \in [Databases -> SUBSET AllRows]
  BY DEF IInv, TypeOK
<1>1. \A d \in Domains \cup {Store} : tables[d] \subseteq tables'[d]
  <2>1. ASSUME NEW e \in Databases, NEW r \in Rows, Save(e, r)
        PROVE  \A d \in Databases : tables[d] \subseteq tables'[d]
    BY <1>0, <2>1 DEF Save
  <2>2. ASSUME NEW u \in Runs, Commit(u)
        PROVE  \A d \in Domains \cup {Store} : tables[d] \subseteq tables'[d]
    BY <1>0, <2>2 DEF Commit
  <2> QED
    BY <2>1, <2>2 DEF Next, vars, Collect, CollectPanics, Upsert, Start, NotUnique,
                      Begin, Truncate, Fail
<1>2. ASSUME NEW c, NEW p \in Atomic!There(c) PROVE p \in Atomic!There(c)'
  <2>1. /\ p = <<p[1], p[2]>> /\ p[1] \in Sources(c)
        /\ p[2] \in tables[p[1]] /\ Wants(c, p[1], p[2])
    BY DEF Atomic!There
  <2>2. p[1] \in Domains \cup {Store}
    BY <2>1 DEF Sources
  <2>3. p[2] \in tables'[p[1]] /\ p[1] \in Databases
    BY <1>1, <2>1, <2>2
  <2> QED BY <2>1, <2>3 DEF Atomic!There
<1> QED BY <1>1, <1>2
--------------------------------------------------------------------------------
LEMMA InvInit == Init => IInv
<1> SUFFICES ASSUME Init PROVE IInv
  OBVIOUS
<1>1. TypeOK
  BY DEF Init, TypeOK
<1>2. UnifierInv
  BY DEF Init, UnifierInv, SourcesInv, RunInv, Databases
<1> QED BY <1>1, <1>2 DEF IInv

(* A run that does nothing in a step keeps its invariant.                  *)
LEMMA RunStays ==
  ASSUME IInv, [Next]_vars, NEW v \in Runs,
         phase'[v] = phase[v], copy'[v] = copy[v], truncate'[v] = truncate[v],
         begun'[v] = begun[v], todo'[v] = todo[v], all_events'[v] = all_events[v],
         truncated'[v] = truncated[v], written'[v] = written[v]
  PROVE  RunInv(v)'
<1>1. RunInv(v)
  BY DEF IInv, UnifierInv
<1>2. Atomic!There(copy[v]) \subseteq Atomic!There(copy[v])'
  BY SourcesGrow
<1>3. Collecting(v) => Collecting(v)'
  BY <1>2 DEF Collecting, Atomic!There
<1>4. Writing(v) => Writing(v)'
  BY DEF Writing, Unique
<1> QED BY <1>1, <1>2, <1>3, <1>4 DEF RunInv, Sources, Atomic!There

(* A run that ends has nothing left.                                       *)
LEMMA EndedRun ==
  ASSUME NEW u \in Runs,
         phase'[u] \in {"done", "failed"}, todo'[u] = {}, all_events'[u] = {},
         truncated'[u] = FALSE, written'[u] = {}
  PROVE  RunInv(u)'
BY DEF RunInv

(* One step of one run u.                                                  *)
Keeps(u) ==
  /\ TypeOK' /\ RunInv(u)'
  /\ \A v \in Runs \ {u} :
       /\ phase'[v] = phase[v] /\ copy'[v] = copy[v] /\ truncate'[v] = truncate[v]
       /\ begun'[v] = begun[v] /\ todo'[v] = todo[v] /\ all_events'[v] = all_events[v]
       /\ truncated'[v] = truncated[v] /\ written'[v] = written[v]

LEMMA StartKeeps ==
  ASSUME IInv, NEW u \in Runs, Start(u)
  PROVE  Keeps(u)
<1> USE UnifierAssumption
<1>1. PICK c \in BOOLEAN, t \in BOOLEAN :
        /\ copy' = [copy EXCEPT ![u] = c]
        /\ truncate' = [truncate EXCEPT ![u] = t]
        /\ todo' = [todo EXCEPT ![u] = Sources(c)]
        /\ begun' = [begun EXCEPT ![u] = UNION {{d} \X Wanted(c, d) : d \in Sources(c)}]
  BY DEF Start
<1>2. UNION {{d} \X Wanted(c, d) : d \in Sources(c)} = Atomic!There(c)
  BY StartsWithAll
<1>3. /\ phase[u] = "off" /\ phase' = [phase EXCEPT ![u] = "collecting"]
      /\ UNCHANGED <<tables, all_events, truncated, written>>
  BY DEF Start
<1>4. /\ Sources(c) \subseteq Databases
      /\ Atomic!There(c) \subseteq Databases \X AllRows
  BY DEF Sources, Databases, Atomic!There, IInv, TypeOK
<1>5. TypeOK'
  BY <1>1, <1>2, <1>3, <1>4 DEF IInv, TypeOK
<1>6. RunInv(u)'
  <2>1. /\ all_events[u] = {} /\ written[u] = {} /\ ~ truncated[u]
    BY <1>3 DEF IInv, UnifierInv, RunInv
  <2>2. /\ phase'[u] = "collecting" /\ copy'[u] = c /\ todo'[u] = Sources(c)
        /\ begun'[u] = Atomic!There(c)
    BY <1>1, <1>2, <1>3 DEF IInv, TypeOK
  <2> QED BY <1>3, <2>1, <2>2 DEF RunInv, Collecting, Sources, Atomic!There
<1> QED BY <1>1, <1>3, <1>5, <1>6 DEF Keeps, IInv, TypeOK

LEMMA CollectKeeps ==
  ASSUME IInv, NEW u \in Runs, NEW d \in Domains \cup {Store}, Collect(u, d)
  PROVE  Keeps(u)
<1> USE UnifierAssumption
<1>1. /\ phase[u] = "collecting" /\ d \in todo[u]
      /\ todo' = [todo EXCEPT ![u] = @ \ {d}]
      /\ all_events' = [all_events EXCEPT ![u] = @ \cup ({d} \X Wanted(copy[u], d))]
      /\ UNCHANGED <<tables, phase, copy, truncate, begun, truncated, written>>
  BY DEF Collect, options
<1>2. RunInv(u) /\ d \in Sources(copy[u])
  BY <1>1 DEF IInv, UnifierInv, RunInv
<1>3. {d} \X Wanted(copy[u], d) \subseteq Atomic!There(copy[u])
  BY <1>2 DEF Wanted, Atomic!There, Databases
<1>4. Atomic!There(copy[u]) \subseteq Databases \X AllRows
  BY DEF Sources, Databases, Atomic!There, IInv, TypeOK
<1>5. TypeOK'
  BY <1>1, <1>3, <1>4 DEF IInv, TypeOK
<1>6. RunInv(u)'
  <2>1. /\ todo'[u] = todo[u] \ {d}
        /\ all_events'[u] = all_events[u] \cup ({d} \X Wanted(copy[u], d))
    BY <1>1 DEF IInv, TypeOK
  <2>2. ASSUME NEW p \in begun[u]
        PROVE  p \in all_events'[u] \/ (p[1] \in todo'[u] /\ p \in Atomic!There(copy[u]))
    <3>1. CASE p \in Atomic!There(copy[u]) /\ p[1] = d
      BY <2>1, <3>1 DEF Wanted, Atomic!There
    <3> QED BY <1>1, <1>2, <2>1, <3>1 DEF RunInv, Collecting
  <2> QED BY <1>1, <1>2, <1>3, <2>1, <2>2 DEF RunInv, Collecting, Sources, Atomic!There
<1> QED BY <1>1, <1>5, <1>6 DEF Keeps, IInv, TypeOK

LEMMA EndKeeps ==
  ASSUME IInv, NEW u \in Runs, Ends(u), UNCHANGED tables
  PROVE  Keeps(u)
<1>1. TypeOK'
  BY DEF IInv, TypeOK, Ends, options
<1>2. RunInv(u)'
  BY EndedRun DEF IInv, TypeOK, Ends
<1> QED BY <1>1, <1>2 DEF Keeps, IInv, TypeOK, Ends, options

LEMMA BeginKeeps ==
  ASSUME IInv, NEW u \in Runs, Begin(u)
  PROVE  Keeps(u)
<1>1. PICK kept \in ById(all_events[u]) : all_events' = [all_events EXCEPT ![u] = kept]
  BY DEF Begin
<1>2. kept = all_events[u]
  BY KeptAreAll DEF Begin
<1>3. /\ all_events' = all_events
      /\ phase' = [phase EXCEPT ![u] = "writing"]
      /\ UNCHANGED <<tables, copy, truncate, begun, todo, truncated, written>>
      /\ phase[u] = "collecting" /\ todo[u] = {} /\ Unique(u)
  BY <1>1, <1>2 DEF Begin, options, IInv, TypeOK
<1>4. TypeOK'
  BY <1>3 DEF IInv, TypeOK
<1>5. RunInv(u)'
  <2>1. RunInv(u) /\ phase'[u] = "writing"
    BY <1>3 DEF IInv, UnifierInv, TypeOK
  <2>2. begun[u] \subseteq all_events[u] /\ written[u] = {}
    BY <1>3, <2>1 DEF RunInv, Collecting
  <2> QED BY <1>3, <2>1, <2>2 DEF RunInv, Writing, Unique, Sources, Atomic!There
<1> QED BY <1>3, <1>4, <1>5 DEF Keeps, IInv, TypeOK

LEMMA TruncateKeeps ==
  ASSUME IInv, NEW u \in Runs, Truncate(u)
  PROVE  Keeps(u)
<1>1. /\ phase[u] = "writing" /\ truncate[u]
      /\ truncated' = [truncated EXCEPT ![u] = TRUE]
      /\ UNCHANGED <<tables, phase, copy, truncate, begun, todo, all_events, written>>
  BY DEF Truncate, options
<1>2. TypeOK'
  BY <1>1 DEF IInv, TypeOK
<1>3. RunInv(u)'
  <2>1. RunInv(u)
    BY DEF IInv, UnifierInv
  <2> QED BY <1>1, <2>1 DEF RunInv, Writing, Unique, Sources, Atomic!There
<1> QED BY <1>1, <1>2, <1>3 DEF Keeps, IInv, TypeOK

LEMMA UpsertKeeps ==
  ASSUME IInv, NEW u \in Runs, NEW p \in all_events[u], Upsert(u, p[2])
  PROVE  Keeps(u)
<1>1. /\ phase[u] = "writing"
      /\ written' = [written EXCEPT ![u] = @ \cup {Unified(p[2])}]
      /\ UNCHANGED <<tables, phase, copy, truncate, begun, todo, all_events, truncated>>
  BY DEF Upsert, options
<1>2. Unified(p[2]) \in AllRows
  BY TakenAreRows DEF AllRows
<1>3. TypeOK'
  BY <1>1, <1>2 DEF IInv, TypeOK
<1>4. RunInv(u)'
  <2>1. RunInv(u) /\ written'[u] = written[u] \cup {Unified(p[2])}
    BY <1>1 DEF IInv, UnifierInv, TypeOK
  <2> QED BY <1>1, <2>1 DEF RunInv, Writing, Unique, Sources, Atomic!There
<1> QED BY <1>1, <1>3, <1>4 DEF Keeps, IInv, TypeOK

LEMMA CommitKeeps ==
  ASSUME IInv, NEW u \in Runs, Commit(u)
  PROVE  Keeps(u)
<1> USE UnifierAssumption
<1>1. PICK outcome \in {"done", "failed"} : phase' = [phase EXCEPT ![u] = outcome]
  BY DEF Commit
<1>2. /\ tables' = [tables EXCEPT ![Dest] = Merged(@, u)]
      /\ all_events' = [all_events EXCEPT ![u] = {}]
      /\ truncated' = [truncated EXCEPT ![u] = FALSE]
      /\ written' = [written EXCEPT ![u] = {}]
      /\ UNCHANGED <<copy, truncate, begun, todo>>
      /\ phase[u] = "writing"
  BY DEF Commit, options
<1>3. /\ Merged(tables[Dest], u) \subseteq AllRows
      /\ \A r, s \in Merged(tables[Dest], u) : SameId(r, s) => r = s
  BY WrittenAreUnified DEF Merged, SameId, IInv, TypeOK, Databases
<1>4. TypeOK'
  BY <1>1, <1>2, <1>3 DEF IInv, TypeOK
<1>5. RunInv(u)'
  <2>1. /\ phase'[u] = outcome /\ all_events'[u] = {} /\ written'[u] = {}
        /\ truncated'[u] = FALSE
    BY <1>1, <1>2 DEF IInv, TypeOK
  <2>2. todo'[u] \subseteq Sources(copy'[u])
    BY <1>2 DEF IInv, UnifierInv, RunInv
  <2> QED BY <2>1, <2>2 DEF RunInv
<1> QED BY <1>1, <1>2, <1>4, <1>5 DEF Keeps, IInv, TypeOK

LEMMA InvStep == IInv /\ [Next]_vars => IInv'
<1> SUFFICES ASSUME IInv, [Next]_vars PROVE IInv'
  OBVIOUS
<1>1. ASSUME NEW u \in Runs, Keeps(u), \A d \in Domains \cup {Store} : tables'[d] = tables[d]
      PROVE  IInv'
  <2>1. \A v \in Runs : RunInv(v)'
    BY <1>1, RunStays DEF Keeps
  <2>2. SourcesInv'
    BY <1>1 DEF IInv, UnifierInv, SourcesInv
  <2> QED BY <1>1, <2>1, <2>2 DEF IInv, UnifierInv, Keeps
<1>2. ASSUME NEW u \in Runs,
             \/ Start(u) \/ NotUnique(u) \/ Begin(u) \/ Truncate(u) \/ Commit(u) \/ Fail(u)
             \/ \E d \in Domains \cup {Store} : Collect(u, d) \/ CollectPanics(u, d)
             \/ \E p \in all_events[u] : Upsert(u, p[2])
      PROVE  Keeps(u) /\ \A d \in Domains \cup {Store} : tables'[d] = tables[d]
  <2>1. Keeps(u)
    BY <1>2, StartKeeps, CollectKeeps, EndKeeps, BeginKeeps, TruncateKeeps, UpsertKeeps,
       CommitKeeps DEF CollectPanics, NotUnique, Fail
  <2>2. \/ UNCHANGED tables
        \/ tables' = [tables EXCEPT ![Dest] = Merged(@, u)]
    BY <1>2 DEF Start, NotUnique, Begin, Truncate, Commit, Fail, Collect, CollectPanics, Upsert
  <2> QED BY <2>1, <2>2, UnifierAssumption DEF IInv, TypeOK, Databases
<1>3. ASSUME NEW d \in Databases, NEW r \in Rows, Save(d, r) PROVE IInv'
  <2>1. /\ tables' = [tables EXCEPT ![d] = @ \cup {r}]
        /\ \A s \in tables[d] : r.id # s.id
        /\ UNCHANGED <<phase, copy, truncate, begun, todo, all_events, truncated, written>>
    BY <1>3 DEF Save, options, SameId
  <2>2. TypeOK'
    BY <2>1 DEF IInv, TypeOK, AllRows, SameId
  <2>3. SourcesInv'
    BY <2>1 DEF IInv, TypeOK, UnifierInv, SourcesInv, Databases
  <2>4. \A v \in Runs : RunInv(v)'
    BY <2>1, RunStays
  <2> QED BY <2>2, <2>3, <2>4 DEF IInv, UnifierInv
<1>4. CASE UNCHANGED vars
  <2>1. TypeOK' /\ SourcesInv'
    BY <1>4 DEF IInv, UnifierInv, TypeOK, SourcesInv, vars, options
  <2>2. \A v \in Runs : RunInv(v)'
    BY <1>4, RunStays DEF vars, options
  <2> QED BY <2>1, <2>2 DEF IInv, UnifierInv
<1> QED BY <1>1, <1>2, <1>3, <1>4 DEF Next

LEMMA InvHolds == Spec => []IInv
BY InvInit, InvStep, PTL DEF Spec

(* The variables have their types, and no table ever holds an id twice,    *)
(* whatever runs write to it and services save at the same time (the       *)
(* `on conflict` of unifier/src/event.rs and the primary key).             *)
THEOREM TypeCorrect == Spec => []TypeOK
<1>1. IInv => TypeOK
  BY DEF IInv
<1> QED BY <1>1, InvHolds, PTL
--------------------------------------------------------------------------------
(* A run that commits has written what it has taken, and nothing else.     *)
LEMMA CommitWritesAll ==
  ASSUME IInv, NEW u \in Runs, Commit(u)
  PROVE  /\ written[u] = {Unified(p[2]) : p \in all_events[u]}
         /\ begun[u] \subseteq all_events[u]
         /\ truncated[u] = truncate[u]
BY DEF Commit, IInv, UnifierInv, RunInv, Writing, TypeOK

(* A run that ends well leaves everything at the destination that was in   *)
(* its sources when it started, whatever other runs and the services do    *)
(* meanwhile (unifier/src/main.rs).                                        *)
THEOREM SuccessIsComplete == Spec => CompleteOnSuccess
<1>1. ASSUME IInv, [Next]_vars, NEW u \in Runs, phase[u] # "done", phase'[u] = "done",
             NEW p \in begun[u]
      PROVE  Unified(p[2]) \in tables'[Dest]
  <2>1. phase \in [Runs -> {"off", "collecting", "writing", "done", "failed"}]
    BY <1>1 DEF IInv, TypeOK
  <2>2. Commit(u)
    BY <1>1, <2>1 DEF Next, vars, Save, Start, Collect, CollectPanics, NotUnique, Begin,
                      Truncate, Upsert, Fail, Ends, Commit
  <2>3. Unified(p[2]) \in written[u]
    BY <1>1, <2>2, CommitWritesAll
  <2>4. tables'[Dest] = Merged(tables[Dest], u)
    BY <1>1, <2>2 DEF Commit, IInv, TypeOK, Databases
  <2> QED BY <2>3, <2>4 DEF Merged
<1>2. IInv /\ [Next]_vars
        => [\A u \in Runs : phase[u] # "done" /\ phase'[u] = "done"
              => \A p \in begun[u] : Unified(p[2]) \in tables'[Dest]]_vars
  BY <1>1
<1> QED BY <1>2, InvHolds, PTL DEF Spec, CompleteOnSuccess
--------------------------------------------------------------------------------
(* The refinement: what a run shows of itself, as in Atomic.               *)
State == [u \in Runs |-> IF phase[u] \in {"collecting", "writing"} THEN "running"
                         ELSE phase[u]]

LEMMA AtomicInit == Init => Atomic!Init
BY DEF Init, Atomic!Init

LEMMA StartIsStart ==
  ASSUME IInv, NEW u \in Runs, Start(u)
  PROVE  Atomic!Start(u)
<1>1. PICK c \in BOOLEAN, t \in BOOLEAN :
        /\ copy' = [copy EXCEPT ![u] = c]
        /\ truncate' = [truncate EXCEPT ![u] = t]
        /\ begun' = [begun EXCEPT ![u] = UNION {{d} \X Wanted(c, d) : d \in Sources(c)}]
  BY DEF Start
<1>2. begun' = [begun EXCEPT ![u] = Atomic!There(c)]
  BY <1>1, StartsWithAll
<1>3. State[u] = "off" /\ State' = [State EXCEPT ![u] = "running"] /\ tables' = tables
  BY DEF State, Start, IInv, TypeOK
<1> QED BY <1>1, <1>2, <1>3 DEF Atomic!Start, State

LEMMA EndIsFail ==
  ASSUME IInv, NEW u \in Runs, Ends(u), UNCHANGED tables,
         phase[u] \in {"collecting", "writing"}
  PROVE  Atomic!Fail(u)
<1>1. State[u] = "running" /\ State' = [State EXCEPT ![u] = "failed"]
  BY DEF State, Ends, IInv, TypeOK
<1> QED BY <1>1 DEF Atomic!Fail, State, Ends, options

LEMMA CommitIsUnify ==
  ASSUME IInv, NEW u \in Runs, Commit(u)
  PROVE  Atomic!Unify(u)
<1> DEFINE taken == {p[2] : p \in all_events[u]}
           result == {Unified(r) : r \in taken}
<1>1. taken \in SUBSET Atomic!Available(copy[u])
  BY DEF Atomic!Available, IInv, UnifierInv, RunInv
<1>2. \A r, s \in taken : r.id = s.id => r = s
  BY DEF Commit, IInv, UnifierInv, RunInv, Writing, Unique, SameId
<1>3. \A p \in begun[u] : p[2] \in taken
  BY CommitWritesAll
<1>4. written[u] = result /\ truncated[u] = truncate[u]
  BY CommitWritesAll
<1>5. Merged(tables[Dest], u) = Atomic!Merged(tables[Dest], result, truncate[u])
  BY <1>4 DEF Merged, Atomic!Merged, Atomic!Ids, SameId
<1>6. tables' = [tables EXCEPT ![Dest] = Atomic!Merged(@, result, truncate[u])]
  BY <1>5 DEF Commit
<1>7. PICK outcome \in {"done", "failed"} : phase' = [phase EXCEPT ![u] = outcome]
  BY DEF Commit
<1>8. State[u] = "running" /\ State' = [State EXCEPT ![u] = outcome]
  BY <1>7 DEF State, Commit, IInv, TypeOK
<1>9. UNCHANGED <<copy, truncate, begun>>
  BY DEF Commit, options
<1> QED BY <1>1, <1>2, <1>3, <1>6, <1>8, <1>9 DEF Atomic!Unify, State

LEMMA SaveIsSave ==
  ASSUME NEW d \in Databases, NEW r \in Rows, Save(d, r)
  PROVE  Atomic!Save(d, r)
BY DEF Save, Atomic!Save, Atomic!Ids, SameId, options

(* What a run does before its commit is invisible.                         *)
LEMMA WorkIsInvisible ==
  ASSUME IInv, NEW u \in Runs,
         \/ \E d \in Domains \cup {Store} : Collect(u, d)
         \/ \E p \in all_events[u] : Upsert(u, p[2])
         \/ Begin(u) \/ Truncate(u)
  PROVE  UNCHANGED Atomic!vars
<1>1. UNCHANGED <<tables, copy, truncate, begun>>
  BY DEF Collect, Upsert, Begin, Truncate, options
<1>2. phase' = phase \/ (phase[u] = "collecting" /\ phase' = [phase EXCEPT ![u] = "writing"])
  BY DEF Collect, Upsert, Begin, Truncate
<1>3. State' = State
  BY <1>2 DEF State, IInv, TypeOK
<1> QED BY <1>1, <1>3 DEF Atomic!vars, State

LEMMA AtomicStep == IInv /\ [Next]_vars => [Atomic!Next]_(Atomic!vars)
<1> SUFFICES ASSUME IInv, [Next]_vars PROVE Atomic!Next \/ UNCHANGED Atomic!vars
  OBVIOUS
<1>1. ASSUME NEW u \in Runs, Start(u) PROVE Atomic!Next
  BY <1>1, StartIsStart DEF Atomic!Next
<1>2. ASSUME NEW u \in Runs,
             \/ NotUnique(u) \/ Fail(u)
             \/ \E d \in Domains \cup {Store} : CollectPanics(u, d)
      PROVE  Atomic!Next
  BY <1>2, EndIsFail DEF NotUnique, Fail, CollectPanics, Atomic!Next
<1>3. ASSUME NEW u \in Runs, Commit(u) PROVE Atomic!Next
  BY <1>3, CommitIsUnify DEF Atomic!Next
<1>4. ASSUME NEW d \in Databases, NEW r \in Rows, Save(d, r) PROVE Atomic!Next
  BY <1>4, SaveIsSave DEF Atomic!Next
<1>5. CASE UNCHANGED vars
  BY <1>5 DEF vars, options, Atomic!vars
<1> QED BY <1>1, <1>2, <1>3, <1>4, <1>5, WorkIsInvisible DEF Next

(* A run of the unifier, with all its reads, its transaction and its ways  *)
(* to fail, is one step on the destination or none (main.rs, `transaction`,*)
(* `commit`).                                                              *)
THEOREM RunsAreAtomic == Spec => UnifiesAtomically
<1>1. IInv /\ [Next]_vars => [Atomic!Next]_(Atomic!vars)
  BY AtomicStep
<1> QED BY <1>1, AtomicInit, InvHolds, PTL DEF Spec, Atomic!Spec, UnifiesAtomically
================================================================================
