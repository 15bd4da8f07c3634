-------------------------------- MODULE QuietUse --------------------------------
(***************************************************************************)
(* Aggregation used the way the repository's own tests use it: an event    *)
(* that has been built is saved before anyone aggregates, and nobody       *)
(* builds or saves an event while an aggregate runs.  Aggregates may still *)
(* overlap one another, fail and crash.                                    *)
(***************************************************************************)
EXTENDS Aggregation

(* Event values that were built and are not in the table yet.              *)
InFlight == {e \in created : ~ HasId(e)}

Quiet == (\E c \in Callers : pc[c] \in InCall) => InFlight = {}

QuietNext == Next /\ Quiet'

QuietSpec == Init /\ [][QuietNext]_vars

(***************************************************************************)
(* The cached aggregation, seen as the uncached one: a call that has read  *)
(* the cache only has not read anything yet, and writing the cache is      *)
(* invisible.                                                              *)
(***************************************************************************)
AbstractPc ==
  [c \in Callers |->
     CASE pc[c] = "resumed" -> "called"
       [] pc[c] \in {"folded", "stamped"} -> "read"
       [] OTHER -> pc[c]]

AbstractAcc == [c \in Callers |-> IF pc[c] = "resumed" THEN <<>> ELSE acc[c]]

Uncached == INSTANCE UncachedAggregation WITH pc <- AbstractPc, acc <- AbstractAcc

(* Used quietly, with clocks that agree, Store::aggregate with its cache   *)
(* implements the aggregate that reads all of the table every time.        *)
ImplementsUncached == Uncached!Spec
================================================================================
