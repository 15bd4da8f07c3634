------------------------------ MODULE MCTypedStore ------------------------------
(* Small instances of TypedStore for TLC.                                  *)
EXTENDS TypedStore

Attr(k, v) == [key |-> k, value |-> v]
Namespace(n) == <<Attr("namespace", n)>>
Rename(n) == <<Attr("rename", n)>>

Number == {1, 2}
Word == {3}
MCNull == 0

Struct(ident, attrs, fields) == [ident |-> ident, attrs |-> attrs, fields |-> fields]
Amount(type) == [amount |-> type]

\* #[event_store(namespace = "ns")] struct Added { amount }
Added == Struct("Added", <<Namespace("ns")>>, Amount(Number))
\* the struct has another ident and keeps the type
Renamed == Struct("Adding", <<Namespace("ns"), Rename("Added")>>, Amount(Number))
\* the rename stands after the namespace, in one attribute, and is not seen
NotRenamed == Struct("Adding", <<<<Attr("namespace", "ns"), Attr("rename", "Added")>>>>,
                     Amount(Number))
\* another optional field
Noted == Struct("Added", <<Namespace("ns")>>, [amount |-> Number, note |-> Word \cup {MCNull}])
\* a type of the same fields, and the type Added in another namespace
Removed == Struct("Removed", <<Namespace("ns")>>, Amount(Number))
Elsewhere == Struct("Added", <<Namespace("other")>>, Amount(Number))
\* a field of the same ident and another type
Told == Struct("Added", <<Namespace("ns")>>, Amount(Word))
\* no namespace: does not compile
Nowhere == Struct("Added", <<Rename("Added")>>, Amount(Number))

MCVersions ==
  {<<Added, Removed>>, <<Removed, Renamed>>, <<NotRenamed, Elsewhere>>,
   <<Elsewhere, Noted>>, <<Told, Removed, Added>>, <<Nowhere>>}

\* no fraction, milliseconds, microseconds, nanoseconds; the next second
MCTimes == {0, 16, 20, 21, 64}
================================================================================
