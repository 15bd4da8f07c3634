----------------------------- MODULE DerivedEvents -----------------------------
(***************************************************************************)
(* What the derive macros make of the declarations of event types: the     *)
(* namespace and the type of an event, and how it is written as JSON and   *)
(* read back.                                                              *)
(*                                                                         *)
(* A struct is a record: its ident; attrs, its #[event_store(..)]          *)
(* attributes, each a sequence of `key = "value"`; and fields, the set of  *)
(* the values of each field's type.  An optional field has Null among its  *)
(* values.  An enum is the sequence of the structs of its variants.  The   *)
(* JSON of an event is a record of its namespace, its type and its fields. *)
(***************************************************************************)
EXTENDS Integers, Sequences

CONSTANT Null   \* JSON's null, and None

(* get_attribute_ident: the first attribute whose *first* key is the one   *)
(* that is asked for; what else the attribute holds is not looked at.  An  *)
(* Option is a set with at most one element.                               *)
Hits(attrs, key) == {i \in DOMAIN attrs : attrs[i] # <<>> /\ attrs[i][1].key = key}

AttributeIdent(attrs, key) ==
  {attrs[i][1].value : i \in {j \in Hits(attrs, key) : \A k \in Hits(attrs, key) : j =< k}}

(* "Namespace attribute must be provided at the struct level"              *)
Compiles(struct) == AttributeIdent(struct.attrs, "namespace") # {}

EventNamespace(struct) ==
  CHOOSE ident \in AttributeIdent(struct.attrs, "namespace") : TRUE

EventType(struct) ==
  LET rename == AttributeIdent(struct.attrs, "rename")
  IN  IF rename = {} THEN struct.ident ELSE CHOOSE ident \in rename : TRUE

Name(struct) == <<EventNamespace(struct), EventType(struct)>>

(* The values of a struct.                                                 *)
Values(struct) ==
  {data \in [DOMAIN struct.fields -> UNION {struct.fields[f] : f \in DOMAIN struct.fields}] :
     \A f \in DOMAIN data : data[f] \in struct.fields[f]}

Serialize(struct, data) ==
  [namespace |-> EventNamespace(struct), type |-> EventType(struct), fields |-> data]

(* serde reads a field that is missing as null, which only an Option       *)
(* takes, and passes over fields that the struct does not have.            *)
Member(json, f) == IF f \in DOMAIN json.fields THEN json.fields[f] ELSE Null

Parses(struct, json) ==
  \A f \in DOMAIN struct.fields : Member(json, f) \in struct.fields[f]

\* Mutant: the type is not compared.
ReadsByNamespace(struct, json) ==
  {data \in {[f \in DOMAIN struct.fields |-> Member(json, f)]} :
     /\ Parses(struct, json)
     /\ json.namespace = EventNamespace(struct)}

\* Mutant: the type is compared with the ident of the struct.
ReadsByIdent(struct, json) ==
  {data \in {[f \in DOMAIN struct.fields |-> Member(json, f)]} :
     /\ Parses(struct, json)
     /\ json.namespace = EventNamespace(struct)
     /\ json.type = struct.ident}

(* The generated Deserialize: the fields as a Helper, then the namespace,  *)
(* then the type.  The result is a set with at most one element.           *)
Deserialize(struct, json) ==
  {data \in {[f \in DOMAIN struct.fields |-> Member(json, f)]} :
     /\ Parses(struct, json)
     /\ json.namespace = EventNamespace(struct)
     /\ json.type = EventType(struct)}

(* The enum reads `untagged`: its first variant whose struct can be read.  *)
Fits(enum, json) == {i \in DOMAIN enum : Deserialize(enum[i], json) # {}}

Decode(enum, json) ==
  UNION {{[variant |-> i, data |-> data] : data \in Deserialize(enum[i], json)} :
           i \in {j \in Fits(enum, json) : \A k \in Fits(enum, json) : j =< k}}

================================================================================
