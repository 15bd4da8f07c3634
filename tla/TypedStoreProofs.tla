---------------------------- MODULE TypedStoreProofs ----------------------------
(***************************************************************************)
(* Proofs about TypedStore, for every set of versions, whatever their      *)
(* structs, attributes and fields are, and every number of rows.           *)
(***************************************************************************)
EXTENDS TypedStore, TimeTextProofs, FiniteSetTheorems, FunctionTheorems

(* The inductive invariant: every row is what the generated Serialize made *)
(* of a value of the struct that it was written by.                        *)
Serialized(row) ==
  \E data \in Values(row.origin) : row.json = Serialize(row.origin, data)

SerializedInv == \A row \in rows : Serialized(row)

LEMMA SerializedInit == Init => SerializedInv
  BY DEF Init, SerializedInv

LEMMA SerializedStep ==
  ASSUME SerializedInv, [Next]_vars
  PROVE  SerializedInv'
<1>1. ASSUME NEW i \in DOMAIN enum, NEW data \in Values(enum[i]), NEW t \in Times,
             Save(i, data, t)
      PROVE  SerializedInv'
  <2>1. PICK text \in RowTexts(t) :
          rows' = rows \cup {[json |-> Serialize(enum[i], data), text |-> text,
                              time |-> t, origin |-> enum[i]]}
    BY <1>1 DEF Save
  <2>2. Serialized([json |-> Serialize(enum[i], data), text |-> text,
                    time |-> t, origin |-> enum[i]])
    BY DEF Serialized
  <2> QED BY <2>1, <2>2 DEF SerializedInv, Serialized
<1>2. ASSUME UNCHANGED rows PROVE SerializedInv'
  BY <1>2 DEF SerializedInv, Serialized
<1>3. \/ UNCHANGED rows
      \/ \E i \in DOMAIN enum : \E data \in Values(enum[i]), t \in Times : Save(i, data, t)
  BY DEF Next, vars, Deploy, ReadEventsSince
<1> QED BY <1>1, <1>2, <1>3

(* What a value of a struct says of a field, the JSON says of it too.      *)
LEMMA MemberOfSerialized ==
  ASSUME NEW struct, NEW data \in Values(struct), NEW f
  PROVE  /\ Member(Serialize(struct, data), f) =
              IF f \in DOMAIN struct.fields THEN data[f] ELSE Null
         /\ f \in DOMAIN struct.fields => data[f] \in struct.fields[f]
<1>1. DOMAIN data = DOMAIN struct.fields
  BY DEF Values
<1>2. Serialize(struct, data).fields = data
  BY DEF Serialize
<1> QED BY <1>1, <1>2 DEF Member, Values

(* A struct reads only what has its name, and reads the fields as they are.*)
LEMMA DeserializeIsFaithful ==
  ASSUME NEW struct, NEW json, NEW data \in Deserialize(struct, json)
  PROVE  /\ Name(struct) = <<json.namespace, json.type>>
         /\ \A f \in DOMAIN data : data[f] = Member(json, f)
<1>1. data = [f \in DOMAIN struct.fields |-> Member(json, f)]
  BY DEF Deserialize
<1>2. json.namespace = EventNamespace(struct) /\ json.type = EventType(struct)
  BY DEF Deserialize
<1> QED BY <1>1, <1>2 DEF Name

(* A declaration that keeps another reads every value of it.               *)
LEMMA KeepingReads ==
  ASSUME NEW old, NEW new, Keeps(new, old), NEW data \in Values(old)
  PROVE  Deserialize(new, Serialize(old, data)) # {}
<1> DEFINE json == Serialize(old, data)
<1>1. json.namespace = EventNamespace(new) /\ json.type = EventType(new)
  BY DEF Keeps, Name, Serialize
<1>2. ASSUME NEW f \in DOMAIN new.fields PROVE Member(json, f) \in new.fields[f]
  <2>1. CASE f \in DOMAIN old.fields
    <3>1. Member(json, f) = data[f] /\ data[f] \in old.fields[f]
      BY <2>1, MemberOfSerialized
    <3>2. old.fields[f] \subseteq new.fields[f]
      BY <2>1 DEF Keeps
    <3> QED BY <3>1, <3>2
  <2>2. CASE f \notin DOMAIN old.fields
    <3>1. Member(json, f) = Null
      BY <2>2, MemberOfSerialized
    <3>2. Null \in new.fields[f]
      BY <2>2 DEF Keeps
    <3> QED BY <3>1, <3>2
  <2> QED BY <2>1, <2>2
<1>3. Parses(new, json)
  BY <1>2 DEF Parses
<1>4. [f \in DOMAIN new.fields |-> Member(json, f)] \in Deserialize(new, json)
  BY <1>1, <1>3 DEF Deserialize
<1> QED BY <1>4

(* When no two variants have one name, at most one variant can read a row, *)
(* so that the first one that can is any one that can.                     *)
LEMMA OnlyFit ==
  ASSUME NEW version, DOMAIN version \subseteq Int, DistinctNames(version),
         NEW json, NEW i \in Fits(version, json)
  PROVE  Decode(version, json) # {}
<1>1. \A k \in Fits(version, json) : k = i
  <2> SUFFICES ASSUME NEW k \in Fits(version, json) PROVE k = i
    OBVIOUS
  <2>1. Name(version[k]) = Name(version[i])
    BY DeserializeIsFaithful DEF Fits
  <2> QED BY <2>1 DEF Fits, DistinctNames
<1>2. i \in Int /\ Deserialize(version[i], json) # {}
  BY DEF Fits
<1>3. \A k \in Fits(version, json) : i =< k
  BY <1>1, <1>2
<1>4. PICK data \in Deserialize(version[i], json) : TRUE
  BY <1>2
<1>5. [variant |-> i, data |-> data] \in Decode(version, json)
  BY <1>3, <1>4 DEF Decode
<1> QED BY <1>5

(* The enum that runs is a sequence of structs, as all versions are.       *)
EnumInv == DOMAIN enum = 1 .. Len(enum)

LEMMA EnumStep ==
  ASSUME EnumInv, [Next]_vars
  PROVE  EnumInv'
<1>1. ASSUME NEW version \in Versions, Deploy(version) PROVE EnumInv'
  BY <1>1, TypedStoreAssumption DEF Deploy, EnumInv
<1>2. ASSUME UNCHANGED enum PROVE EnumInv'
  BY <1>2 DEF EnumInv
<1>3. UNCHANGED enum \/ \E version \in Versions : Deploy(version)
  BY DEF Next, vars, Save, ReadEventsSince
<1> QED BY <1>1, <1>2, <1>3

LEMMA RowsKeepMeaning == EnumInv /\ SerializedInv => KeepsMeaning
<1> SUFFICES ASSUME EnumInv, SerializedInv, NEW row \in rows
             PROVE  /\ \A read \in Decode(enum, row.json) :
                         /\ Name(enum[read.variant]) = Name(row.origin)
                         /\ \A f \in DOMAIN read.data : read.data[f] = Member(row.json, f)
                    /\ DistinctNames(enum) /\ (\E i \in DOMAIN enum : Keeps(enum[i], row.origin))
                         => Decode(enum, row.json) # {}
  BY DEF KeepsMeaning
<1>1. PICK data \in Values(row.origin) : row.json = Serialize(row.origin, data)
  BY DEF SerializedInv, Serialized
<1>2. Name(row.origin) = <<row.json.namespace, row.json.type>>
  BY <1>1 DEF Serialize, Name
<1>3. ASSUME NEW read \in Decode(enum, row.json)
      PROVE  /\ Name(enum[read.variant]) = Name(row.origin)
             /\ \A f \in DOMAIN read.data : read.data[f] = Member(row.json, f)
  <2>1. PICK i, found :
          found \in Deserialize(enum[i], row.json) /\ read = [variant |-> i, data |-> found]
    BY DEF Decode
  <2>2. read.variant = i /\ read.data = found
    BY <2>1
  <2> QED BY <1>2, <2>1, <2>2, DeserializeIsFaithful
<1>4. ASSUME DistinctNames(enum), NEW i \in DOMAIN enum, Keeps(enum[i], row.origin)
      PROVE  Decode(enum, row.json) # {}
  <2>1. i \in Fits(enum, row.json)
    BY <1>1, <1>4, KeepingReads DEF Fits
  <2>2. DOMAIN enum \subseteq Int
    BY DEF EnumInv
  <2> QED BY <1>4, <2>1, <2>2, OnlyFit
<1> QED BY <1>3, <1>4

(* Whatever versions are deployed and in whatever order, a row is read as  *)
(* an event of the name it was written under, with the fields it was       *)
(* written with, or not at all; and it is read by a version that keeps its *)
(* declaration and names each variant differently (derive_struct.rs,       *)
(* derive_enum.rs).                                                        *)
THEOREM MeaningKept == Spec => []KeepsMeaning
<1>1. Init => EnumInv /\ SerializedInv
  BY SerializedInit, TypedStoreAssumption DEF Init, EnumInv
<1>2. EnumInv /\ SerializedInv /\ [Next]_vars => (EnumInv /\ SerializedInv)'
  BY EnumStep, SerializedStep
<1> QED BY <1>1, <1>2, RowsKeepMeaning, PTL DEF Spec
--------------------------------------------------------------------------------
(* What read_events_since returns.  The inductive invariant: a row holds   *)
(* its time as a text that says all of it, and the last answer is, once    *)
(* each and in the order of the column's timestamps, what the select finds *)
(* in the table, which has not changed since.                              *)
TextsInv ==
  /\ IsFiniteSet(rows)
  /\ \A row \in rows : row.time \in Nat /\ row.text \in RowTexts(row.time)

AnswerInv ==
  \A a \in answer :
    /\ a.since \in Nat
    /\ a.list \in SetToSeqs(FromOn(Name(a.struct), a.since))
    /\ \A j, k \in DOMAIN a.list :
         j < k => Timestamp(a.list[j].time) =< Timestamp(a.list[k].time)

LEMMA TextsStep ==
  ASSUME TextsInv, [Next]_vars
  PROVE  TextsInv'
<1>1. ASSUME NEW i \in DOMAIN enum, NEW data \in Values(enum[i]), NEW t \in Times,
             Save(i, data, t)
      PROVE  TextsInv'
  <2>1. PICK text \in RowTexts(t) :
          rows' = rows \cup {[json |-> Serialize(enum[i], data), text |-> text,
                              time |-> t, origin |-> enum[i]]}
    BY <1>1 DEF Save
  <2>2. IsFiniteSet(rows')
    BY <2>1, FS_AddElement DEF TextsInv
  <2>3. t \in Nat
    BY TypedStoreAssumption
  <2> QED BY <2>1, <2>2, <2>3 DEF TextsInv
<1>2. ASSUME UNCHANGED rows PROVE TextsInv'
  BY <1>2 DEF TextsInv
<1>3. \/ UNCHANGED rows
      \/ \E i \in DOMAIN enum : \E data \in Values(enum[i]), t \in Times : Save(i, data, t)
  BY DEF Next, vars, Deploy, ReadEventsSince
<1> QED BY <1>1, <1>2, <1>3

LEMMA AnswerStep ==
  ASSUME AnswerInv, [Next]_vars
  PROVE  AnswerInv'
<1>1. ASSUME NEW i \in DOMAIN enum, NEW t \in Times, ReadEventsSince(i, t)
      PROVE  AnswerInv'
  <2>1. PICK list \in SetToSeqs(FromOn(Name(enum[i]), t)) :
          /\ \A j, k \in DOMAIN list :
               j < k => Timestamp(list[j].time) =< Timestamp(list[k].time)
          /\ answer' = {[struct |-> enum[i], since |-> t, list |-> list]}
    BY <1>1 DEF ReadEventsSince
  <2>2. UNCHANGED rows /\ t \in Nat
    BY <1>1, TypedStoreAssumption DEF ReadEventsSince
  <2>3. FromOn(Name(enum[i]), t)' = FromOn(Name(enum[i]), t)
    BY <1>1 DEF ReadEventsSince, FromOn, Named
  <2> QED BY <2>1, <2>2 DEF AnswerInv, FromOn, Named
<1>2. ASSUME answer' = {} PROVE AnswerInv'
  BY <1>2 DEF AnswerInv
<1>3. ASSUME UNCHANGED vars PROVE AnswerInv'
  BY <1>3 DEF AnswerInv, vars, FromOn, Named
<1>4. \/ UNCHANGED vars \/ answer' = {}
      \/ \E i \in DOMAIN enum, t \in Times : ReadEventsSince(i, t)
  BY DEF Next, Deploy, Save
<1> QED BY <1>1, <1>2, <1>3, <1>4

(* A list of a finite set has every member of the set.                     *)
LEMMA ListsAll ==
  ASSUME NEW S, IsFiniteSet(S), NEW list \in SetToSeqs(S)
  PROVE  /\ DOMAIN list \subseteq Int
         /\ \A i \in DOMAIN list : list[i] \in S
         /\ \A x \in S : \E i \in DOMAIN list : list[i] = x
<1> DEFINE n == Cardinality(S)
<1>1. n \in Nat
  BY FS_CardinalityType
<1>2. list \in [1 .. n -> S] /\ \A i, j \in 1 .. n : i # j => list[i] # list[j]
  BY DEF SetToSeqs
<1>3. list \in Injection(1 .. n, S)
  BY <1>2, Fun_IsInj
<1>4. Cardinality(1 .. n) = n
  BY <1>1, FS_Interval
<1>5. list \in Surjection(1 .. n, S)
  BY <1>3, <1>4, FS_Injection
<1>6. \A x \in S : \E i \in 1 .. n : list[i] = x
  BY <1>5 DEF Surjection
<1>7. DOMAIN list = 1 .. n /\ \A i \in 1 .. n : list[i] \in S
  BY <1>2
<1> QED BY <1>1, <1>6, <1>7

LEMMA NothingMissed == TextsInv /\ AnswerInv => SinceMissesNothing
<1> SUFFICES ASSUME TextsInv, AnswerInv, NEW a \in answer
             PROVE  /\ \A row \in Named(Name(a.struct)) :
                         row.time >= a.since => \E i \in DOMAIN a.list : a.list[i] = row
                    /\ \A i, j \in DOMAIN a.list :
                         i < j => a.list[i].time < a.list[j].time + Microsecond
  BY DEF SinceMissesNothing
<1> DEFINE found == FromOn(Name(a.struct), a.since)
<1>1. a.since \in Nat /\ a.list \in SetToSeqs(found)
  BY DEF AnswerInv
<1>2. found \subseteq rows
  BY DEF FromOn, Named
<1>3. IsFiniteSet(found)
  BY <1>2, FS_Subset DEF TextsInv
<1>4. ASSUME NEW row \in Named(Name(a.struct)), row.time >= a.since
      PROVE  \E i \in DOMAIN a.list : a.list[i] = row
  <2>1. row.time \in Nat /\ row.text \in RowTexts(row.time)
    BY DEF TextsInv, Named
  <2>2. AtOrAfter(row.text, Since(a.since))
    BY <1>1, <1>4, <2>1, RowStandsAtOrAfter
  <2>3. row \in found
    BY <2>2 DEF FromOn
  <2> HIDE DEF found
  <2> QED BY <1>1, <1>3, <2>3, ListsAll
<1>5. ASSUME NEW i \in DOMAIN a.list, NEW j \in DOMAIN a.list, i < j
      PROVE  a.list[i].time < a.list[j].time + Microsecond
  <2>1. a.list[i] \in rows /\ a.list[j] \in rows
    <3> HIDE DEF found
    <3> QED BY <1>1, <1>2, <1>3, ListsAll
  <2>2. Timestamp(a.list[i].time) =< Timestamp(a.list[j].time)
    BY <1>5 DEF AnswerInv
  <2> QED BY <2>1, <2>2, TimestampOrder DEF TextsInv
<1> QED BY <1>4, <1>5

LEMMA NoneBeforeTheSecond == TextsInv /\ AnswerInv => NothingBeforeTheSecond
<1> SUFFICES ASSUME TextsInv, AnswerInv, NEW a \in answer, NEW i \in DOMAIN a.list
             PROVE  a.list[i].time \div Second >= a.since \div Second
  BY DEF NothingBeforeTheSecond
<1> DEFINE found == FromOn(Name(a.struct), a.since)
<1>1. a.since \in Nat /\ a.list \in SetToSeqs(found)
  BY DEF AnswerInv
<1>2. found \subseteq rows /\ \A row \in found : AtOrAfter(row.text, Since(a.since))
  BY DEF FromOn, Named
<1>3. IsFiniteSet(found)
  BY <1>2, FS_Subset DEF TextsInv
<1>4. a.list[i] \in found
  <2> HIDE DEF found
  <2> QED BY <1>1, <1>3, ListsAll
<1> DEFINE t == a.list[i].time
<1>5. t \in Nat /\ a.list[i].text \in RowTexts(t)
  BY <1>2, <1>4 DEF TextsInv
<1>6. a.since \div Second =< t \div Second
  BY <1>1, <1>2, <1>4, <1>5, SecondsCompareAsTexts
<1>7. a.since \div Second \in Nat /\ t \div Second \in Nat
  BY <1>1, <1>5, PowerType, DivIs, TimeTextAssumption DEF Second
<1> QED BY <1>6, <1>7

LEMMA AnswerHolds == Spec => [](TextsInv /\ AnswerInv)
<1>1. Init => TextsInv /\ AnswerInv
  BY FS_EmptySet DEF Init, TextsInv, AnswerInv
<1>2. TextsInv /\ AnswerInv /\ [Next]_vars => (TextsInv /\ AnswerInv)'
  BY TextsStep, AnswerStep
<1> QED BY <1>1, <1>2, PTL DEF Spec

(* read_events_since finds all that it is asked for, in order of time to   *)
(* the microsecond: texts in Z of as many digits as a row needs compare    *)
(* with the text in +00:00 that is asked for as the times do, whatever the *)
(* number and the size of the groups of digits (pg.rs, to_rfc3339).        *)
THEOREM NothingSinceMissed == Spec => []SinceMissesNothing
BY AnswerHolds, NothingMissed, PTL

(* And what it finds from before that time is of the same second.          *)
(* (read_events_since of pg.rs: the texts agree up to the seconds.)        *)
THEOREM EarlyWithinTheSecond == Spec => []NothingBeforeTheSecond
BY AnswerHolds, NoneBeforeTheSecond, PTL
================================================================================
