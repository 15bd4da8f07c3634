-------------------------------- MODULE TimeText --------------------------------
(***************************************************************************)
(* Times as texts.  A row holds its context.time as RFC 3339 text that     *)
(* ends in Z, "2019-01-17T19:53:44.339Z"; read_events_since compares it,   *)
(* as text, with DateTime::to_rfc3339, which ends in "+00:00".  Both have  *)
(* fractions of 0, 3, 6 or 9 digits, as few as the time needs, and a row   *)
(* may have more.                                                          *)
(*                                                                         *)
(* A text is a sequence of the things that can stand at one place: the     *)
(* part up to the seconds, a period, groups of three digits, and "+" or    *)
(* "Z", as numbers that compare as the bytes do.  That texts compare by    *)
(* their bytes is an assumption on the database's default collation, true  *)
(* of the image in docker-compose.yml: read_events_since names none.       *)
(***************************************************************************)
EXTENDS Integers, Sequences

CONSTANTS
  Groups,   \* groups of digits in the longest fraction
  Base      \* values of a group

ASSUME TimeTextAssumption ==
  /\ Groups \in Nat \ {0}
  /\ Base \in Nat \ {0, 1}

Plus == -2
Period == -1
Zulu == Base

Power[n \in Nat] == IF n = 0 THEN 1 ELSE Base * Power[n - 1]

(* A time is a number of the smallest units.                               *)
Second == Power[Groups]

Group(t, i) == (t \div Power[Groups - i]) % Base

(* The fractions that say all of t, by their number of groups.             *)
Exact(t) == {n \in 0 .. Groups : \A i \in (n + 1) .. Groups : Group(t, i) = 0}

Written(t, n, zone) ==
  <<t \div Second>> \o (IF n = 0 THEN <<>> ELSE <<Period>>)
    \o [i \in 1 .. n |-> Group(t, i)] \o <<zone>>

(* SecondsFormat::AutoSi                                                   *)
Shortest(t) == CHOOSE n \in Exact(t) : \A m \in Exact(t) : n =< m

(* The texts that a row with the time t may hold: that of serde for a      *)
(* DateTime<Utc>, or toISOString of JavaScript, with three digits always.  *)
RowTexts(t) == {Written(t, n, Zulu) : n \in {Shortest(t)} \cup (Exact(t) \cap {1})}

\* Mutant: to_rfc3339_opts(AutoSi, true).
SinceInZulu(t) == Written(t, Shortest(t), Zulu)

\* DateTime::to_rfc3339
Since(t) == Written(t, Shortest(t), Plus)

(* Text comparison in byte order, `a >= b`.                                *)
AtOrAfter(a, b) ==
  \/ a = b
  \/ \E i \in DOMAIN a \cap DOMAIN b :
       /\ a[i] > b[i]
       /\ \A j \in 1 .. (i - 1) : a[j] = b[j]

(* `::timestamp with time zone` rounds to microseconds, two groups.        *)
Microsecond == IF Groups > 2 THEN Power[Groups - 2] ELSE 1

Timestamp(t) == (2 * t + Microsecond) \div (2 * Microsecond)

================================================================================
