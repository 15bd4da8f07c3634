---------------------------- MODULE TimeTextProofs ----------------------------
(***************************************************************************)
(* Proofs about TimeText: texts of times compare as the times do, whatever *)
(* the number of groups of digits and the number of values of a group.     *)
(***************************************************************************)
EXTENDS TimeText, WellFoundedInduction, TLAPS

(* Induction, with sets: that < is well founded on the naturals gives a    *)
(* set of them its least member, ...                                       *)
LEMMA LeastOf ==
  ASSUME NEW T \in SUBSET Nat, T # {}
  PROVE  \E x \in T : \A y \in T : x =< y
<1> DEFINE R == OpToRel(<, Nat)
<1>1. IsWellFoundedOn(R, Nat)
  BY NatLessThanWellFounded
<1>2. \A p \in Nat \X Nat : p[1] < p[2] => p \in R
  BY DEF OpToRel
<1> HIDE DEF R
<1>3. PICK x \in T : \A y \in T : <<y, x>> \notin R
  BY <1>1, WFMin
<1>4. \A y \in T : ~ (y < x)
  BY <1>2, <1>3
<1> QED BY <1>3, <1>4

(* ... and a set that has 0 and, with a number, the next, has all of them. *)
LEMMA SetInduction ==
  ASSUME NEW S, 0 \in S, \A n \in Nat : n \in S => n + 1 \in S
  PROVE  Nat \subseteq S
<1> SUFFICES ASSUME Nat \ S # {} PROVE FALSE
  OBVIOUS
<1>1. PICK x \in Nat \ S : \A y \in Nat \ S : x =< y
  BY LeastOf
<1>2. x # 0 /\ x - 1 \in Nat
  BY <1>1
<1>3. x - 1 \in S
  BY <1>1, <1>2
<1>4. x - 1 + 1 = x
  BY <1>1
<1> QED BY <1>1, <1>2, <1>3, <1>4

--------------------------------------------------------------------------------
(* Power.  The first values of a function that has the equation of Power:  *)
Powers(n) ==
  {h \in [0 .. n -> Nat] : h[0] = 1 /\ \A i \in 1 .. n : h[i] = Base * h[i - 1]}

(* For every n there are such values up to n, ...                          *)
LEMMA PowersExist == \A n \in Nat : Powers(n) # {}
<1> DEFINE S == {n \in Nat : Powers(n) # {}}
<1>1. 0 \in S
  <2>1. [i \in 0 .. 0 |-> 1] \in Powers(0)
    BY DEF Powers
  <2> QED BY <2>1
<1>2. ASSUME NEW n \in Nat, n \in S PROVE n + 1 \in S
  <2>1. PICK h \in Powers(n) : TRUE
    BY <1>2
  <2> DEFINE g == [i \in 0 .. n + 1 |-> IF i = n + 1 THEN Base * h[n] ELSE h[i]]
  <2>2. g \in [0 .. n + 1 -> Nat]
    BY <2>1, TimeTextAssumption DEF Powers
  <2>3. g[0] = 1 /\ \A i \in 1 .. n + 1 : g[i] = Base * g[i - 1]
    BY <2>1 DEF Powers
  <2> HIDE DEF g
  <2>4. g \in Powers(n + 1)
    BY <2>2, <2>3 DEF Powers
  <2> QED BY <2>4
<1> HIDE DEF S
<1>3. Nat \subseteq S
  BY <1>1, <1>2, SetInduction
<1> QED BY <1>3 DEF S

(* ... and only one choice of them, ...                                    *)
LEMMA PowersAgree ==
  \A n, m \in Nat : \A g \in Powers(n), h \in Powers(m) : n =< m => g[n] = h[n]
<1> DEFINE S == {n \in Nat : \A m \in Nat : \A g \in Powers(n), h \in Powers(m) :
                               n =< m => g[n] = h[n]}
<1>1. 0 \in S
  BY DEF Powers
<1>2. ASSUME NEW n \in Nat, n \in S PROVE n + 1 \in S
  <2>1. ASSUME NEW m \in Nat, NEW g \in Powers(n + 1), NEW h \in Powers(m), n + 1 =< m
        PROVE  g[n + 1] = h[n + 1]
    <3> DEFINE f == [i \in 0 .. n |-> g[i]]
    <3>1. f \in Powers(n) /\ f[n] = g[n]
      BY DEF Powers
    <3> HIDE DEF f
    <3>2. g[n] = h[n]
      BY <1>2, <2>1, <3>1
    <3>3. g[n + 1] = Base * g[n] /\ h[n + 1] = Base * h[n]
      BY <2>1 DEF Powers
    <3> QED BY <3>2, <3>3
  <2> QED BY <2>1
<1> HIDE DEF S
<1>3. Nat \subseteq S
  BY <1>1, <1>2, SetInduction
<1> QED BY <1>3 DEF S

(* ... so that there is a function with the equation, and Power is it.     *)
LEMMA PowerExists == \E f : f = [n \in Nat |-> IF n = 0 THEN 1 ELSE Base * f[n - 1]]
<1> DEFINE H(n) == CHOOSE h \in Powers(n) : TRUE
           P == [n \in Nat |-> H(n)[n]]
<1>1. \A n \in Nat : H(n) \in Powers(n)
  BY PowersExist
<1> HIDE DEF H
<1>2. ASSUME NEW n \in Nat PROVE P[n] = IF n = 0 THEN 1 ELSE Base * P[n - 1]
  <2>1. CASE n = 0
    BY <1>1, <2>1 DEF Powers
  <2>2. CASE n # 0
    <3>1. n - 1 \in Nat /\ n - 1 =< n
      BY <2>2
    <3>2. H(n - 1)[n - 1] = H(n)[n - 1]
      BY <1>1, <3>1, PowersAgree
    <3>3. H(n)[n] = Base * H(n)[n - 1]
      BY <1>1, <2>2 DEF Powers
    <3> QED BY <2>2, <3>1, <3>2, <3>3
  <2> QED BY <2>1, <2>2
<1>3. P = [n \in Nat |-> IF n = 0 THEN 1 ELSE Base * P[n - 1]]
  BY <1>2
<1> HIDE DEF P
<1> QED BY <1>3

LEMMA PowerStep ==
  /\ Power[0] = 1
  /\ \A n \in Nat : Power[n + 1] = Base * Power[n]
<1>1. Power = [n \in Nat |-> IF n = 0 THEN 1 ELSE Base * Power[n - 1]]
  BY PowerExists DEF Power
<1> QED BY <1>1

(* A power is not 0: it can be divided by.                                 *)
LEMMA PowerType == \A n \in Nat : Power[n] \in Nat \ {0}
<1> DEFINE S == {n \in Nat : Power[n] \in Nat \ {0}}
<1>1. 0 \in S
  BY PowerStep
<1>2. ASSUME NEW n \in Nat, n \in S PROVE n + 1 \in S
  <2>1. \A a, b \in Nat \ {0} : a * b \in Nat \ {0}
    OBVIOUS
  <2> QED BY <1>2, <2>1, PowerStep, TimeTextAssumption
<1> HIDE DEF S
<1>3. Nat \subseteq S
  BY <1>1, <1>2, SetInduction
<1> QED BY <1>3 DEF S
--------------------------------------------------------------------------------
(* Division: the quotient is the number that lies right, ...               *)
LEMMA DivIs ==
  ASSUME NEW a \in Nat, NEW d \in Nat \ {0}
  PROVE  /\ a \div d \in Nat
         /\ d * (a \div d) =< a /\ a < d * (a \div d) + d
         /\ \A q \in Int : d * q =< a /\ a < d * q + d => q = a \div d
<1> DEFINE p == a \div d
<1>1. p \in Nat /\ d * p =< a /\ a < d * p + d
  OBVIOUS
<1>2. ASSUME NEW q \in Int, d * q =< a, a < d * q + d PROVE q = p
  <2>1. CASE q < p
    <3>1. d * (q + 1) =< d * p
      BY <1>1, <2>1
    <3> QED BY <1>1, <1>2, <3>1
  <2>2. CASE p < q
    <3>1. d * (p + 1) =< d * q
      BY <1>1, <2>2
    <3> QED BY <1>1, <1>2, <3>1
  <2> QED BY <1>1, <2>1, <2>2
<1> QED BY <1>1, <1>2

(* ... it grows with what is divided, ...                                  *)
LEMMA DivMonotone ==
  ASSUME NEW a \in Nat, NEW b \in Nat, a =< b, NEW d \in Nat \ {0}
  PROVE  a \div d =< b \div d
<1> DEFINE p == a \div d
           q == b \div d
<1>1. p \in Nat /\ q \in Nat /\ d * p =< a /\ b < d * q + d
  BY DivIs
<1> HIDE DEF p, q
<1>2. CASE q < p
  <2>1. d * (q + 1) =< d * p
    BY <1>1, <1>2
  <2> QED BY <1>1, <2>1
<1> QED BY <1>1, <1>2 DEF p, q

(* ... and dividing twice is dividing by the product.                      *)
LEMMA DivDiv ==
  ASSUME NEW a \in Nat, NEW b \in Nat \ {0}, NEW c \in Nat \ {0}
  PROVE  /\ c * b \in Nat \ {0}
         /\ (a \div b) \div c = a \div (c * b)
<1> DEFINE q == a \div b
           r == q \div c
<1>0. c * b \in Nat \ {0}
  OBVIOUS
<1>1. q \in Nat /\ b * q =< a /\ a < b * q + b
  BY DivIs
<1>2. r \in Nat /\ c * r =< q /\ q < c * r + c
  BY <1>1, DivIs
<1> HIDE DEF q, r
<1>3. b * (c * r) =< b * q
  BY <1>1, <1>2
<1>4. b * (q + 1) =< b * (c * r + c)
  BY <1>1, <1>2
<1>5. (c * b) * r =< a /\ a < (c * b) * r + c * b
  BY <1>1, <1>2, <1>3, <1>4
<1>6. r = a \div (c * b)
  BY <1>0, <1>2, <1>5, DivIs
<1> QED BY <1>0, <1>6 DEF q, r
--------------------------------------------------------------------------------
(* The number that the seconds and the first k groups of t make.           *)
Upto(t, k) == t \div Power[Groups - k]

LEMMA UptoStep ==
  ASSUME NEW t \in Nat, NEW k \in 1 .. Groups
  PROVE  /\ Upto(t, k) \in Nat /\ Upto(t, k - 1) \in Nat
         /\ Group(t, k) \in 0 .. Base - 1
         /\ Upto(t, k) = Base * Upto(t, k - 1) + Group(t, k)
<1> USE TimeTextAssumption
<1> DEFINE unit == Power[Groups - k]
<1>1. Groups - k \in Nat /\ Groups - (k - 1) = Groups - k + 1
  OBVIOUS
<1>2. unit \in Nat \ {0} /\ Power[Groups - (k - 1)] = Base * unit
  BY <1>1, PowerStep, PowerType
<1>3. Upto(t, k) \in Nat
  BY <1>2, DivIs DEF Upto
<1>4. Upto(t, k - 1) = Upto(t, k) \div Base
  BY <1>2, DivDiv DEF Upto
<1>5. Group(t, k) = Upto(t, k) % Base
  BY DEF Group, Upto
<1> QED BY <1>3, <1>4, <1>5

(* Texts compare as times: the first group in which two times differ is    *)
(* the greater in the later one.                                           *)
LEMMA FirstDifference ==
  ASSUME NEW s \in Nat, NEW t \in Nat, s =< t, NEW k \in 1 .. Groups,
         s \div Second = t \div Second,
         \A j \in 1 .. k - 1 : Group(s, j) = Group(t, j)
  PROVE  Group(s, k) =< Group(t, k)
<1> USE TimeTextAssumption
<1> DEFINE S == {n \in Nat : n < k => Upto(s, n) = Upto(t, n)}
<1>1. 0 \in S
  BY DEF Upto, Second
<1>2. ASSUME NEW n \in Nat, n \in S PROVE n + 1 \in S
  <2>1. CASE n + 1 < k
    <3>1. n + 1 \in 1 .. Groups /\ n + 1 \in 1 .. k - 1 /\ n + 1 - 1 = n
      BY <2>1
    <3>2. Upto(s, n + 1) = Base * Upto(s, n) + Group(s, n + 1)
      BY <3>1, UptoStep
    <3>3. Upto(t, n + 1) = Base * Upto(t, n) + Group(t, n + 1)
      BY <3>1, UptoStep
    <3>4. Upto(s, n) = Upto(t, n)
      BY <1>2, <2>1
    <3> QED BY <3>1, <3>2, <3>3, <3>4
  <2> QED BY <2>1
<1> HIDE DEF S
<1>3. Nat \subseteq S
  BY <1>1, <1>2, SetInduction
<1>4. Upto(s, k - 1) = Upto(t, k - 1)
  <2>1. k - 1 \in Nat /\ k - 1 < k
    OBVIOUS
  <2> QED BY <1>3, <2>1 DEF S
<1>5. Upto(s, k) =< Upto(t, k)
  <2>1. Power[Groups - k] \in Nat \ {0}
    BY PowerType
  <2> QED BY <2>1, DivMonotone DEF Upto
<1>6. Upto(s, k) = Base * Upto(s, k - 1) + Group(s, k) /\ Group(s, k) \in 0 .. Base - 1
  BY UptoStep
<1>7. Upto(t, k) = Base * Upto(t, k - 1) + Group(t, k) /\ Group(t, k) \in 0 .. Base - 1
  BY UptoStep
<1>8. Upto(t, k - 1) \in Nat
  BY UptoStep
<1>9. Base * Upto(t, k - 1) \in Nat
  BY <1>8
<1> QED BY <1>4, <1>5, <1>6, <1>7, <1>9

(* Times whose timestamps are in order are so to the microsecond.          *)
LEMMA TimestampOrder ==
  ASSUME NEW s \in Nat, NEW t \in Nat, Timestamp(s) =< Timestamp(t)
  PROVE  s < t + Microsecond
<1> DEFINE m == Microsecond
<1>1. m \in Nat \ {0}
  BY PowerType, TimeTextAssumption DEF Microsecond
<1> SUFFICES ASSUME t + m =< s PROVE FALSE
  BY <1>1
<1> HIDE DEF m
<1> DEFINE d == 2 * m
           p == Timestamp(s)
           q == Timestamp(t)
<1>2. d \in Nat \ {0} /\ 2 * s + m \in Nat /\ 2 * t + m \in Nat
  BY <1>1
<1>3. p = (2 * s + m) \div d /\ q = (2 * t + m) \div d
  BY DEF Timestamp, m
<1> HIDE DEF d, p, q
<1>4. /\ p \in Nat /\ 2 * s + m < d * p + d
      /\ q \in Nat /\ d * q =< 2 * t + m
  BY <1>2, <1>3, DivIs
<1>5. d * p =< d * q
  BY <1>2, <1>4 DEF p, q
<1> QED BY <1>1, <1>2, <1>4, <1>5 DEF d
--------------------------------------------------------------------------------
(* What is where in two lists joined.                                      *)
LEMMA Joined ==
  ASSUME NEW p \in Seq(Int), NEW q \in Seq(Int)
  PROVE  /\ p \o q \in Seq(Int)
         /\ Len(p) \in Nat /\ Len(q) \in Nat /\ Len(p \o q) = Len(p) + Len(q)
         /\ DOMAIN (p \o q) = 1 .. Len(p) + Len(q)
         /\ \A i \in 1 .. Len(p) : (p \o q)[i] = p[i]
         /\ \A i \in 1 .. Len(q) : (p \o q)[i + Len(p)] = q[i]
OBVIOUS

(* What stands at the places of a text.                                    *)
LEMMA Places ==
  ASSUME NEW t \in Nat, NEW n \in 0 .. Groups, NEW zone \in Int
  PROVE  LET text == Written(t, n, zone) IN
         /\ DOMAIN text = 1 .. (IF n = 0 THEN 2 ELSE n + 3)
         /\ text[1] = t \div Second
         /\ n = 0 => text[2] = zone
         /\ n > 0 => text[2] = Period /\ text[n + 3] = zone
         /\ \A i \in 1 .. n : text[i + 2] = Group(t, i)
<1> USE TimeTextAssumption
<1> DEFINE seconds == t \div Second
           digits == [i \in 1 .. n |-> Group(t, i)]
<1>1. seconds \in Int
  BY PowerType, DivIs DEF Second
<1>2. digits \in Seq(Int) /\ Len(digits) = n
  <2>1. \A i \in 1 .. n : Group(t, i) \in Int
    BY UptoStep
  <2> QED BY <2>1
<1> DEFINE front == <<seconds>>
           point == IF n = 0 THEN <<>> ELSE <<Period>>
           back == <<zone>>
<1>3. /\ front \in Seq(Int) /\ Len(front) = 1 /\ front[1] = seconds
      /\ back \in Seq(Int) /\ Len(back) = 1 /\ back[1] = zone
  BY <1>1
<1>4. /\ point \in Seq(Int)
      /\ n = 0 => Len(point) = 0
      /\ n > 0 => Len(point) = 1 /\ point[1] = Period
  BY DEF Period
<1>5. Written(t, n, zone) = ((front \o point) \o digits) \o back
  BY DEF Written
<1>6. \A i \in 1 .. n : digits[i] = Group(t, i)
  OBVIOUS
<1> HIDE DEF seconds, digits, front, point, back
<1> DEFINE head == front \o point
           most == head \o digits
<1>7. /\ head \in Seq(Int) /\ Len(head) = 1 + Len(point) /\ head[1] = seconds
      /\ n > 0 => head[2] = Period
  <2>1. /\ head \in Seq(Int) /\ Len(head) = Len(front) + Len(point)
        /\ \A i \in 1 .. Len(front) : head[i] = front[i]
        /\ \A i \in 1 .. Len(point) : head[i + Len(front)] = point[i]
    BY <1>3, <1>4, Joined
  <2> HIDE DEF head
  <2>2. n > 0 => 1 \in 1 .. Len(point) /\ head[1 + Len(front)] = point[1]
    <3>1. n > 0 => 1 \in 1 .. Len(point)
      BY <1>4
    <3> QED BY <2>1, <3>1
  <2>3. 1 \in 1 .. Len(front) /\ 1 + Len(front) = 2 /\ Len(point) \in Nat
    BY <1>3, <1>4
  <2> QED BY <1>3, <1>4, <2>1, <2>2, <2>3
<1> HIDE DEF head
<1>8. /\ most \in Seq(Int) /\ Len(most) = Len(head) + n
      /\ \A i \in 1 .. Len(head) : most[i] = head[i]
      /\ \A i \in 1 .. n : most[i + Len(head)] = digits[i]
  BY <1>2, <1>7, Joined
<1> HIDE DEF most
<1> DEFINE text == most \o back
<1>9. /\ DOMAIN text = 1 .. Len(most) + 1
      /\ text[1 + Len(most)] = zone
      /\ \A i \in 1 .. Len(most) : text[i] = most[i]
  <2>1. /\ DOMAIN text = 1 .. Len(most) + Len(back)
        /\ \A i \in 1 .. Len(most) : text[i] = most[i]
        /\ \A i \in 1 .. Len(back) : text[i + Len(most)] = back[i]
    BY <1>3, <1>8, Joined
  <2> HIDE DEF text
  <2>2. 1 \in 1 .. Len(back)
    BY <1>3
  <2> QED BY <1>3, <2>1, <2>2
<1>10. Written(t, n, zone) = text
  BY <1>5 DEF head, most
<1> HIDE DEF text
<1> SUFFICES /\ DOMAIN text = 1 .. (IF n = 0 THEN 2 ELSE n + 3)
             /\ text[1] = seconds
             /\ n = 0 => text[2] = zone
             /\ n > 0 => text[2] = Period /\ text[n + 3] = zone
             /\ \A i \in 1 .. n : text[i + 2] = Group(t, i)
  BY <1>10 DEF seconds
<1>11. CASE n = 0
  <2>0. Len(point) = 0 /\ n \in Int
    BY <1>4, <1>11
  <2>1. Len(head) = 1 /\ Len(most) = 1 /\ 1 + Len(most) = 2
    BY <1>7, <1>8, <1>11, <2>0
  <2>2. text[1] = seconds
    <3>1. 1 \in 1 .. Len(most) /\ 1 \in 1 .. Len(head)
      BY <2>1
    <3> QED BY <1>7, <1>8, <1>9, <3>1
  <2>3. text[2] = zone /\ DOMAIN text = 1 .. 2
    BY <1>9, <2>1
  <2> QED BY <1>11, <2>2, <2>3
<1>12. CASE n > 0
  <2>0. Len(point) = 1 /\ n \in Int
    BY <1>4, <1>12
  <2>1. Len(head) = 2 /\ Len(most) = n + 2
    BY <1>7, <1>8, <2>0
  <2>2. most[1] = seconds /\ most[2] = Period
    BY <1>7, <1>8, <1>12, <2>1
  <2>3. ASSUME NEW i \in 1 .. n PROVE text[i + 2] = Group(t, i)
    <3>1. i + 2 \in 1 .. Len(most)
      BY <2>1
    <3> QED BY <1>6, <1>8, <1>9, <2>1, <3>1
  <2>4. 1 \in 1 .. Len(most) /\ 2 \in 1 .. Len(most)
    BY <2>1, <1>12
  <2> QED BY <1>9, <1>12, <2>1, <2>2, <2>3, <2>4
<1> QED BY <1>11, <1>12

(* The shortest text has no more groups than there are.                    *)
LEMMA ShortestFits == \A t \in Nat : Shortest(t) \in 0 .. Groups
<1> SUFFICES ASSUME NEW t \in Nat PROVE Shortest(t) \in 0 .. Groups
  OBVIOUS
<1>1. Groups \in Exact(t) /\ Exact(t) \in SUBSET Nat
  BY TimeTextAssumption DEF Exact
<1>2. \E n \in Exact(t) : \A m \in Exact(t) : n =< m
  BY <1>1, LeastOf
<1>3. Shortest(t) \in Exact(t)
  BY <1>2 DEF Shortest
<1> QED BY <1>3 DEF Exact

(* A text in Z, of whatever number of groups, stands at or after the text  *)
(* in +00:00, of whatever number of groups, of a time that is not later:   *)
(* they differ in the seconds, in a group, or where the shorter one ends,  *)
(* and Z stands after every digit and + before every digit and period.     *)
LEMMA TextsCompareAsTimes ==
  ASSUME NEW s \in Nat, NEW t \in Nat, s =< t,
         NEW n \in 0 .. Groups, NEW m \in 0 .. Groups
  PROVE  AtOrAfter(Written(t, n, Zulu), Written(s, m, Plus))
<1> USE TimeTextAssumption
<1> DEFINE a == Written(t, n, Zulu)
           b == Written(s, m, Plus)
<1>1. Zulu \in Int /\ Plus \in Int /\ Zulu > 0 /\ Plus = -2 /\ Period = -1
  BY DEF Zulu, Plus, Period
<1>2. /\ DOMAIN a = 1 .. (IF n = 0 THEN 2 ELSE n + 3)
      /\ a[1] = t \div Second
      /\ n = 0 => a[2] = Zulu
      /\ n > 0 => a[2] = Period /\ a[n + 3] = Zulu
      /\ \A i \in 1 .. n : a[i + 2] = Group(t, i)
  BY <1>1, Places
<1>3. /\ DOMAIN b = 1 .. (IF m = 0 THEN 2 ELSE m + 3)
      /\ b[1] = s \div Second
      /\ m = 0 => b[2] = Plus
      /\ m > 0 => b[2] = Period /\ b[m + 3] = Plus
      /\ \A i \in 1 .. m : b[i + 2] = Group(s, i)
  BY <1>1, Places
<1> SUFFICES AtOrAfter(a, b)
  OBVIOUS
<1> HIDE DEF a, b
<1>4. ASSUME NEW i \in DOMAIN a \cap DOMAIN b, a[i] > b[i], \A j \in 1 .. i - 1 : a[j] = b[j]
      PROVE  AtOrAfter(a, b)
  BY <1>4 DEF AtOrAfter
<1>5. a[1] >= b[1] /\ a[1] \in Nat /\ b[1] \in Nat
  <2>1. Second \in Nat \ {0}
    BY PowerType DEF Second
  <2> QED BY <1>2, <1>3, <2>1, DivMonotone, DivIs
<1>6. CASE a[1] # b[1]
  <2>1. 1 \in DOMAIN a \cap DOMAIN b /\ a[1] > b[1]
    BY <1>2, <1>3, <1>5, <1>6
  <2> QED BY <1>4, <2>1
<1>7. CASE a[1] = b[1] /\ (n = 0 \/ m = 0)
  <2>1. 2 \in DOMAIN a \cap DOMAIN b /\ a[2] > b[2] /\ \A j \in 1 .. 2 - 1 : a[j] = b[j]
    BY <1>1, <1>2, <1>3, <1>7
  <2> QED BY <1>4, <2>1
<1>8. CASE a[1] = b[1] /\ n > 0 /\ m > 0
  <2> DEFINE Same(i) == Group(s, i) = Group(t, i)
             D == {i \in 1 .. Groups : i =< n /\ i =< m /\ ~ Same(i)}
  <2>1. a[2] = b[2] /\ \A i \in 1 .. Groups : i =< n /\ i =< m /\ Same(i) => a[i + 2] = b[i + 2]
    BY <1>2, <1>3, <1>8
  <2>2. ASSUME NEW k \in 1 .. Groups + 1, k =< n + 1, k =< m + 1,
               \A i \in 1 .. k - 1 : Same(i)
        PROVE  \A j \in 1 .. k + 2 - 1 : a[j] = b[j]
    <3> SUFFICES ASSUME NEW j \in 1 .. k + 1, j > 2 PROVE a[j] = b[j]
      BY <1>8, <2>1
    <3>1. j - 2 \in 1 .. k - 1 /\ j - 2 \in 1 .. Groups /\ j - 2 =< n /\ j - 2 =< m
      BY <2>2
    <3>2. a[j - 2 + 2] = b[j - 2 + 2]
      BY <2>1, <2>2, <3>1
    <3> QED BY <3>2
  <2>3. CASE D # {}
    <3>1. PICK k \in D : \A i \in D : k =< i
      <4>1. D \in SUBSET Nat
        OBVIOUS
      <4> HIDE DEF D
      <4> QED BY <2>3, <4>1, LeastOf
    <3>2. k \in 1 .. Groups /\ k =< n /\ k =< m /\ ~ Same(k)
      BY <3>1
    <3>3. \A i \in 1 .. k - 1 : Same(i)
      <4> SUFFICES ASSUME NEW i \in 1 .. k - 1, ~ Same(i) PROVE FALSE
        OBVIOUS
      <4>1. i \in D
        BY <3>2
      <4> QED BY <3>1, <4>1
    <3>4. Group(s, k) =< Group(t, k)
      BY <1>2, <1>3, <1>8, <3>2, <3>3, FirstDifference
    <3>5. Group(s, k) \in Int /\ Group(t, k) \in Int
      BY <3>2, UptoStep
    <3>6. k + 2 \in DOMAIN a \cap DOMAIN b /\ a[k + 2] > b[k + 2]
      BY <1>2, <1>3, <3>2, <3>4, <3>5
    <3> QED BY <1>4, <2>2, <3>2, <3>3, <3>6
  <2>4. CASE D = {}
    <3>1. \A i \in 1 .. Groups : i =< n /\ i =< m => Same(i)
      BY <2>4
    <3>2. ASSUME NEW k \in {n, m}, k =< n, k =< m, k + 3 \in DOMAIN a \cap DOMAIN b,
                 a[k + 3] > b[k + 3]
          PROVE  AtOrAfter(a, b)
      <4>1. \A j \in 1 .. k + 1 + 2 - 1 : a[j] = b[j]
        BY <2>2, <3>1, <3>2
      <4> QED BY <1>4, <3>2, <4>1
    <3>3. CASE n < m
      <4>1. Group(s, n + 1) \in 0 .. Base - 1 /\ b[n + 1 + 2] = Group(s, n + 1)
        <5>1. n + 1 \in 1 .. Groups /\ n + 1 \in 1 .. m
          BY <3>3
        <5> QED BY <1>3, <5>1, UptoStep
      <4>2. a[n + 3] > b[n + 3]
        BY <1>2, <1>8, <4>1 DEF Zulu
      <4> QED BY <1>2, <1>3, <1>8, <3>2, <3>3, <4>2
    <3>4. CASE m < n
      <4>1. Group(t, m + 1) \in 0 .. Base - 1 /\ a[m + 1 + 2] = Group(t, m + 1)
        <5>1. m + 1 \in 1 .. Groups /\ m + 1 \in 1 .. n
          BY <3>4
        <5> QED BY <1>2, <5>1, UptoStep
      <4>2. a[m + 3] > b[m + 3]
        BY <1>3, <1>8, <4>1 DEF Plus
      <4> QED BY <1>2, <1>3, <1>8, <3>2, <3>4, <4>2
    <3>5. CASE n = m
      BY <1>1, <1>2, <1>3, <1>8, <3>2, <3>5
    <3> QED BY <3>3, <3>4, <3>5
  <2> QED BY <2>3, <2>4
<1> QED BY <1>6, <1>7, <1>8

(* The text that a row holds stands at or after the text that is asked for *)
(* when its time does (`context->>'time' >= $3`, pg.rs).                   *)
LEMMA RowStandsAtOrAfter ==
  ASSUME NEW s \in Nat, NEW t \in Nat, s =< t, NEW text \in RowTexts(t)
  PROVE  AtOrAfter(text, Since(s))
<1>1. PICK n \in 0 .. Groups : text = Written(t, n, Zulu)
  BY ShortestFits DEF RowTexts, Exact
<1> QED BY <1>1, ShortestFits, TextsCompareAsTimes DEF Since

(* A text stands at or after another only if its seconds do.               *)
LEMMA SecondsCompareAsTexts ==
  ASSUME NEW s \in Nat, NEW t \in Nat, NEW text \in RowTexts(t),
         AtOrAfter(text, Since(s))
  PROVE  s \div Second =< t \div Second
<1>1. PICK n \in 0 .. Groups : text = Written(t, n, Zulu)
  BY ShortestFits DEF RowTexts, Exact
<1>2. Zulu \in Int /\ Plus \in Int
  BY TimeTextAssumption DEF Zulu, Plus
<1>3. text[1] = t \div Second /\ DOMAIN text \subseteq Nat \ {0}
  BY <1>1, <1>2, Places
<1>4. Since(s)[1] = s \div Second
  BY <1>2, ShortestFits, Places DEF Since
<1>5. s \div Second \in Nat /\ t \div Second \in Nat
  BY PowerType, DivIs, TimeTextAssumption DEF Second
<1>6. ASSUME NEW i \in DOMAIN text, text[i] > Since(s)[i],
             \A j \in 1 .. i - 1 : text[j] = Since(s)[j]
      PROVE  text[1] >= Since(s)[1]
  <2>1. i = 1 \/ 1 \in 1 .. i - 1
    BY <1>3
  <2> QED BY <1>3, <1>4, <1>5, <1>6, <2>1
<1> QED BY <1>3, <1>4, <1>5, <1>6 DEF AtOrAfter
================================================================================
