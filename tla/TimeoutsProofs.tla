--------------------------- MODULE TimeoutsProofs ---------------------------
(***************************************************************************)
(* Theorems about Timeouts, for any table of cyclic timers, any intervals, *)
(* any tick and any lateness of the lwIP thread.                           *)
(*                                                                         *)
(* The times in the list are relative, so everything rests on what is due  *)
(* when: the sums of the list's times.  That sys_timeout, in each of its   *)
(* three ways, leaves or postpones the sums of the others is shown by      *)
(* induction over the list, from the fact that a set of naturals has a     *)
(* least element.                                                          *)
(***************************************************************************)
EXTENDS Timeouts, FiniteSetTheorems, SequenceTheorems, WellFoundedInduction, TLAPS

Entries == [h : Timers, time : Nat]

-----------------------------------------------------------------------------
(* Induction.                                                              *)

(* A set of naturals that is not empty has a least element.                *)
LEMMA LeastNat ==
    ASSUME NEW T \in SUBSET Nat, T # {}
    PROVE  \E x \in T : \A y \in T : x <= y
<1>1. PICK R : R = OpToRel(<, Nat)
  OBVIOUS
<1>2. IsWellFoundedOn(R, Nat)
  BY <1>1, NatLessThanWellFounded
<1>3. PICK x \in T : \A y \in T : ~(<<y, x>> \in R)
  BY <1>2, WFMin
<1>4. \A a, b \in Nat : a < b => <<a, b>> \in R
  BY <1>1 DEF OpToRel
<1>5. \A y \in T : ~(y < x)
  BY <1>3, <1>4
<1> QED
  BY <1>5

(* What holds of 0 and is passed on holds up to n; a property is given as  *)
(* the set of the numbers that have it.                                    *)
LEMMA UpTo ==
    ASSUME NEW n \in Nat, NEW S, 0 \in S,
           \A i \in 0..n : i < n /\ i \in S => i + 1 \in S
    PROVE  \A i \in 0..n : i \in S
<1>1. PICK T : T = {i \in 0..n : i \notin S}
  OBVIOUS
<1>1a. T \in SUBSET Nat
  BY <1>1
<1>2. SUFFICES ASSUME T # {} PROVE FALSE
  BY <1>1
<1>3. PICK x \in T : \A y \in T : x <= y
  BY <1>1a, <1>2, LeastNat
<1>4. x \in 0..n /\ x \notin S /\ x # 0
  BY <1>1
<1>5. x - 1 \in 0..n /\ x - 1 < n /\ x - 1 + 1 = x /\ ~(x <= x - 1)
  BY <1>4
<1>6. x - 1 \notin T
  BY <1>3, <1>5
<1>7. x - 1 \in S
  BY <1>1, <1>5, <1>6
<1> QED
  BY <1>4, <1>5, <1>7

-----------------------------------------------------------------------------
(* The sums of a list.                                                     *)
IsDue(f, l) ==
    /\ f \in [0..Len(l) -> Nat] /\ f[0] = 0
    /\ \A i \in 1..Len(l) : f[i] = f[i - 1] + l[i].time

(* An element of a list.                                                   *)
LEMMA EntryOf ==
    ASSUME NEW l \in Seq(Entries), NEW i \in 1..Len(l)
    PROVE  l[i] \in Entries /\ l[i].h \in Timers /\ l[i].time \in Nat
<1>1. l[i] \in Entries
  OBVIOUS
<1> QED
  BY <1>1 DEF Entries

(* Every list has sums ...                                                 *)
LEMMA DueExists ==
    ASSUME NEW l \in Seq(Entries)
    PROVE  \E f : IsDue(f, l)
<1> DEFINE Sums(f, k) == /\ f \in [0..k -> Nat] /\ f[0] = 0
                         /\ \A i \in 1..k : f[i] = f[i - 1] + l[i].time
<1>1. PICK n \in Nat : n = Len(l)
  OBVIOUS
<1>2. \A i \in 1..n : l[i].time \in Nat
  BY <1>1, EntryOf
<1>3. PICK S : S = {k \in 0..n : \E f : Sums(f, k)}
  OBVIOUS
<1>4. 0 \in S
  <2>1. Sums([i \in 0..0 |-> 0], 0)
    OBVIOUS
  <2> HIDE DEF Sums
  <2>1a. \E f : Sums(f, 0)
    BY <2>1
  <2> QED
    BY <1>3, <2>1a
<1>5. ASSUME NEW k \in 0..n, k < n, k \in S PROVE k + 1 \in S
  <2>1. PICK f : Sums(f, k)
    BY <1>3, <1>5
  <2>2. PICK g : g = [i \in 0..(k + 1) |-> IF i = k + 1 THEN f[k] + l[k + 1].time ELSE f[i]]
    OBVIOUS
  <2>3. l[k + 1].time \in Nat /\ k \in Nat /\ k + 1 \in 0..n
    BY <1>2, <1>5
  <2>4. g \in [0..(k + 1) -> Nat] /\ g[0] = 0
    BY <2>1, <2>2, <2>3
  <2>5. \A i \in 1..(k + 1) : g[i] = g[i - 1] + l[i].time
    BY <2>1, <2>2, <2>3
  <2>6. Sums(g, k + 1)
    BY <2>4, <2>5
  <2> HIDE DEF Sums
  <2> QED
    BY <1>3, <2>3, <2>6
<1>6. n \in S
  <2>1. \A i \in 0..n : i \in S
    BY <1>4, <1>5, UpTo
  <2> QED
    BY <2>1
<1>7. PICK f : Sums(f, n)
  BY <1>3, <1>6
<1> QED
  BY <1>1, <1>7 DEF IsDue

(* ... and only one.                                                       *)
LEMMA DueUnique ==
    ASSUME NEW l \in Seq(Entries), NEW f, NEW g, IsDue(f, l), IsDue(g, l)
    PROVE  f = g
<1>1. PICK n \in Nat : n = Len(l)
  OBVIOUS
<1>2. PICK S : S = {i \in 0..n : f[i] = g[i]}
  OBVIOUS
<1>3. 0 \in S
  BY <1>2 DEF IsDue
<1>4. ASSUME NEW i \in 0..n, i < n, i \in S PROVE i + 1 \in S
  <2>1. i + 1 \in 1..n /\ i + 1 - 1 = i
    BY <1>4
  <2>2. f[i + 1] = f[i] + l[i + 1].time /\ g[i + 1] = g[i] + l[i + 1].time
    BY <1>1, <2>1 DEF IsDue
  <2> QED
    BY <1>2, <1>4, <2>1, <2>2
<1>5. \A i \in 0..n : f[i] = g[i]
  <2>1. \A i \in 0..n : i \in S
    BY <1>3, <1>4, UpTo
  <2> QED
    BY <1>2, <2>1
<1> QED
  BY <1>1, <1>5 DEF IsDue

(* The recursive definition gives them.                                    *)
LEMMA DueIsSum ==
    ASSUME NEW l \in Seq(Entries)
    PROVE  IsDue(DueTimes(l), l)
<1>1. PICK f : IsDue(f, l)
  BY DueExists
<1>2. PICK n \in Nat : n = Len(l)
  OBVIOUS
<1>3. f = [i \in 0..Len(l) |-> IF i = 0 THEN 0 ELSE f[i - 1] + l[i].time]
  BY <1>1, <1>2 DEF IsDue
<1>4. DueTimes(l) = [i \in 0..Len(l) |-> IF i = 0 THEN 0 ELSE DueTimes(l)[i - 1] + l[i].time]
  BY <1>3, Zenon DEF DueTimes
<1>5. PICK g : g = DueTimes(l)
  OBVIOUS
<1>6. g = [i \in 0..n |-> IF i = 0 THEN 0 ELSE g[i - 1] + l[i].time]
  BY <1>2, <1>4, <1>5
<1>7. g[0] = 0 /\ \A i \in 1..n : g[i] = g[i - 1] + l[i].time
  <2>1. \A i \in 0..n : g[i] = IF i = 0 THEN 0 ELSE g[i - 1] + l[i].time
    BY <1>6, Zenon
  <2>2. 0 \in 0..n /\ \A i \in 1..n : i \in 0..n /\ i # 0
    OBVIOUS
  <2> QED
    BY <2>1, <2>2, Zenon
<1>8. \A i \in 0..n : g[i] \in Nat
  <2>1. PICK S : S = {i \in 0..n : g[i] \in Nat}
    OBVIOUS
  <2>2. 0 \in S
    BY <1>7, <2>1
  <2>3. ASSUME NEW i \in 0..n, i < n, i \in S PROVE i + 1 \in S
    <3>1. i + 1 \in 1..n /\ i + 1 - 1 = i
      BY <2>3
    <3>2. l[i + 1].time \in Nat
      BY <1>2, <3>1, EntryOf
    <3>3. g[i + 1] = g[i] + l[i + 1].time
      BY <1>7, <3>1
    <3> QED
      BY <2>1, <2>3, <3>1, <3>2, <3>3
  <2>4. \A i \in 0..n : i \in S
    BY <2>2, <2>3, UpTo
  <2> QED
    BY <2>1, <2>4
<1>9. g \in [0..n -> Nat]
  BY <1>6, <1>8
<1> QED
  BY <1>2, <1>5, <1>7, <1>9 DEF IsDue

(* So any sums of a list are when its timeouts are due.                    *)
LEMMA DueEquals ==
    ASSUME NEW l \in Seq(Entries), NEW f, IsDue(f, l)
    PROVE  \A i \in 0..Len(l) : Due(l, i) = f[i]
<1>1. f = DueTimes(l)
  BY DueIsSum, DueUnique
<1> QED
  BY <1>1 DEF Due

(* What is due when, step by step.                                         *)
LEMMA DueFacts ==
    ASSUME NEW l \in Seq(Entries)
    PROVE  /\ Due(l, 0) = 0
           /\ \A i \in 0..Len(l) : Due(l, i) \in Nat
           /\ \A i \in 1..Len(l) : Due(l, i) = Due(l, i - 1) + l[i].time
  BY DueIsSum DEF IsDue, Due

-----------------------------------------------------------------------------
(* Where sys_timeout links the new timeout.                                *)

(* Two sequences put together.                                             *)
LEMMA Joined ==
    ASSUME NEW A, NEW s \in Seq(A), NEW t \in Seq(A)
    PROVE  /\ s \o t \in Seq(A) /\ Len(s \o t) = Len(s) + Len(t)
           /\ \A i \in 1..Len(s) : (s \o t)[i] = s[i]
           /\ \A i \in 1..Len(t) : (s \o t)[Len(s) + i] = t[i]
<1>1. /\ s \o t \in Seq(A) /\ Len(s \o t) = Len(s) + Len(t)
      /\ \A i \in 1..(Len(s) + Len(t)) :
            (s \o t)[i] = IF i <= Len(s) THEN s[i] ELSE t[i - Len(s)]
  BY ConcatProperties
<1>2. PICK k \in Nat, n \in Nat : k = Len(s) /\ n = Len(t)
  OBVIOUS
<1>3. \A i \in 1..(k + n) : (s \o t)[i] = IF i <= k THEN s[i] ELSE t[i - k]
  BY <1>1, <1>2, Zenon
<1>4. \A i \in 1..n : k + i \in 1..(k + n) /\ ~(k + i <= k) /\ (k + i) - k = i
  OBVIOUS
<1>4a. \A i \in 1..k : i \in 1..(k + n) /\ i <= k
  OBVIOUS
<1>5. \A i \in 1..k : (s \o t)[i] = s[i]
  BY <1>3, <1>4a
<1>6. \A i \in 1..n : (s \o t)[k + i] = t[i]
  BY <1>3, <1>4
<1> QED
  BY <1>1, <1>2, <1>5, <1>6, Zenon

(* A timeout that is linked before the one at pos + 1, and the time taken  *)
(* off that one.                                                           *)
Linked(l, m, pos, new, off) ==
    /\ m \in Seq(Entries) /\ Len(m) = Len(l) + 1
    /\ \A i \in 1..pos : m[i] = l[i]
    /\ m[pos + 1] = new
    /\ m[pos + 2].h = l[pos + 1].h
    /\ m[pos + 2].time = l[pos + 1].time - off
    /\ \A i \in (pos + 2)..Len(l) : m[i + 1] = l[i]

(* That is what Link does.                                                 *)
LEMMA LinkElements ==
    ASSUME NEW l \in Seq(Entries), NEW n \in Nat, Len(l) = n, NEW pos \in Nat, pos < n,
           NEW new \in Entries, NEW off \in Nat, off <= l[pos + 1].time
    PROVE  Linked(l, Link(l, pos, new, off), pos, new, off)
<1>1. PICK next : next = Entry(l[pos + 1].h, l[pos + 1].time - off)
  OBVIOUS
<1>2. next \in Entries /\ next.h = l[pos + 1].h /\ next.time = l[pos + 1].time - off
  <2>1. l[pos + 1].h \in Timers /\ l[pos + 1].time \in Nat
    <3>1. pos + 1 \in 1..Len(l)
      OBVIOUS
    <3> QED
      BY <3>1, EntryOf
  <2>2. l[pos + 1].time - off \in Nat
    BY <2>1
  <2> QED
    BY <1>1, <2>1, <2>2 DEF Entry, Entries
<1>3. PICK a \in Seq(Entries) : a = SubSeq(l, 1, pos) /\ Len(a) = pos /\ \A i \in 1..pos : a[i] = l[i]
  <2>1. PICK a : a = SubSeq(l, 1, pos)
    OBVIOUS
  <2>2. a \in Seq(Entries) /\ Len(a) = pos /\ \A i \in 1..pos : a[i] = l[i]
    BY <2>1
  <2> QED
    BY <2>1, <2>2
<1>4. PICK k \in Nat : k + pos + 1 = n
  <2>1. n - pos - 1 \in Nat /\ (n - pos - 1) + pos + 1 = n
    OBVIOUS
  <2> QED
    BY <2>1
<1>5. PICK c \in Seq(Entries) : /\ c = SubSeq(l, pos + 2, n) /\ Len(c) = k
                                /\ \A i \in 1..k : c[i] = l[pos + 1 + i]
  <2>1. PICK c : c = SubSeq(l, pos + 2, n)
    OBVIOUS
  <2>2. c \in Seq(Entries)
    BY <1>4, <2>1
  <2>3. Len(c) = k
    BY <1>4, <2>1
  <2>4. \A i \in 1..k : c[i] = l[pos + 1 + i]
    BY <1>4, <2>1
  <2> QED
    BY <2>1, <2>2, <2>3, <2>4
<1>6. PICK b \in Seq(Entries) : b = <<new, next>> /\ Len(b) = 2 /\ b[1] = new /\ b[2] = next
  <2>1. PICK b : b = <<new, next>>
    OBVIOUS
  <2>2. b \in Seq(Entries) /\ Len(b) = 2 /\ b[1] = new /\ b[2] = next
    BY <1>2, <2>1
  <2> QED
    BY <2>1, <2>2
<1>7. PICK ab \in Seq(Entries) : /\ ab = a \o b /\ Len(ab) = pos + 2
                                 /\ \A i \in 1..pos : ab[i] = a[i]
                                 /\ \A i \in 1..2 : ab[pos + i] = b[i]
  <2>1. Len(a) = pos /\ Len(b) = 2 /\ 2 \in Nat
    BY <1>3, <1>6
  <2>2. /\ a \o b \in Seq(Entries) /\ Len(a \o b) = pos + 2
        /\ \A i \in 1..pos : (a \o b)[i] = a[i]
        /\ \A i \in 1..2 : (a \o b)[pos + i] = b[i]
    <3>1. /\ a \o b \in Seq(Entries) /\ Len(a \o b) = Len(a) + Len(b)
          /\ \A i \in 1..Len(a) : (a \o b)[i] = a[i]
          /\ \A i \in 1..Len(b) : (a \o b)[Len(a) + i] = b[i]
      BY Joined
    <3> QED
      BY <2>1, <3>1, Zenon
  <2> QED
    BY <2>2
<1>8. PICK m \in Seq(Entries) : /\ m = ab \o c /\ Len(m) = (pos + 2) + k
                                /\ \A i \in 1..(pos + 2) : m[i] = ab[i]
                                /\ \A i \in 1..k : m[(pos + 2) + i] = c[i]
  <2>1. pos + 2 \in Nat /\ Len(ab) = pos + 2 /\ Len(c) = k
    BY <1>5, <1>7
  <2>2. /\ ab \o c \in Seq(Entries) /\ Len(ab \o c) = (pos + 2) + k
        /\ \A i \in 1..(pos + 2) : (ab \o c)[i] = ab[i]
        /\ \A i \in 1..k : (ab \o c)[(pos + 2) + i] = c[i]
    <3>1. /\ ab \o c \in Seq(Entries) /\ Len(ab \o c) = Len(ab) + Len(c)
          /\ \A i \in 1..Len(ab) : (ab \o c)[i] = ab[i]
          /\ \A i \in 1..Len(c) : (ab \o c)[Len(ab) + i] = c[i]
      BY Joined
    <3> QED
      BY <2>1, <3>1, Zenon
  <2> QED
    BY <2>2
<1>9. m = Link(l, pos, new, off)
  BY <1>1, <1>3, <1>5, <1>6, <1>7, <1>8 DEF Link
<1>10. Len(m) = n + 1
  BY <1>4, <1>8
<1>11. \A i \in 1..pos : m[i] = l[i]
  BY <1>3, <1>7, <1>8
<1>12. m[pos + 1] = new /\ m[pos + 2] = next
  BY <1>6, <1>7, <1>8
<1>13. \A i \in (pos + 2)..n : m[i + 1] = l[i]
  <2> SUFFICES ASSUME NEW i \in (pos + 2)..n PROVE m[i + 1] = l[i]
    OBVIOUS
  <2>1. PICK j \in 1..k : i = pos + 1 + j
    <3>1. i - pos - 1 \in 1..k /\ i = pos + 1 + (i - pos - 1)
      BY <1>4
    <3> QED
      BY <3>1
  <2>2. i + 1 = (pos + 2) + j
    BY <2>1
  <2>3. m[(pos + 2) + j] = c[j]
    BY <1>8, <2>1, Zenon
  <2>4. c[j] = l[pos + 1 + j]
    BY <1>5, <2>1
  <2> QED
    BY <2>1, <2>2, <2>3, <2>4, Zenon
<1> QED
  BY <1>2, <1>8, <1>9, <1>10, <1>11, <1>12, <1>13 DEF Linked

(* When the timeouts of that list are due: those before it as before, it   *)
(* its time after them, and those behind it moved by the difference of     *)
(* what it adds and what is taken off.                                     *)
LEMMA LinkDue ==
    ASSUME NEW l \in Seq(Entries), NEW n \in Nat, Len(l) = n, NEW pos \in Nat, pos < n,
           NEW new \in Entries, NEW off \in Nat, off <= l[pos + 1].time, off <= new.time
    PROVE  /\ \A i \in 1..pos : Due(Link(l, pos, new, off), i) = Due(l, i)
           /\ Due(Link(l, pos, new, off), pos + 1) = Due(l, pos) + new.time
           /\ \A i \in (pos + 1)..n :
                 Due(Link(l, pos, new, off), i + 1) = Due(l, i) + (new.time - off)
<1>1. PICK m \in Seq(Entries) :
        /\ m = Link(l, pos, new, off) /\ Len(m) = n + 1
        /\ \A i \in 1..pos : m[i] = l[i]
        /\ m[pos + 1] = new
        /\ m[pos + 2].time = l[pos + 1].time - off
        /\ \A i \in (pos + 2)..n : m[i + 1] = l[i]
  <2>1. Linked(l, Link(l, pos, new, off), pos, new, off)
    BY LinkElements
  <2>2. PICK m : m = Link(l, pos, new, off)
    OBVIOUS
  <2>3. Linked(l, m, pos, new, off)
    BY <2>1, <2>2
  <2> QED
    BY <2>2, <2>3 DEF Linked
<1>2. PICK D : IsDue(D, l) /\ \A i \in 0..n : Due(l, i) = D[i]
  BY DueIsSum DEF Due
<1>3. /\ D[0] = 0 /\ \A i \in 0..n : D[i] \in Nat
      /\ \A i \in 1..n : D[i] = D[i - 1] + l[i].time
  BY <1>2 DEF IsDue
<1>4. PICK time \in Nat : time = new.time /\ time - off \in Nat
  BY DEF Entries
<1>5. PICK f : f = [i \in 0..(n + 1) |-> IF i <= pos THEN D[i]
                                        ELSE IF i = pos + 1 THEN D[pos] + time
                                        ELSE D[i - 1] + (time - off)]
  OBVIOUS
<1>6. /\ \A i \in 0..pos : f[i] = D[i]
      /\ f[pos + 1] = D[pos] + time
      /\ \A i \in (pos + 1)..n : f[i + 1] = D[i] + (time - off)
  <2>1. /\ \A i \in 0..pos : i \in 0..(n + 1) /\ i <= pos
        /\ pos + 1 \in 0..(n + 1) /\ ~(pos + 1 <= pos)
    OBVIOUS
  <2>2. \A i \in (pos + 1)..n : i + 1 \in 0..(n + 1) /\ ~(i + 1 <= pos) /\ i + 1 # pos + 1
    OBVIOUS
  <2> QED
    BY <1>5, <2>1, <2>2
<1>7. f \in [0..(n + 1) -> Nat]
  <2>1. \A i \in 0..(n + 1) : f[i] \in Nat
    <3> SUFFICES ASSUME NEW i \in 0..(n + 1) PROVE f[i] \in Nat
      OBVIOUS
    <3>1. CASE i <= pos
      <4>1. i \in 0..pos /\ i \in 0..n
        BY <3>1
      <4> QED
        BY <1>3, <1>6, <4>1
    <3>2. CASE i = pos + 1
      BY <1>3, <1>6, <3>2
    <3>3. CASE i > pos + 1
      <4>1. i - 1 \in (pos + 1)..n /\ i - 1 + 1 = i /\ i - 1 \in 0..n
        BY <3>3
      <4>2. f[i] = D[i - 1] + (time - off)
        BY <1>6, <4>1
      <4> QED
        <5>1. D[i - 1] \in Nat /\ time - off \in Nat
          BY <1>3, <1>4, <4>1
        <5> QED
          BY <4>2, <5>1
    <3> QED
      BY <3>1, <3>2, <3>3
  <2> QED
    BY <1>5, <2>1
<1>8. \A i \in 1..(n + 1) : f[i] = f[i - 1] + m[i].time
  <2> SUFFICES ASSUME NEW i \in 1..(n + 1) PROVE f[i] = f[i - 1] + m[i].time
    OBVIOUS
  <2>1. CASE i <= pos
    <3>1. i \in 1..pos /\ i \in 0..pos /\ i - 1 \in 0..pos /\ i \in 1..n
      BY <2>1
    <3> QED
      BY <1>1, <1>3, <1>6, <3>1
  <2>2. CASE i = pos + 1
    <3>1. i - 1 = pos /\ pos \in 0..pos
      BY <2>2
    <3> QED
      BY <1>1, <1>4, <1>6, <2>2, <3>1
  <2>3. CASE i = pos + 2
    <3>1. pos + 1 \in (pos + 1)..n /\ pos + 1 + 1 = pos + 2 /\ i - 1 = pos + 1 /\ pos + 1 \in 1..n
          /\ pos + 1 - 1 = pos /\ pos \in 0..n
      BY <2>3
    <3>2. f[pos + 2] = D[pos + 1] + (time - off)
      BY <1>6, <3>1
    <3>3. D[pos + 1] = D[pos] + l[pos + 1].time
      BY <1>3, <3>1
    <3>4. D[pos] \in Nat /\ l[pos + 1].time \in Nat
      <4>1. pos + 1 \in 1..Len(l)
        BY <3>1
      <4> QED
        BY <1>3, <3>1, <4>1, EntryOf
    <3>5. f[i - 1] = D[pos] + time /\ m[i].time = l[pos + 1].time - off
      BY <1>1, <1>6, <2>3, <3>1
    <3> QED
      BY <2>3, <3>2, <3>3, <3>4, <3>5, SMTT(30)
  <2>4. CASE i > pos + 2
    <3>1. PICK j \in (pos + 2)..n : i = j + 1
      <4>1. i - 1 \in (pos + 2)..n /\ i = (i - 1) + 1
        BY <2>4
      <4> QED
        BY <4>1
    <3>2. /\ j \in (pos + 1)..n /\ j - 1 \in (pos + 1)..n /\ j - 1 + 1 = j /\ i - 1 = j
          /\ j \in 1..n /\ j - 1 \in 0..n
      BY <3>1
    <3>3. f[i] = D[j] + (time - off) /\ f[i - 1] = D[j - 1] + (time - off)
      BY <1>6, <3>1, <3>2
    <3>4. D[j] = D[j - 1] + l[j].time /\ m[i] = l[j]
      BY <1>1, <1>3, <3>1, <3>2
    <3>5. D[j - 1] \in Nat /\ l[j].time \in Nat
      <4>1. j \in 1..Len(l)
        BY <3>2
      <4> QED
        BY <1>3, <3>2, <4>1, EntryOf
    <3> QED
      BY <3>3, <3>4, <3>5, SMTT(30)
  <2> QED
    BY <2>1, <2>2, <2>3, <2>4
<1>9. IsDue(f, m)
  <2>1. f[0] = 0
    BY <1>3, <1>6
  <2> QED
    BY <1>1, <1>7, <1>8, <2>1 DEF IsDue
<1>10. \A i \in 0..(n + 1) : Due(m, i) = f[i]
  BY <1>1, <1>9, DueEquals
<1>11. \A i \in 1..pos : Due(m, i) = Due(l, i)
  <2>1. \A i \in 1..pos : i \in 0..pos /\ i \in 0..n /\ i \in 0..(n + 1)
    OBVIOUS
  <2> QED
    BY <1>2, <1>6, <1>10, <2>1
<1>12. Due(m, pos + 1) = Due(l, pos) + new.time
  BY <1>2, <1>4, <1>6, <1>10
<1>13. \A i \in (pos + 1)..n : Due(m, i + 1) = Due(l, i) + (new.time - off)
  <2>1. \A i \in (pos + 1)..n : i + 1 \in 0..(n + 1) /\ i \in 0..n
    OBVIOUS
  <2> QED
    BY <1>2, <1>4, <1>6, <1>10, <2>1
<1> QED
  BY <1>1, <1>11, <1>12, <1>13

(* A timeout that is appended.                                             *)
LEMMA AppendDue ==
    ASSUME NEW l \in Seq(Entries), NEW n \in Nat, Len(l) = n, NEW new \in Entries
    PROVE  /\ Append(l, new) \in Seq(Entries) /\ Len(Append(l, new)) = n + 1
           /\ \A i \in 1..n : Append(l, new)[i] = l[i] /\ Due(Append(l, new), i) = Due(l, i)
           /\ Append(l, new)[n + 1] = new
           /\ Due(Append(l, new), n + 1) = Due(l, n) + new.time
<1>1. PICK m : m = Append(l, new)
  OBVIOUS
<1>2. /\ m \in Seq(Entries) /\ Len(m) = n + 1
      /\ \A i \in 1..n : m[i] = l[i]
      /\ m[n + 1] = new
  BY <1>1
<1>3. PICK D : IsDue(D, l) /\ \A i \in 0..n : Due(l, i) = D[i]
  BY DueIsSum DEF Due
<1>4. /\ D[0] = 0 /\ \A i \in 0..n : D[i] \in Nat
      /\ \A i \in 1..n : D[i] = D[i - 1] + l[i].time
  BY <1>3 DEF IsDue
<1>5. new.time \in Nat
  BY DEF Entries
<1>6. PICK f : f = [i \in 0..(n + 1) |-> IF i <= n THEN D[i] ELSE D[n] + new.time]
  OBVIOUS
<1>7. f \in [0..(n + 1) -> Nat] /\ f[0] = 0 /\ f[n + 1] = D[n] + new.time /\ \A i \in 0..n : f[i] = D[i]
  BY <1>4, <1>5, <1>6
<1>8. \A i \in 1..(n + 1) : f[i] = f[i - 1] + m[i].time
  <2> SUFFICES ASSUME NEW i \in 1..(n + 1) PROVE f[i] = f[i - 1] + m[i].time
    OBVIOUS
  <2>1. CASE i = n + 1
    BY <1>2, <1>7, <2>1
  <2>2. CASE i # n + 1
    <3>1. i \in 1..n /\ i \in 0..n /\ i - 1 \in 0..n
      BY <2>2
    <3> QED
      BY <1>2, <1>4, <1>7, <3>1
  <2> QED
    BY <2>1, <2>2
<1>9. IsDue(f, m)
  BY <1>2, <1>7, <1>8 DEF IsDue
<1>10. \A i \in 0..(n + 1) : Due(m, i) = f[i]
  BY <1>2, <1>9, DueEquals
<1>11. Due(m, n + 1) = Due(l, n) + new.time /\ \A i \in 1..n : Due(m, i) = Due(l, i)
  BY <1>3, <1>7, <1>10
<1> QED
  BY <1>1, <1>2, <1>11

(* Nothing is due before the first timeout.                                *)
LEMMA FirstIsFirst ==
    ASSUME NEW l \in Seq(Entries), NEW i \in 1..Len(l)
    PROVE  l[1].time <= Due(l, i) /\ Due(l, 1) = l[1].time
<1>1. PICK n \in Nat : n = Len(l) /\ 1 \in 1..n
  OBVIOUS
<1>2. PICK D : IsDue(D, l) /\ \A j \in 0..n : Due(l, j) = D[j]
  BY <1>1, DueIsSum DEF Due
<1>3. /\ D[0] = 0 /\ \A j \in 0..n : D[j] \in Nat
      /\ \A j \in 1..n : D[j] = D[j - 1] + l[j].time
  BY <1>1, <1>2 DEF IsDue
<1>4. PICK t \in Nat : t = l[1].time
  BY <1>1, EntryOf
<1>5. D[1] = t
  BY <1>1, <1>3, <1>4
<1>6. PICK S : S = {j \in 0..n : j = 0 \/ t <= D[j]}
  OBVIOUS
<1>7. 0 \in S
  BY <1>6
<1>8. ASSUME NEW j \in 0..n, j < n, j \in S PROVE j + 1 \in S
  <2>1. j + 1 \in 1..n /\ j + 1 \in 0..n /\ j + 1 - 1 = j
    BY <1>8
  <2>2. CASE j = 0
    BY <1>5, <1>6, <2>1, <2>2
  <2>3. CASE j # 0
    <3>1. t <= D[j] /\ D[j] \in Nat
      BY <1>3, <1>6, <1>8, <2>3
    <3>2. D[j + 1] = D[j] + l[j + 1].time
      BY <1>3, <2>1
    <3>3. l[j + 1].time \in Nat
      BY <1>1, <2>1, EntryOf
    <3>4. t <= D[j + 1]
      BY <3>1, <3>2, <3>3
    <3> QED
      BY <1>6, <2>1, <3>4
  <2> QED
    BY <2>2, <2>3
<1>9. \A j \in 0..n : j \in S
  BY <1>7, <1>8, UpTo
<1>10. i \in 0..n /\ i # 0 /\ 1 \in 0..n
  BY <1>1
<1>11. t <= D[i]
  BY <1>6, <1>9, <1>10
<1> QED
  BY <1>2, <1>4, <1>5, <1>10, <1>11

(* What sys_timeout does to a list: h is at position pos + 1, due no       *)
(* earlier than asked for but for what the first one is overdue; those     *)
(* before it keep their time and those behind it lose at most d.           *)
Inserted(l, m, h, msecs, d, pos) ==
    /\ pos \in 0..Len(l)
    /\ m \in Seq(Entries) /\ Len(m) = Len(l) + 1
    /\ m[pos + 1].h = h
    /\ \A i \in 1..pos : m[i].h = l[i].h /\ Due(m, i) = Due(l, i)
    /\ \A i \in (pos + 1)..Len(l) :
          /\ m[i + 1].h = l[i].h
          /\ Due(l, i) <= Due(m, i + 1) /\ Due(m, i + 1) <= Due(l, i) + d
    /\ \/ Due(m, pos + 1) >= msecs + d
       \/ l # <<>> /\ l[1].time <= d /\ Due(m, pos + 1) >= msecs + l[1].time
       \/ l = <<>> /\ Due(m, pos + 1) = msecs

(* An entry of a list.                                                     *)
LEMMA EntryIs ==
    ASSUME NEW h \in Timers, NEW t \in Nat
    PROVE  Entry(h, t) \in Entries /\ Entry(h, t).h = h /\ Entry(h, t).time = t
  BY DEF Entry, Entries

(* Linking before pos + 1 is such an insertion.                            *)
LEMMA LinkInserted ==
    ASSUME NEW l \in Seq(Entries), NEW n \in Nat, Len(l) = n, NEW pos \in Nat, pos < n,
           NEW h \in Timers, NEW t \in Nat, NEW off \in Nat,
           NEW msecs \in Nat, NEW d \in Nat,
           off <= l[pos + 1].time, off <= t, t - off <= d, Due(l, pos) + t = msecs + d
    PROVE  Inserted(l, Link(l, pos, Entry(h, t), off), h, msecs, d, pos)
<1>1. PICK new \in Entries : new = Entry(h, t) /\ new.h = h /\ new.time = t
  BY EntryIs
<1>2. off <= new.time
  BY <1>1
<1>3. PICK m : m = Link(l, pos, new, off)
  OBVIOUS
<1>4. /\ m \in Seq(Entries) /\ Len(m) = n + 1
      /\ \A i \in 1..pos : m[i] = l[i]
      /\ m[pos + 1] = new
      /\ m[pos + 2].h = l[pos + 1].h
      /\ \A i \in (pos + 2)..n : m[i + 1] = l[i]
  <2>1. Linked(l, m, pos, new, off)
    BY <1>3, LinkElements
  <2> QED
    BY <2>1 DEF Linked
<1>5. /\ \A i \in 1..pos : Due(m, i) = Due(l, i)
      /\ Due(m, pos + 1) = Due(l, pos) + new.time
      /\ \A i \in (pos + 1)..n : Due(m, i + 1) = Due(l, i) + (new.time - off)
  BY <1>2, <1>3, LinkDue
<1>6. \A i \in (pos + 1)..n : m[i + 1].h = l[i].h
  <2> SUFFICES ASSUME NEW i \in (pos + 1)..n PROVE m[i + 1].h = l[i].h
    OBVIOUS
  <2>1. CASE i = pos + 1
    <3>1. i + 1 = pos + 2
      BY <2>1
    <3> QED
      BY <1>4, <2>1, <3>1
  <2>2. CASE i # pos + 1
    <3>1. i \in (pos + 2)..n
      BY <2>2
    <3> QED
      BY <1>4, <3>1
  <2> QED
    BY <2>1, <2>2
<1>7. \A i \in (pos + 1)..n : Due(l, i) <= Due(m, i + 1) /\ Due(m, i + 1) <= Due(l, i) + d
  <2> SUFFICES ASSUME NEW i \in (pos + 1)..n
               PROVE  Due(l, i) <= Due(m, i + 1) /\ Due(m, i + 1) <= Due(l, i) + d
    OBVIOUS
  <2>1. PICK x \in Nat : x = Due(l, i)
    <3>1. i \in 0..Len(l)
      OBVIOUS
    <3> QED
      BY <3>1, DueFacts
  <2>2. Due(m, i + 1) = x + (t - off)
    BY <1>1, <1>5, <2>1
  <2>3. x <= x + (t - off) /\ x + (t - off) <= x + d
    BY <2>1
  <2> QED
    BY <2>1, <2>2, <2>3
<1>8. Due(m, pos + 1) = msecs + d
  BY <1>1, <1>5
<1>9. pos \in 0..n /\ msecs + d >= msecs + d
  OBVIOUS
<1>10. Inserted(l, m, h, msecs, d, pos)
  BY <1>1, <1>4, <1>5, <1>6, <1>7, <1>8, <1>9 DEF Inserted
<1> QED
  BY <1>1, <1>3, <1>10

(* Appending is one too.                                                   *)
LEMMA AppendInserted ==
    ASSUME NEW l \in Seq(Entries), NEW n \in Nat, Len(l) = n,
           NEW h \in Timers, NEW t \in Nat, NEW msecs \in Nat, NEW d \in Nat,
           \/ Due(l, n) + t >= msecs + d
           \/ l # <<>> /\ l[1].time <= d /\ Due(l, n) + t >= msecs + l[1].time
           \/ l = <<>> /\ t = msecs
    PROVE  Inserted(l, Append(l, Entry(h, t)), h, msecs, d, n)
<1>1. PICK new \in Entries : new = Entry(h, t) /\ new.h = h /\ new.time = t
  BY EntryIs
<1>2. PICK m : m = Append(l, new)
  OBVIOUS
<1>3. /\ m \in Seq(Entries) /\ Len(m) = n + 1
      /\ \A i \in 1..n : m[i] = l[i] /\ Due(m, i) = Due(l, i)
      /\ m[n + 1] = new
      /\ Due(m, n + 1) = Due(l, n) + new.time
  BY <1>2, AppendDue
<1>4. l = <<>> => n = 0
  OBVIOUS
<1>5. l = <<>> /\ t = msecs => Due(m, n + 1) = msecs
  BY <1>1, <1>3, <1>4, DueFacts
<1>6. n \in 0..n /\ (n + 1)..n = {}
  OBVIOUS
<1>7. \/ Due(m, n + 1) >= msecs + d
      \/ l # <<>> /\ l[1].time <= d /\ Due(m, n + 1) >= msecs + l[1].time
      \/ l = <<>> /\ Due(m, n + 1) = msecs
  BY <1>1, <1>3, <1>5
<1>8. Inserted(l, m, h, msecs, d, n)
  BY <1>1, <1>3, <1>6, <1>7 DEF Inserted
<1> QED
  BY <1>1, <1>2, <1>8

(* sys_timeout in all its ways.                                            *)
LEMMA InsertInserted ==
    ASSUME NEW l \in Seq(Entries), NEW h \in Timers, NEW msecs \in Nat, NEW d \in Nat
    PROVE  \E pos : Inserted(l, Insert(l, h, msecs, d), h, msecs, d, pos)
<1>1. PICK n \in Nat : n = Len(l)
  OBVIOUS
<1>2. CASE l = <<>>
  <2>1. Insert(l, h, msecs, d) = Append(l, Entry(h, msecs))
    BY <1>2 DEF Insert
  <2>2. Inserted(l, Append(l, Entry(h, msecs)), h, msecs, d, n)
    BY <1>1, <1>2, AppendInserted
  <2> QED
    BY <2>1, <2>2
<1>3. CASE l # <<>> /\ l[1].time > msecs
  <2>1. Insert(l, h, msecs, d) = Link(l, 0, Entry(h, msecs + d), msecs)
    BY <1>3 DEF Insert, Before
  <2>2. 0 < n /\ 1 \in 1..Len(l)
    BY <1>1, <1>3
  <2>3. l[1].time \in Nat
    BY <2>2, EntryOf
  <2>4. /\ msecs + d \in Nat /\ msecs <= l[0 + 1].time /\ msecs <= msecs + d
        /\ (msecs + d) - msecs <= d
    BY <1>3, <2>3
  <2>5. Due(l, 0) + (msecs + d) = msecs + d
    BY DueFacts
  <2>6. Inserted(l, Link(l, 0, Entry(h, msecs + d), msecs), h, msecs, d, 0)
    BY <1>1, <2>2, <2>4, <2>5, LinkInserted
  <2> QED
    BY <2>1, <2>6
<1>4. CASE l # <<>> /\ ~(l[1].time > msecs)
  <2>1. n >= 1 /\ 1 \in 1..Len(l) /\ n \in 1..Len(l) /\ n \in 0..Len(l)
    BY <1>1, <1>4
  <2>2. PICK first \in Nat : first = l[1].time /\ first <= msecs
    BY <1>4, <2>1, EntryOf
  <2>3. PICK D : \A i \in 0..n : D[i] = Due(l, i)
    <3>1. \A i \in 0..n : DueTimes(l)[i] = Due(l, i)
      BY DEF Due
    <3> QED
      BY <3>1
  <2>4. /\ \A i \in 0..n : D[i] \in Nat
        /\ \A i \in 1..n : D[i] = D[i - 1] + l[i].time
        /\ D[0] = 0 /\ D[1] = first /\ first <= D[n]
    <3>1. \A i \in 1..n : i \in 0..n /\ i - 1 \in 0..n
      OBVIOUS
    <3>2. /\ \A i \in 0..n : D[i] \in Nat
          /\ \A i \in 1..n : D[i] = D[i - 1] + l[i].time
          /\ D[0] = 0
      BY <1>1, <2>3, <3>1, DueFacts
    <3>3. D[1] = first /\ first <= D[n]
      BY <1>1, <2>1, <2>2, <2>3, <3>1, FirstIsFirst
    <3> QED
      BY <3>2, <3>3
  <2>5. PICK T : T = {i \in 1..n : i = n \/ l[i + 1].time > msecs + d - D[i]}
    OBVIOUS
  <2>6. PICK pos \in T : \A y \in T : pos <= y
    <3>1. T \in SUBSET Nat /\ n \in T
      BY <1>1, <2>1, <2>5
    <3> QED
      BY <3>1, LeastNat
  <2>7. pos \in 1..n /\ pos \in Nat
    BY <2>5, <2>6
  <2>8. PICK rest \in Nat : rest = msecs + d - D[pos]
    <3>1. CASE pos = 1
      <4>1. msecs + d - D[pos] = (msecs - first) + d /\ msecs - first \in Nat
        BY <2>2, <2>4, <3>1, SMTT(30)
      <4> QED
        BY <4>1
    <3>2. CASE pos # 1
      <4>1. pos - 1 \in 1..n /\ pos - 1 # n /\ pos - 1 + 1 = pos /\ ~(pos <= pos - 1)
            /\ pos - 1 \in 0..n /\ pos \in 0..n
        BY <2>7, <3>2
      <4>2. pos - 1 \notin T
        BY <2>6, <4>1
      <4>3. ~(l[pos].time > msecs + d - D[pos - 1])
        BY <2>5, <4>1, <4>2
      <4>4. D[pos] = D[pos - 1] + l[pos].time
        BY <2>4, <2>7
      <4>5. l[pos].time \in Nat /\ D[pos - 1] \in Nat
        BY <1>1, <2>4, <2>7, <4>1, EntryOf
      <4>6. msecs + d - D[pos] \in Nat
        BY <4>3, <4>4, <4>5
      <4> QED
        BY <4>6
    <3> QED
      BY <3>1, <3>2
  <2>9. pos = Min({i \in 1..Len(l) : i = Len(l) \/ l[i + 1].time > msecs + d - Due(l, i)})
    <3>1. T = {i \in 1..Len(l) : i = Len(l) \/ l[i + 1].time > msecs + d - Due(l, i)}
      <4>1. \A i \in 1..n : i \in 0..n
        OBVIOUS
      <4> QED
        BY <1>1, <2>3, <2>5, <4>1
    <3>2. \A x \in T : x \in Nat
      BY <2>5
    <3>3. \A x \in T : (\A y \in T : x <= y) => x = pos
      BY <2>6, <3>2
    <3>4. Min(T) = pos
      <4>1. \E x \in T : \A y \in T : x <= y
        BY <2>6
      <4>2. Min(T) \in T /\ \A y \in T : Min(T) <= y
        BY <4>1, Zenon DEF Min
      <4> QED
        BY <3>3, <4>2
    <3> QED
      BY <3>1, <3>4
  <2>10. Due(l, pos) = D[pos] /\ Due(l, n) = D[n] /\ D[pos] \in Nat /\ D[n] \in Nat
    <3>1. pos \in 0..n /\ n \in 0..n
      BY <2>7
    <3> QED
      BY <2>3, <2>4, <3>1
  <2>11. CASE pos = n
    <3>1. PICK t : t = IF rest > msecs THEN msecs + first ELSE rest
      OBVIOUS
    <3>2. Insert(l, h, msecs, d) = Append(l, Entry(h, t))
      <4>1. Insert(l, h, msecs, d) = Behind(l, h, msecs, d)
        BY <1>4 DEF Insert
      <4>2. msecs + d - Due(l, Len(l)) = rest
        BY <1>1, <2>8, <2>10, <2>11
      <4>3. Behind(l, h, msecs, d) = Append(l, Entry(h, t))
        BY <1>1, <2>2, <2>9, <2>11, <3>1, <4>2 DEF Behind
      <4> QED
        BY <4>1, <4>3
    <3>3. t \in Nat
      BY <3>1
    <3>4. \/ D[n] + t >= msecs + d
          \/ first <= d /\ D[n] + t >= msecs + first
      BY <2>4, <2>8, <2>10, <2>11, <3>1
    <3>5. Inserted(l, Append(l, Entry(h, t)), h, msecs, d, n)
      <4>1. \/ Due(l, n) + t >= msecs + d
            \/ l # <<>> /\ l[1].time <= d /\ Due(l, n) + t >= msecs + l[1].time
        BY <1>4, <2>2, <2>10, <3>4
      <4> QED
        BY <1>1, <3>3, <4>1, AppendInserted
    <3> QED
      BY <3>2, <3>5
  <2>12. CASE pos # n
    <3>1. l[pos + 1].time > rest /\ pos < n
      BY <2>5, <2>6, <2>7, <2>8, <2>12
    <3>2. Insert(l, h, msecs, d) = Link(l, pos, Entry(h, rest), rest)
      <4>1. Insert(l, h, msecs, d) = Behind(l, h, msecs, d)
        BY <1>4 DEF Insert
      <4>2. msecs + d - Due(l, pos) = rest
        BY <2>8, <2>10
      <4>3. Behind(l, h, msecs, d) = Link(l, pos, Entry(h, rest), rest)
        BY <1>1, <2>9, <2>12, <4>2 DEF Behind
      <4> QED
        BY <4>1, <4>3
    <3>3. Inserted(l, Link(l, pos, Entry(h, rest), rest), h, msecs, d, pos)
      <4>1. l[pos + 1].time \in Nat
        <5>1. pos + 1 \in 1..Len(l)
          BY <1>1, <2>7, <3>1
        <5> QED
          BY <5>1, EntryOf
      <4>2. /\ rest <= l[pos + 1].time /\ rest <= rest /\ rest - rest <= d
            /\ Due(l, pos) + rest = msecs + d
        BY <2>8, <2>10, <3>1, <4>1, SMTT(30)
      <4> QED
        BY <1>1, <2>7, <3>1, <4>2, LinkInserted
    <3> QED
      BY <3>2, <3>3
  <2> QED
    BY <2>11, <2>12
<1> QED
  BY <1>2, <1>3, <1>4

-----------------------------------------------------------------------------
(* The inductive invariant.                                                *)
Names(l) == {l[i].h : i \in 1..Len(l)}
Distinct(l) == \A i, j \in 1..Len(l) : l[i].h = l[j].h => i = j

(* How long the lwIP thread has to wait for what is due at t.              *)
Remaining(t, now) == IF now < t THEN t - now ELSE 0

(* The age of a timer and what it still has to wait make up its interval.  *)
AgesCover(l, a, now) ==
    \A i \in 1..Len(l) : Interval[l[i].h] <= a[l[i].h] + Remaining(Due(l, i), now)
AgeInv == (\A h \in Timers : age[h] <= Interval[h]) /\ AgesCover(list, age, since)

(* The thread expires no more than the time that has gone by.              *)
ThreadInv ==
    /\ pc \in {"expire", "handler"} => diff <= since
    /\ pc = "handler" <=> handler # "none"
    /\ EarlyByLatenessOnly

(* Every timer is in one place.                                            *)
PlaceInv ==
    /\ Distinct(list)
    /\ handler \notin Names(list)
    /\ \A h \in Timers \ {Tcp} : h \in Names(list) \/ h = handler
    /\ (Tcp \in Names(list) \/ Tcp = handler) <=> (tcpActive /\ app # "inside")
    /\ app = "inside" => tcpActive
    /\ pcbs /\ app # "locked" => tcpActive

Inv == TypeOK /\ AgeInv /\ ThreadInv /\ PlaceInv

-----------------------------------------------------------------------------
(* What the constants are.                                                 *)
LEMMA ConstantFacts ==
    /\ \A h \in Timers : Interval[h] \in Nat
    /\ "none" \notin Timers /\ Tcp \in Timers
    /\ TickMs \in Nat /\ TickMs > 0
    /\ Pool \in Nat /\ MaxMsgs \in Nat /\ MaxBusy \in Nat
    /\ Len(Cyclic) \in Nat /\ 2 <= Len(Cyclic) /\ Len(Cyclic) + 1 <= Pool
    /\ DOMAIN Cyclic = 1..Len(Cyclic)
    /\ \A i \in 1..Len(Cyclic) : Cyclic[i] \in Timers \ {Tcp}
    /\ \A i, j \in 1..Len(Cyclic) : Cyclic[i] = Cyclic[j] => i = j
<1>1. DOMAIN Cyclic = 1..Len(Cyclic) /\ Len(Cyclic) \in Nat
  BY TimeoutsAssumption
<1>2. \A h \in Timers : Interval[h] \in Nat
  BY TimeoutsAssumption
<1>3. \A i \in 1..Len(Cyclic) : Cyclic[i] \in Timers \ {Tcp}
  BY <1>1, TimeoutsAssumption DEF Timers
<1>4. "none" \notin Timers /\ Tcp \in Timers
  BY TimeoutsAssumption DEF Timers, Tcp
<1>5. /\ TickMs \in Nat /\ TickMs > 0
      /\ Pool \in Nat /\ MaxMsgs \in Nat /\ MaxBusy \in Nat
  BY TimeoutsAssumption
<1>6. \A i, j \in 1..Len(Cyclic) : Cyclic[i] = Cyclic[j] => i = j
  BY <1>1, TimeoutsAssumption
<1> QED
  BY <1>1, <1>2, <1>3, <1>4, <1>5, <1>6, TimeoutsAssumption

(* There are no more timers than the table has entries.                    *)
LEMMA TimersFinite == IsFiniteSet(Timers) /\ Cardinality(Timers) <= Len(Cyclic) + 1
<1>1. PICK n \in Nat : n = Len(Cyclic)
  BY ConstantFacts
<1>2. PICK f : f = [i \in 1..(n + 1) |-> IF i <= n THEN Cyclic[i] ELSE Tcp]
  OBVIOUS
<1>3. f \in [1..(n + 1) -> Timers]
  BY <1>1, <1>2, ConstantFacts
<1>4. \A t \in Timers : \E i \in 1..(n + 1) : f[i] = t
  <2> SUFFICES ASSUME NEW t \in Timers PROVE \E i \in 1..(n + 1) : f[i] = t
    OBVIOUS
  <2>1. CASE t = Tcp
    <3>1. n + 1 \in 1..(n + 1) /\ f[n + 1] = Tcp
      BY <1>2
    <3> QED
      BY <2>1, <3>1
  <2>2. CASE t # Tcp
    <3>1. PICK i \in 1..n : t = Cyclic[i]
      BY <1>1, <2>2, ConstantFacts DEF Timers
    <3>2. i \in 1..(n + 1) /\ f[i] = Cyclic[i]
      BY <1>2
    <3> QED
      BY <3>1, <3>2
  <2> QED
    BY <2>1, <2>2
<1>5. f \in Surjection(1..(n + 1), Timers)
  BY <1>3, <1>4 DEF Surjection
<1>6. IsFiniteSet(1..(n + 1)) /\ Cardinality(1..(n + 1)) = n + 1
  BY FS_Interval
<1>7. IsFiniteSet(Timers) /\ Cardinality(Timers) <= Cardinality(1..(n + 1))
  BY <1>5, <1>6, FS_Surjection
<1> QED
  BY <1>1, <1>6, <1>7

(* A list without h has room for it in the pool.                           *)
LEMMA RoomLeft ==
    ASSUME NEW l \in Seq(Entries), Distinct(l), NEW h \in Timers, h \notin Names(l)
    PROVE  Len(l) < Pool
<1>1. PICK n \in Nat : n = Len(l)
  OBVIOUS
<1>2. PICK f : f = [i \in 1..(n + 1) |-> IF i <= n THEN l[i].h ELSE h]
  OBVIOUS
<1>3. \A i \in 1..n : l[i].h \in Timers /\ l[i].h # h
  BY <1>1, EntryOf DEF Names
<1>4. f \in [1..(n + 1) -> Timers]
  BY <1>2, <1>3
<1>5. \A i, j \in 1..(n + 1) : f[i] = f[j] => i = j
  <2> SUFFICES ASSUME NEW i \in 1..(n + 1), NEW j \in 1..(n + 1), f[i] = f[j] PROVE i = j
    OBVIOUS
  <2>1. CASE i <= n /\ j <= n
    <3>1. i \in 1..n /\ j \in 1..n /\ f[i] = l[i].h /\ f[j] = l[j].h
      BY <1>2, <2>1
    <3> QED
      BY <1>1, <3>1 DEF Distinct
  <2>2. CASE i <= n /\ ~(j <= n)
    BY <1>2, <1>3, <2>2
  <2>3. CASE ~(i <= n) /\ j <= n
    BY <1>2, <1>3, <2>3
  <2>4. CASE ~(i <= n) /\ ~(j <= n)
    BY <2>4
  <2> QED
    BY <2>1, <2>2, <2>3, <2>4
<1>6. f \in Injection(1..(n + 1), Timers)
  BY <1>4, <1>5 DEF Injection, IsInjective
<1>7. Cardinality(1..(n + 1)) = n + 1
  BY FS_Interval
<1>8. Cardinality(1..(n + 1)) <= Cardinality(Timers)
  BY <1>6, TimersFinite, FS_Injection
<1>9. Cardinality(Timers) \in Nat
  BY TimersFinite, FS_CardinalityType
<1> QED
  BY <1>1, <1>7, <1>8, <1>9, TimersFinite, ConstantFacts

(* A timer that is inserted is in the list, and nothing else changes.      *)
LEMMA InsertedNames ==
    ASSUME NEW l \in Seq(Entries), Distinct(l), NEW h \in Timers, h \notin Names(l),
           NEW m, NEW msecs, NEW d, NEW pos, Inserted(l, m, h, msecs, d, pos)
    PROVE  Names(m) = Names(l) \union {h} /\ Distinct(m)
<1>1. PICK n \in Nat : n = Len(l)
  OBVIOUS
<1>2. pos \in 0..n /\ m \in Seq(Entries) /\ Len(m) = n + 1 /\ m[pos + 1].h = h
  BY <1>1 DEF Inserted
<1>3. \A i \in 1..pos : m[i].h = l[i].h
  BY DEF Inserted
<1>4. \A i \in (pos + 1)..n : m[i + 1].h = l[i].h
  BY <1>1 DEF Inserted
<1>5. \A i \in 1..(n + 1) : \/ i \in 1..n /\ i <= pos /\ m[i].h = l[i].h
                            \/ i = pos + 1 /\ m[i].h = h
                            \/ i > pos + 1 /\ i - 1 \in 1..n /\ m[i].h = l[i - 1].h
  <2> SUFFICES ASSUME NEW i \in 1..(n + 1)
               PROVE  \/ i \in 1..n /\ i <= pos /\ m[i].h = l[i].h
                      \/ i = pos + 1 /\ m[i].h = h
                      \/ i > pos + 1 /\ i - 1 \in 1..n /\ m[i].h = l[i - 1].h
    OBVIOUS
  <2>1. CASE i <= pos
    <3>1. i \in 1..pos /\ i \in 1..n
      BY <1>2, <2>1
    <3> QED
      BY <1>3, <2>1, <3>1
  <2>2. CASE i = pos + 1
    BY <1>2, <2>2
  <2>3. CASE i > pos + 1
    <3>1. i - 1 \in (pos + 1)..n /\ i - 1 \in 1..n /\ i - 1 + 1 = i
      BY <1>2, <2>3
    <3> QED
      BY <1>4, <2>3, <3>1
  <2> QED
    BY <1>2, <2>1, <2>2, <2>3
<1>6. \A i \in 1..n : \E j \in 1..(n + 1) : m[j].h = l[i].h
  <2> SUFFICES ASSUME NEW i \in 1..n PROVE \E j \in 1..(n + 1) : m[j].h = l[i].h
    OBVIOUS
  <2>1. CASE i <= pos
    <3>1. i \in 1..pos /\ i \in 1..(n + 1)
      BY <1>2, <2>1
    <3> QED
      BY <1>3, <3>1
  <2>2. CASE i > pos
    <3>1. i \in (pos + 1)..n /\ i + 1 \in 1..(n + 1)
      BY <1>2, <2>2
    <3> QED
      BY <1>4, <3>1
  <2> QED
    BY <1>2, <2>1, <2>2
<1>7. pos + 1 \in 1..(n + 1)
  BY <1>2
<1>8. Names(l) = {l[i].h : i \in 1..n} /\ Names(m) = {m[i].h : i \in 1..(n + 1)}
  BY <1>1, <1>2 DEF Names
<1>9. Names(m) \subseteq Names(l) \union {h}
  BY <1>5, <1>8
<1>10. Names(l) \union {h} \subseteq Names(m)
  BY <1>2, <1>6, <1>7, <1>8
<1>11. \A i, j \in 1..n : l[i].h = l[j].h => i = j
  BY <1>1 DEF Distinct
<1>12. \A i \in 1..n : l[i].h # h
  BY <1>8
<1>13. ASSUME NEW i \in 1..(n + 1), NEW j \in 1..(n + 1), m[i].h = m[j].h
       PROVE  i = j
  <2>1. CASE i <= pos
    <3>1. i \in 1..n /\ m[i].h = l[i].h
      BY <1>2, <1>5, <2>1
    <3>2. CASE j <= pos
      <4>1. j \in 1..n /\ m[j].h = l[j].h
        BY <1>2, <1>5, <3>2
      <4> QED
        BY <1>11, <1>13, <3>1, <4>1
    <3>3. CASE j = pos + 1
      BY <1>2, <1>12, <1>13, <3>1, <3>3
    <3>4. CASE j > pos + 1
      <4>1. j - 1 \in 1..n /\ m[j].h = l[j - 1].h
        BY <1>2, <1>5, <3>4
      <4>2. i = j - 1
        BY <1>11, <1>13, <3>1, <4>1
      <4> QED
        BY <1>2, <2>1, <3>4, <4>2
    <3> QED
      BY <1>2, <3>2, <3>3, <3>4
  <2>2. CASE i = pos + 1
    <3>1. m[j].h = h
      BY <1>2, <1>13, <2>2
    <3> QED
      BY <1>5, <1>12, <2>2, <3>1
  <2>3. CASE i > pos + 1
    <3>1. i - 1 \in 1..n /\ m[i].h = l[i - 1].h
      BY <1>2, <1>5, <2>3
    <3>2. CASE j <= pos
      <4>1. j \in 1..n /\ m[j].h = l[j].h
        BY <1>2, <1>5, <3>2
      <4>2. j = i - 1
        BY <1>11, <1>13, <3>1, <4>1
      <4> QED
        BY <1>2, <2>3, <3>2, <4>2
    <3>3. CASE j = pos + 1
      BY <1>2, <1>12, <1>13, <3>1, <3>3
    <3>4. CASE j > pos + 1
      <4>1. j - 1 \in 1..n /\ m[j].h = l[j - 1].h
        BY <1>2, <1>5, <3>4
      <4>2. i - 1 = j - 1
        BY <1>11, <1>13, <3>1, <4>1
      <4> QED
        BY <4>2
    <3> QED
      BY <1>2, <3>2, <3>3, <3>4
  <2> QED
    BY <1>2, <2>1, <2>2, <2>3
<1> QED
  BY <1>2, <1>9, <1>10, <1>13 DEF Distinct

(* The first timeout taken off: the others are due that much earlier after *)
(* a timeouts_last_time that is that much later.                           *)
LEMMA TailFacts ==
    ASSUME NEW l \in Seq(Entries), l # <<>>, Distinct(l)
    PROVE  /\ Tail(l) \in Seq(Entries) /\ Len(Tail(l)) = Len(l) - 1
           /\ \A i \in 1..(Len(l) - 1) : /\ Tail(l)[i] = l[i + 1]
                                        /\ Due(Tail(l), i) = Due(l, i + 1) - l[1].time
           /\ Names(Tail(l)) = Names(l) \ {l[1].h} /\ Distinct(Tail(l))
<1>1. PICK n \in Nat : Len(l) = n + 1
  <2>1. PICK k \in Nat : k = Len(l) /\ k # 0
    OBVIOUS
  <2>2. k - 1 \in Nat /\ k = (k - 1) + 1
    BY <2>1
  <2> QED
    BY <2>1, <2>2
<1>2. PICK m : m = Tail(l)
  OBVIOUS
<1>3. m \in Seq(Entries) /\ Len(m) = n /\ \A i \in 1..n : m[i] = l[i + 1]
  BY <1>1, <1>2
<1>4. PICK D : IsDue(D, l) /\ \A i \in 0..(n + 1) : Due(l, i) = D[i]
  BY <1>1, DueIsSum DEF Due
<1>5. /\ D[0] = 0 /\ \A i \in 0..(n + 1) : D[i] \in Nat
      /\ \A i \in 1..(n + 1) : D[i] = D[i - 1] + l[i].time
  BY <1>1, <1>4 DEF IsDue
<1>6. PICK t \in Nat : t = l[1].time
  <2>1. 1 \in 1..Len(l)
    BY <1>1
  <2> QED
    BY <2>1, EntryOf
<1>7. \A i \in 1..(n + 1) : t <= D[i] /\ D[1] = t
  <2>1. \A i \in 1..(n + 1) : i \in 1..Len(l) /\ i \in 0..(n + 1) /\ 1 \in 0..(n + 1)
    BY <1>1
  <2> QED
    BY <1>4, <1>6, <2>1, FirstIsFirst
<1>8. PICK f : f = [i \in 0..n |-> D[i + 1] - t]
  OBVIOUS
<1>9. f \in [0..n -> Nat]
  <2>1. \A i \in 0..n : i + 1 \in 1..(n + 1) /\ i + 1 \in 0..(n + 1)
    OBVIOUS
  <2>2. \A i \in 0..n : D[i + 1] - t \in Nat
    BY <1>5, <1>7, <2>1
  <2> QED
    BY <1>8, <2>2
<1>10. f[0] = 0
  <2>1. 0 \in 0..n /\ 1 \in 1..(n + 1)
    OBVIOUS
  <2> QED
    BY <1>7, <1>8, <2>1
<1>11. \A i \in 1..n : f[i] = f[i - 1] + m[i].time
  <2> SUFFICES ASSUME NEW i \in 1..n PROVE f[i] = f[i - 1] + m[i].time
    OBVIOUS
  <2>1. /\ i \in 0..n /\ i - 1 \in 0..n /\ i + 1 \in 1..(n + 1) /\ i - 1 + 1 = i
        /\ i + 1 - 1 = i /\ i \in 0..(n + 1)
    OBVIOUS
  <2>2. f[i] = D[i + 1] - t /\ f[i - 1] = D[i] - t
    BY <1>8, <2>1
  <2>3. D[i + 1] = D[i] + l[i + 1].time
    BY <1>5, <2>1
  <2>4. D[i] \in Nat /\ l[i + 1].time \in Nat
    <3>1. i + 1 \in 1..Len(l)
      BY <1>1
    <3> QED
      BY <1>5, <2>1, <3>1, EntryOf
  <2> QED
    BY <1>3, <2>2, <2>3, <2>4
<1>12. \A i \in 0..n : Due(m, i) = f[i]
  <2>1. IsDue(f, m)
    BY <1>3, <1>9, <1>10, <1>11 DEF IsDue
  <2> QED
    BY <1>3, <2>1, DueEquals
<1>13. \A i \in 1..n : Due(m, i) = Due(l, i + 1) - t
  <2>1. \A i \in 1..n : i \in 0..n /\ i + 1 \in 0..(n + 1)
    OBVIOUS
  <2> QED
    BY <1>4, <1>8, <1>12, <2>1
<1>14. \A i, j \in 1..(n + 1) : l[i].h = l[j].h => i = j
  BY <1>1 DEF Distinct
<1>15. Distinct(m)
  <2> SUFFICES ASSUME NEW i \in 1..n, NEW j \in 1..n, m[i].h = m[j].h PROVE i = j
    BY <1>3 DEF Distinct
  <2>1. PICK a \in 1..(n + 1), b \in 1..(n + 1) : a = i + 1 /\ b = j + 1
    OBVIOUS
  <2>2. l[a].h = l[b].h
    BY <1>3, <2>1
  <2>3. a = b
    BY <1>14, <2>2
  <2> QED
    BY <2>1, <2>3
<1>16. Names(m) = Names(l) \ {l[1].h}
  <2>1. Names(m) = {m[i].h : i \in 1..n} /\ Names(l) = {l[i].h : i \in 1..(n + 1)}
    BY <1>1, <1>3 DEF Names
  <2>2. \A i \in 1..n : i + 1 \in 1..(n + 1) /\ i + 1 # 1 /\ 1 \in 1..(n + 1)
    OBVIOUS
  <2>3. \A i \in 1..n : m[i].h \in Names(l) /\ m[i].h # l[1].h
    BY <1>3, <1>14, <2>1, <2>2
  <2>4. \A i \in 1..(n + 1) : i # 1 => l[i].h \in Names(m)
    <3> SUFFICES ASSUME NEW i \in 1..(n + 1), i # 1 PROVE l[i].h \in Names(m)
      OBVIOUS
    <3>1. i - 1 \in 1..n /\ i - 1 + 1 = i
      OBVIOUS
    <3>2. m[i - 1] = l[i]
      BY <1>3, <3>1
    <3> QED
      BY <2>1, <3>1, <3>2
  <2> QED
    BY <2>1, <2>3, <2>4
<1>17. Len(l) - 1 = n
  BY <1>1
<1> QED
  BY <1>2, <1>3, <1>6, <1>13, <1>15, <1>16, <1>17

(* Inserting a timer leaves the others covered.                            *)
LEMMA InsertedAges ==
    ASSUME NEW l \in Seq(Entries), NEW h \in Timers, h \notin Names(l),
           NEW m, NEW pos, NEW d \in Nat, Inserted(l, m, h, Interval[h], d, pos),
           NEW a \in [Timers -> Nat], NEW b \in [Timers -> Nat], NEW now \in Nat,
           \A g \in Timers \ {h} : b[g] = a[g],
           AgesCover(l, a, now),
           Interval[h] <= b[h] + Remaining(Due(m, pos + 1), now)
    PROVE  AgesCover(m, b, now)
<1>1. PICK n \in Nat : n = Len(l)
  OBVIOUS
<1>2. pos \in 0..n /\ m \in Seq(Entries) /\ Len(m) = n + 1 /\ m[pos + 1].h = h
  BY <1>1 DEF Inserted
<1>3. \A i \in 1..pos : m[i].h = l[i].h /\ Due(m, i) = Due(l, i)
  BY DEF Inserted
<1>4. \A i \in (pos + 1)..n : m[i + 1].h = l[i].h /\ Due(l, i) <= Due(m, i + 1)
  BY <1>1 DEF Inserted
<1>5. \A i \in 1..n : l[i].h \in Timers \ {h}
  BY <1>1, EntryOf DEF Names
<1>6. \A i \in 1..n : Interval[l[i].h] <= b[l[i].h] + Remaining(Due(l, i), now)
  BY <1>1, <1>5 DEF AgesCover
<1>7. ASSUME NEW i \in 1..(n + 1)
      PROVE  Interval[m[i].h] <= b[m[i].h] + Remaining(Due(m, i), now)
  <2>1. CASE i <= pos
    <3>1. i \in 1..pos /\ i \in 1..n
      BY <1>2, <2>1
    <3> QED
      BY <1>3, <1>6, <3>1
  <2>2. CASE i = pos + 1
    BY <1>2, <2>2
  <2>3. CASE i > pos + 1
    <3>1. PICK j \in (pos + 1)..n : i = j + 1 /\ j \in 1..n
      <4>1. i - 1 \in (pos + 1)..n /\ i = (i - 1) + 1 /\ i - 1 \in 1..n
        BY <1>2, <2>3
      <4> QED
        BY <4>1
    <3>2. PICK x \in Nat, y \in Nat : x = Due(l, j) /\ y = Due(m, i) /\ x <= y
      <4>1. j \in 0..Len(l) /\ i \in 0..Len(m)
        BY <1>1, <1>2, <3>1
      <4>2. Due(l, j) \in Nat /\ Due(m, i) \in Nat
        BY <1>2, <4>1, DueFacts
      <4> QED
        BY <1>4, <3>1, <4>2
    <3>3. PICK g \in Timers : g = l[j].h /\ g = m[i].h
      BY <1>4, <1>5, <3>1
    <3>4. Interval[g] <= b[g] + Remaining(x, now)
      BY <1>6, <3>1, <3>2, <3>3
    <3>5. Remaining(x, now) <= Remaining(y, now) /\ Remaining(x, now) \in Nat /\ Remaining(y, now) \in Nat
      BY <3>2 DEF Remaining
    <3>6. Interval[g] \in Nat /\ b[g] \in Nat
      BY ConstantFacts
    <3>7. Interval[g] <= b[g] + Remaining(y, now)
      BY <3>4, <3>5, <3>6
    <3> QED
      BY <3>2, <3>3, <3>7
  <2> QED
    BY <1>2, <2>1, <2>2, <2>3
<1> QED
  BY <1>2, <1>7 DEF AgesCover

(* At most one of two cyclic timers is being handled: the list of timeouts *)
(* is never empty.                                                         *)
LEMMA NotEmpty ==
    ASSUME PlaceInv, list \in Seq(Entries)
    PROVE  list # <<>>
<1>1. PICK g \in Timers \ {Tcp}, h \in Timers \ {Tcp} : g # h
  <2>1. 1 \in 1..Len(Cyclic) /\ 2 \in 1..Len(Cyclic)
    BY ConstantFacts
  <2>2. Cyclic[1] # Cyclic[2] /\ Cyclic[1] \in Timers \ {Tcp} /\ Cyclic[2] \in Timers \ {Tcp}
    BY <2>1, ConstantFacts
  <2> QED
    BY <2>2
<1>2. g \in Names(list) \/ h \in Names(list)
  BY <1>1 DEF PlaceInv
<1>3. PICK i \in 1..Len(list) : TRUE
  BY <1>2 DEF Names
<1> QED
  BY <1>3

(* sys_timeout of a timer that is not started.                             *)
LEMMA SysTimeout ==
    ASSUME TypeOK, AgeInv, PlaceInv, NEW h \in Timers, h \notin Names(list), sys_timeout(h)
    PROVE  /\ since' = since
           /\ list' \in Seq(Entries) /\ Len(list') <= Pool
           /\ Names(list') = Names(list) \union {h} /\ Distinct(list')
           /\ age' \in [Timers -> Nat] /\ \A g \in Timers \ {h} : age'[g] = age[g]
           /\ \A g \in Timers : age'[g] <= Interval[g]
           /\ AgesCover(list', age', since)
           /\ \E pos : Inserted(list, list', h, Interval[h], since, pos)
<1>1. list \in Seq(Entries) /\ since \in Nat /\ age \in [Timers -> Nat]
  BY DEF TypeOK, Entries
<1>2. list # <<>> /\ Distinct(list)
  BY <1>1, NotEmpty DEF PlaceInv
<1>3. Len(list) < Pool
  BY <1>1, <1>2, RoomLeft
<1>4. PICK n \in Nat : n = Len(list) /\ 1 \in 1..Len(list)
  BY <1>1, <1>2
<1>5. PICK first \in Nat : first = list[1].time
  BY <1>1, <1>4, EntryOf
<1>6. PICK msecs \in Nat : msecs = Interval[h]
  BY ConstantFacts
<1>7. PICK late \in Nat : late = IF since < first THEN 0 ELSE since - first
  <2>1. (IF since < first THEN 0 ELSE since - first) \in Nat
    BY <1>1, <1>5
  <2> QED
    BY <2>1
<1>8. Overdue = late
  BY <1>2, <1>5, <1>7 DEF Overdue
<1>9. /\ list' = Insert(list, h, msecs, since) /\ since' = since
      /\ age' = [age EXCEPT ![h] = Capped(late, h)]
  BY <1>2, <1>3, <1>6, <1>8 DEF sys_timeout
<1>10. PICK pos : Inserted(list, list', h, msecs, since, pos)
  BY <1>1, <1>9, InsertInserted
<1>11. PICK cap \in Nat : cap = Capped(late, h) /\ cap <= msecs /\ (cap = late \/ cap = msecs)
  BY <1>6, <1>7 DEF Capped
<1>12. /\ age' \in [Timers -> Nat] /\ age'[h] = cap
       /\ \A g \in Timers \ {h} : age'[g] = age[g]
  BY <1>1, <1>9, <1>11
<1>13. list' \in Seq(Entries) /\ Len(list') = n + 1
  BY <1>4, <1>10 DEF Inserted
<1>14. Names(list') = Names(list) \union {h} /\ Distinct(list')
  BY <1>1, <1>2, <1>10, InsertedNames
<1>15. \A g \in Timers : age'[g] <= Interval[g]
  BY <1>6, <1>11, <1>12 DEF AgeInv
<1>16. msecs <= age'[h] + Remaining(Due(list', pos + 1), since)
  <2>1. PICK due \in Nat : due = Due(list', pos + 1)
    <3>1. pos \in 0..n
      BY <1>4, <1>10 DEF Inserted
    <3>2. pos + 1 \in 0..Len(list')
      BY <1>13, <3>1
    <3> QED
      BY <1>13, <3>2, DueFacts
  <2>2. due >= msecs + since \/ (first <= since /\ due >= msecs + first)
    BY <1>2, <1>5, <1>10, <2>1 DEF Inserted
  <2>3. msecs <= cap + Remaining(due, since)
    <3>1. Remaining(due, since) \in Nat /\ Remaining(due, since) >= due - since
      BY <1>1, <2>1 DEF Remaining
    <3>2. PICK rest \in Nat : rest = Remaining(due, since) /\ rest >= due - since
      BY <3>1
    <3>3. msecs <= cap + rest
      <4>1. CASE due >= msecs + since
        BY <1>1, <3>2, <4>1
      <4>2. CASE cap = msecs
        BY <3>2, <4>2
      <4>3. CASE first <= since /\ due >= msecs + first /\ cap = late
        <5>1. late = since - first
          BY <1>1, <1>7, <4>3
        <5> QED
          BY <1>1, <3>2, <4>3, <5>1
      <4> QED
        BY <1>11, <2>2, <4>1, <4>2, <4>3
    <3> QED
      BY <3>2, <3>3
  <2> QED
    BY <1>12, <2>1, <2>3
<1>17. AgesCover(list', age', since)
  <2>1. PICK a \in [Timers -> Nat] : a = age
    BY <1>1
  <2>2. PICK b \in [Timers -> Nat] : b = age'
    BY <1>12
  <2>3. PICK l \in Seq(Entries) : l = list
    BY <1>1
  <2>4. PICK m : m = list'
    OBVIOUS
  <2>5. PICK now \in Nat : now = since
    BY <1>1
  <2>6. /\ h \notin Names(l) /\ Inserted(l, m, h, Interval[h], now, pos)
        /\ AgesCover(l, a, now)
        /\ Interval[h] <= b[h] + Remaining(Due(m, pos + 1), now)
        /\ \A g \in Timers \ {h} : b[g] = a[g]
    BY <1>6, <1>10, <1>12, <1>16, <2>1, <2>2, <2>3, <2>4, <2>5 DEF AgeInv
  <2>7. AgesCover(m, b, now)
    BY <2>6, InsertedAges
  <2> QED
    BY <2>2, <2>4, <2>5, <2>7
<1>18. Len(list') <= Pool
  BY <1>3, <1>4, <1>13, ConstantFacts
<1> QED
  BY <1>6, <1>9, <1>10, <1>12, <1>13, <1>14, <1>15, <1>17, <1>18

-----------------------------------------------------------------------------
(* sys_timeouts_init: after k timers have been started.                    *)
Next0(l, k) == Insert(l, Cyclic[k], Interval[Cyclic[k]], 0)
Underway(l, k) ==
    /\ l \in Seq(Entries) /\ Len(l) = k /\ Distinct(l)
    /\ Names(l) = {Cyclic[j] : j \in 1..k}
    /\ \A i \in 1..k : Interval[l[i].h] <= Due(l, i)

(* One more.                                                               *)
LEMMA StartOne ==
    ASSUME NEW k \in Nat, k < Len(Cyclic), NEW l, Underway(l, k)
    PROVE  Underway(Next0(l, k + 1), k + 1)
<1>1. k + 1 \in 1..Len(Cyclic)
  BY ConstantFacts
<1>2. PICK h \in Timers \ {Tcp} : h = Cyclic[k + 1]
  BY <1>1, ConstantFacts
<1>3. PICK msecs \in Nat : msecs = Interval[h]
  BY <1>2, ConstantFacts
<1>4. PICK m : m = Insert(l, h, msecs, 0)
  OBVIOUS
<1>5. l \in Seq(Entries) /\ Len(l) = k /\ Distinct(l)
  BY DEF Underway
<1>6. h \notin Names(l)
  <2>1. \A j \in 1..k : j \in 1..Len(Cyclic) /\ j # k + 1
    BY <1>1, ConstantFacts
  <2>2. \A j \in 1..k : Cyclic[j] # h
    BY <1>1, <1>2, <2>1, ConstantFacts
  <2> QED
    BY <2>2 DEF Underway
<1>7. PICK pos : Inserted(l, m, h, msecs, 0, pos)
  BY <1>4, <1>5, InsertInserted
<1>8. pos \in 0..k /\ m \in Seq(Entries) /\ Len(m) = k + 1 /\ m[pos + 1].h = h
  BY <1>5, <1>7 DEF Inserted
<1>9. Names(m) = Names(l) \union {h} /\ Distinct(m)
  BY <1>5, <1>6, <1>7, InsertedNames
<1>10. Names(m) = {Cyclic[j] : j \in 1..(k + 1)}
  <2>1. 1..(k + 1) = (1..k) \union {k + 1}
    OBVIOUS
  <2> QED
    BY <1>2, <1>9, <2>1 DEF Underway
<1>11. \A i \in 1..(k + 1) : Due(m, i) \in Nat
  <2>1. \A i \in 1..(k + 1) : i \in 0..Len(m)
    BY <1>8
  <2> QED
    BY <1>8, <2>1, DueFacts
<1>12. msecs <= Due(m, pos + 1)
  <2>1. PICK due \in Nat : due = Due(m, pos + 1)
    BY <1>8, <1>11
  <2>2. \/ due >= msecs + 0
        \/ l # <<>> /\ due >= msecs + l[1].time
        \/ due = msecs
    BY <1>7, <2>1 DEF Inserted
  <2>3. l # <<>> => l[1].time \in Nat
    <3>1. l # <<>> => 1 \in 1..Len(l)
      BY <1>5
    <3> QED
      BY <1>5, <3>1, EntryOf
  <2> QED
    BY <2>1, <2>2, <2>3
<1>13. ASSUME NEW i \in 1..(k + 1) PROVE Interval[m[i].h] <= Due(m, i)
  <2>1. CASE i <= pos
    <3>1. i \in 1..pos /\ i \in 1..k
      BY <1>8, <2>1
    <3>2. m[i].h = l[i].h /\ Due(m, i) = Due(l, i)
      BY <1>7, <3>1 DEF Inserted
    <3> QED
      BY <3>1, <3>2 DEF Underway
  <2>2. CASE i = pos + 1
    BY <1>3, <1>8, <1>12, <2>2
  <2>3. CASE i > pos + 1
    <3>1. PICK j \in (pos + 1)..Len(l) : i = j + 1 /\ j \in 1..k
      <4>1. i - 1 \in (pos + 1)..Len(l) /\ i = (i - 1) + 1 /\ i - 1 \in 1..k
        BY <1>5, <1>8, <2>3
      <4> QED
        BY <4>1
    <3>2. m[i].h = l[j].h /\ Due(l, j) <= Due(m, i)
      BY <1>7, <3>1 DEF Inserted
    <3>3. Interval[l[j].h] <= Due(l, j)
      BY <3>1 DEF Underway
    <3>4. Due(l, j) \in Nat /\ Due(m, i) \in Nat
      <4>1. j \in 0..Len(l)
        BY <1>5, <3>1
      <4> QED
        BY <1>5, <1>11, <4>1, DueFacts
    <3>5. Interval[l[j].h] \in Nat
      <4>1. j \in 1..Len(l)
        BY <1>5, <3>1
      <4> QED
        BY <1>5, <4>1, EntryOf, ConstantFacts
    <3> QED
      BY <3>2, <3>3, <3>4, <3>5
  <2> QED
    BY <1>8, <2>1, <2>2, <2>3
<1>14. Underway(m, k + 1)
  BY <1>8, <1>9, <1>10, <1>13 DEF Underway
<1> QED
  BY <1>2, <1>3, <1>4, <1>14 DEF Next0

(* The recursive definition of the list goes through these.                *)
LEMMA StartedRecursion ==
    /\ Started[0] = <<>>
    /\ \A i \in 1..Len(Cyclic) : Started[i] = Next0(Started[i - 1], i)
<1> DEFINE Runs(f, k) == /\ f \in [0..k -> Seq(Entries)] /\ f[0] = <<>>
                         /\ \A i \in 1..k : f[i] = Next0(f[i - 1], i)
<1>1. PICK n \in Nat : n = Len(Cyclic)
  BY ConstantFacts
<1>2. PICK S : S = {k \in 0..n : \E f : Runs(f, k)}
  OBVIOUS
<1>3. 0 \in S
  <2>1. Runs([i \in 0..0 |-> <<>>], 0)
    OBVIOUS
  <2> HIDE DEF Runs
  <2>2. \E f : Runs(f, 0)
    BY <2>1
  <2> QED
    BY <1>2, <2>2
<1>4. ASSUME NEW k \in 0..n, k < n, k \in S PROVE k + 1 \in S
  <2>1. PICK f : Runs(f, k)
    BY <1>2, <1>4
  <2>2. PICK g : g = [i \in 0..(k + 1) |-> IF i = k + 1 THEN Next0(f[k], k + 1) ELSE f[i]]
    OBVIOUS
  <2>3. k \in Nat /\ k + 1 \in 0..n
    BY <1>4
  <2>4. g \in [0..(k + 1) -> Seq(Entries)] /\ g[0] = <<>>
    <3>1. f[k] \in Seq(Entries)
      BY <2>1, <2>3
    <3>2. Next0(f[k], k + 1) \in Seq(Entries)
      <4>1. k + 1 \in 1..Len(Cyclic)
        BY <1>1, <1>4
      <4>2. PICK h \in Timers : h = Cyclic[k + 1]
        BY <4>1, ConstantFacts
      <4>3. Interval[h] \in Nat /\ 0 \in Nat
        BY ConstantFacts
      <4>4. PICK pos : Inserted(f[k], Insert(f[k], h, Interval[h], 0), h, Interval[h], 0, pos)
        BY <3>1, <4>3, InsertInserted
      <4> QED
        BY <4>2, <4>4 DEF Inserted, Next0
    <3> QED
      BY <2>1, <2>2, <2>3, <3>2
  <2>5. \A i \in 1..(k + 1) : g[i] = Next0(g[i - 1], i)
    <3> SUFFICES ASSUME NEW i \in 1..(k + 1) PROVE g[i] = Next0(g[i - 1], i)
      OBVIOUS
    <3>1. CASE i = k + 1
      <4>1. g[i] = Next0(f[k], k + 1) /\ i - 1 = k /\ g[k] = f[k]
        BY <2>2, <2>3, <3>1
      <4> QED
        BY <3>1, <4>1
    <3>2. CASE i # k + 1
      <4>1. i \in 1..k /\ g[i] = f[i] /\ g[i - 1] = f[i - 1]
        BY <2>2, <2>3, <3>2
      <4> QED
        BY <2>1, <4>1
    <3> QED
      BY <3>1, <3>2
  <2>6. Runs(g, k + 1)
    BY <2>4, <2>5
  <2> HIDE DEF Runs
  <2> QED
    BY <1>2, <2>3, <2>6
<1>5. PICK f : Runs(f, n)
  <2>1. \A i \in 0..n : i \in S
    BY <1>3, <1>4, UpTo
  <2>2. n \in S
    BY <2>1
  <2> QED
    BY <1>2, <2>2
<1>6. f = [i \in 0..n |-> IF i = 0 THEN <<>> ELSE Next0(f[i - 1], i)]
  <2>1. \A i \in 0..n : f[i] = IF i = 0 THEN <<>> ELSE Next0(f[i - 1], i)
    BY <1>5
  <2>2. f = [i \in 0..n |-> f[i]]
    BY <1>5
  <2> QED
    BY <2>1, <2>2
<1>7. f = [i \in 0..Len(Cyclic) |->
             IF i = 0 THEN <<>> ELSE Insert(f[i - 1], Cyclic[i], Interval[Cyclic[i]], 0)]
  BY <1>1, <1>6, Zenon DEF Next0
<1>8. Started = [i \in 0..Len(Cyclic) |->
             IF i = 0 THEN <<>> ELSE Insert(Started[i - 1], Cyclic[i], Interval[Cyclic[i]], 0)]
  BY <1>7, Zenon DEF Started
<1>9. PICK g : g = Started
  OBVIOUS
<1>10. g = [i \in 0..n |-> IF i = 0 THEN <<>> ELSE Next0(g[i - 1], i)]
  BY <1>1, <1>8, <1>9, Zenon DEF Next0
<1>11. \A i \in 0..n : g[i] = IF i = 0 THEN <<>> ELSE Next0(g[i - 1], i)
  BY <1>10, Zenon
<1>12. g[0] = <<>> /\ \A i \in 1..n : g[i] = Next0(g[i - 1], i)
  BY <1>11
<1> QED
  BY <1>1, <1>9, <1>12

(* The list the thread finds.                                              *)
LEMMA StartedAll == Underway(Started[Len(Cyclic)], Len(Cyclic))
<1>1. PICK n \in Nat : n = Len(Cyclic)
  BY ConstantFacts
<1>2. PICK S : S = {k \in 0..n : Underway(Started[k], k)}
  OBVIOUS
<1>3. 0 \in S
  <2>1. Started[0] = <<>>
    BY StartedRecursion
  <2>2. Underway(<<>>, 0)
    BY DEF Underway, Distinct, Names
  <2> QED
    BY <1>2, <2>1, <2>2
<1>4. ASSUME NEW k \in 0..n, k < n, k \in S PROVE k + 1 \in S
  <2>1. k + 1 \in 1..n /\ k + 1 \in 0..n /\ k + 1 - 1 = k /\ k \in Nat
    BY <1>4
  <2>2. Started[k + 1] = Next0(Started[k], k + 1)
    BY <1>1, <2>1, StartedRecursion
  <2>3. PICK l : l = Started[k] /\ Underway(l, k)
    BY <1>2, <1>4
  <2>4. Underway(Next0(l, k + 1), k + 1)
    BY <1>1, <1>4, <2>1, <2>3, StartOne
  <2> QED
    BY <1>2, <2>1, <2>2, <2>3, <2>4
<1>5. \A k \in 0..n : k \in S
  BY <1>3, <1>4, UpTo
<1>6. n \in S
  BY <1>5
<1> QED
  BY <1>1, <1>2, <1>6

(* The initial state.                                                      *)
LEMMA InitInv == Init => Inv
<1> SUFFICES ASSUME Init PROVE Inv
  OBVIOUS
<1>1. PICK n \in Nat : n = Len(Cyclic)
  BY ConstantFacts
<1>2. Underway(list, n)
  BY <1>1, StartedAll DEF Init
<1>3. /\ list \in Seq(Entries) /\ Len(list) = n /\ Distinct(list)
      /\ Names(list) = {Cyclic[j] : j \in 1..n}
      /\ \A i \in 1..n : Interval[list[i].h] <= Due(list, i)
  BY <1>2 DEF Underway
<1>4. age = [h \in Timers |-> 0] /\ since = 0
  BY DEF Init
<1>5. TypeOK
  <2>1. age \in [Timers -> Nat] /\ since \in Nat
    BY <1>4
  <2>2. list \in Seq([h : Timers, time : Nat]) /\ Len(list) <= Pool
    <3>1. Len(list) <= Pool
      BY <1>1, <1>3, ConstantFacts
    <3> QED
      BY <1>3, <3>1 DEF Entries
  <2>3. 0 \in 0..MaxBusy /\ 0 \in 0..MaxMsgs
    BY ConstantFacts
  <2> QED
    BY <2>1, <2>2, <2>3 DEF Init, TypeOK
<1>6. AgeInv
  <2>1. \A h \in Timers : age[h] <= Interval[h]
    BY <1>4, ConstantFacts
  <2>2. ASSUME NEW i \in 1..Len(list)
        PROVE  Interval[list[i].h] <= age[list[i].h] + Remaining(Due(list, i), since)
    <3>1. i \in 1..n /\ i \in 0..Len(list)
      BY <1>3
    <3>2. PICK due \in Nat : due = Due(list, i)
      BY <1>3, <3>1, DueFacts
    <3>3. Remaining(due, 0) = due
      BY DEF Remaining
    <3>4. list[i].h \in Timers
      BY <1>3, EntryOf
    <3>5. age[list[i].h] = 0
      BY <1>4, <3>4
    <3> QED
      BY <1>3, <1>4, <3>1, <3>2, <3>3, <3>5
  <2> QED
    BY <2>1, <2>2 DEF AgeInv, AgesCover
<1>7. ThreadInv
  BY DEF Init, ThreadInv, EarlyByLatenessOnly
<1>8. PlaceInv
  <2>1. Names(list) = Timers \ {Tcp}
    BY <1>1, <1>3, ConstantFacts DEF Timers
  <2> QED
    BY <1>3, <2>1, ConstantFacts DEF Init, PlaceInv
<1> QED
  BY <1>5, <1>6, <1>7, <1>8 DEF Inv

-----------------------------------------------------------------------------
(* The steps.                                                              *)

(* Division by the tick.                                                   *)
LEMMA TicksNat == \A m \in Nat : Ticks(m) \in Nat
  BY ConstantFacts DEF Ticks

(* What the type of the list says.                                         *)
LEMMA ListTyped == TypeOK => list \in Seq(Entries) /\ since \in Nat /\ age \in [Timers -> Nat]
  BY DEF TypeOK, Entries

(* The time until the next timeout.                                        *)
LEMMA SleepNat ==
    ASSUME TypeOK, list # <<>>
    PROVE  sys_timeouts_sleeptime \in Nat
<1>1. 1 \in 1..Len(list)
  BY ListTyped
<1>2. list[1].time \in Nat
  BY <1>1, ListTyped, EntryOf
<1> QED
  BY <1>2, ListTyped DEF sys_timeouts_sleeptime

(* A step that leaves the list and the time alone.                         *)
LEMMA SameTimes ==
    ASSUME Inv, list' = list, since' = since, age' = age
    PROVE  AgeInv'
  BY DEF Inv, AgeInv, AgesCover, Remaining, Due, DueTimes

(* The lwIP thread up to its wait, and what ends it.                       *)
LEMMA FetchInv == Inv /\ Fetch => Inv'
<1> SUFFICES ASSUME Inv, Fetch PROVE Inv'
  OBVIOUS
<1>1. /\ pc = "again" /\ pc' \in {"undefined", "fetch", "check"} /\ busy' = 0
      /\ UNCHANGED <<since, list, tcpActive, age, diff, handler, pcbs, mbox, app>>
  BY DEF Fetch, timeo
<1>2. wait' \in Nat \union {Forever}
  <2>1. CASE app = "inside"
    BY <2>1 DEF Fetch, Inv, TypeOK
  <2>2. CASE app # "inside" /\ list = <<>>
    BY <2>2 DEF Fetch
  <2>3. CASE app # "inside" /\ list # <<>>
    <3>1. Ticks(sys_timeouts_sleeptime) \in Nat
      BY <2>3, SleepNat, TicksNat DEF Inv
    <3> QED
      BY <2>3, <3>1 DEF Fetch
  <2> QED
    BY <2>1, <2>2, <2>3
<1>3. TypeOK'
  <2>1. 0 \in 0..MaxBusy
    BY ConstantFacts
  <2> QED
    BY <1>1, <1>2, <2>1 DEF Inv, TypeOK
<1>4. ThreadInv'
  BY <1>1 DEF Inv, ThreadInv, EarlyByLatenessOnly
<1>5. PlaceInv'
  BY <1>1 DEF Inv, PlaceInv, Distinct, Names
<1> QED
  BY <1>1, <1>3, <1>4, <1>5, SameTimes DEF Inv

(* A message is handled.                                                   *)
LEMMA MessageInv == Inv /\ Message => Inv'
<1> SUFFICES ASSUME Inv, Message PROVE Inv'
  OBVIOUS
<1>1. /\ pc = "fetch" /\ pc' = "again" /\ mbox > 0 /\ mbox' = mbox - 1
      /\ pcbs' = pcbs \/ pcbs' = FALSE
      /\ UNCHANGED <<since, list, tcpActive, age, wait, diff, handler, busy, app>>
  BY DEF Message, timeo
<1>2. TypeOK'
  <2>1. mbox' \in 0..MaxMsgs
    BY <1>1, ConstantFacts DEF Inv, TypeOK
  <2>2. pcbs' \in BOOLEAN
    BY <1>1 DEF Inv, TypeOK
  <2> QED
    BY <1>1, <2>1, <2>2 DEF Inv, TypeOK
<1>3. ThreadInv'
  BY <1>1 DEF Inv, ThreadInv, EarlyByLatenessOnly
<1>4. PlaceInv'
  <2>1. pcbs' => pcbs
    BY <1>1
  <2> QED
    BY <1>1, <2>1 DEF Inv, PlaceInv, Distinct, Names
<1> QED
  BY <1>1, <1>2, <1>3, <1>4, SameTimes DEF Inv

(* The wait ends without one.                                              *)
LEMMA FetchTimeoutInv == Inv /\ FetchTimeout => Inv'
<1> SUFFICES ASSUME Inv, FetchTimeout PROVE Inv'
  OBVIOUS
<1>1. /\ pc = "fetch" /\ pc' = "check"
      /\ UNCHANGED <<since, list, tcpActive, age, wait, diff, handler, busy, pcbs, mbox, app>>
  BY DEF FetchTimeout, timeo
<1>2. TypeOK'
  BY <1>1 DEF Inv, TypeOK
<1>3. ThreadInv'
  BY <1>1 DEF Inv, ThreadInv, EarlyByLatenessOnly
<1>4. PlaceInv'
  BY <1>1 DEF Inv, PlaceInv, Distinct, Names
<1> QED
  BY <1>1, <1>2, <1>3, <1>4, SameTimes DEF Inv

(* sys_check_timeouts takes the time once.                                 *)
LEMMA CheckInv == Inv /\ sys_check_timeouts => Inv'
<1> SUFFICES ASSUME Inv, sys_check_timeouts PROVE Inv'
  OBVIOUS
<1>1. /\ pc = "check"
      /\ \/ pc' = "again" /\ diff' = diff
         \/ pc' = "expire" /\ diff' = since
      /\ UNCHANGED <<since, list, tcpActive, age, wait, handler, busy, pcbs, mbox, app>>
  BY DEF sys_check_timeouts, timeo
<1>2. TypeOK'
  BY <1>1 DEF Inv, TypeOK
<1>3. ThreadInv'
  BY <1>1, ListTyped DEF Inv, ThreadInv, EarlyByLatenessOnly
<1>4. PlaceInv'
  BY <1>1 DEF Inv, PlaceInv, Distinct, Names
<1> QED
  BY <1>1, <1>2, <1>3, <1>4, SameTimes DEF Inv

(* The first timeout is taken off when it is due: its timer is as old as   *)
(* its interval.                                                           *)
LEMMA ExpireInv == Inv /\ Expire => Inv'
<1> SUFFICES ASSUME Inv, Expire PROVE Inv'
  OBVIOUS
<1>1. /\ pc = "expire" /\ handler = "none"
      /\ UNCHANGED <<tcpActive, age, wait, busy, pcbs, mbox, app>>
  BY DEF Expire, Inv, ThreadInv
<1>2. CASE pc' \in {"undefined", "again"} /\ UNCHANGED <<list, since, diff, handler>>
  <2>1. TypeOK'
    BY <1>1, <1>2 DEF Inv, TypeOK
  <2>2. ThreadInv'
    BY <1>1, <1>2 DEF Inv, ThreadInv, EarlyByLatenessOnly
  <2>3. PlaceInv'
    BY <1>1, <1>2 DEF Inv, PlaceInv, Distinct, Names
  <2> QED
    BY <1>1, <1>2, <2>1, <2>2, <2>3, SameTimes DEF Inv
<1>3. CASE /\ list # <<>> /\ Head(list).time <= diff
           /\ since' = since - Head(list).time /\ diff' = diff - Head(list).time
           /\ list' = Tail(list) /\ handler' = Head(list).h /\ pc' = "handler"
  <2>1. /\ list \in Seq(Entries) /\ since \in Nat /\ age \in [Timers -> Nat]
        /\ diff \in Nat /\ diff <= since /\ Distinct(list)
    BY <1>1, ListTyped DEF Inv, TypeOK, ThreadInv, PlaceInv
  <2>2. PICK n \in Nat : Len(list) = n + 1
    <3>1. PICK k \in Nat : k = Len(list) /\ k # 0
      BY <1>3, <2>1
    <3>2. k - 1 \in Nat /\ k = (k - 1) + 1
      BY <3>1
    <3> QED
      BY <3>1, <3>2
  <2>3. PICK t \in Nat, h \in Timers :
          t = list[1].time /\ h = list[1].h /\ Head(list) = list[1] /\ 1 \in 1..Len(list)
    <3>1. 1 \in 1..Len(list) /\ Head(list) = list[1]
      BY <2>1, <2>2
    <3> QED
      BY <2>1, <3>1, EntryOf
  <2>4. PICK l \in Seq(Entries) : l = list /\ l # <<>> /\ Distinct(l)
    BY <1>3, <2>1
  <2>5. /\ Tail(l) \in Seq(Entries) /\ Len(Tail(l)) = Len(l) - 1
        /\ \A i \in 1..(Len(l) - 1) : /\ Tail(l)[i] = l[i + 1]
                                     /\ Due(Tail(l), i) = Due(l, i + 1) - l[1].time
        /\ Names(Tail(l)) = Names(l) \ {l[1].h} /\ Distinct(Tail(l))
    BY <2>4, TailFacts, SMTT(30)
  <2>6. PICK m : m = list'
    OBVIOUS
  <2>7. /\ m \in Seq(Entries) /\ Len(m) = n
        /\ \A i \in 1..n : m[i] = list[i + 1] /\ Due(m, i) = Due(list, i + 1) - t
        /\ Names(m) = Names(list) \ {h} /\ Distinct(m)
    <3>1. Len(l) - 1 = n
      BY <2>2, <2>4
    <3>2. m = Tail(l)
      BY <1>3, <2>4, <2>6
    <3> QED
      BY <2>3, <2>4, <2>5, <3>1, <3>2
  <2>8. t <= diff /\ since' = since - t /\ diff' = diff - t /\ handler' = h
    BY <1>3, <2>3
  <2>9. since' \in Nat /\ diff' \in Nat /\ diff' <= since'
    BY <2>1, <2>8
  <2>10. age[h] = Interval[h]
    <3>1. Interval[h] <= age[h] + Remaining(Due(list, 1), since)
      BY <2>3 DEF Inv, AgeInv, AgesCover
    <3>2. Due(list, 1) = t
      BY <2>1, <2>3, FirstIsFirst
    <3>3. Remaining(t, since) = 0
      BY <2>1, <2>8 DEF Remaining
    <3>4. age[h] <= Interval[h] /\ age[h] \in Nat /\ Interval[h] \in Nat
      BY <2>1, ConstantFacts DEF Inv, AgeInv
    <3> QED
      BY <3>1, <3>2, <3>3, <3>4
  <2>11. TypeOK'
    <3>1. list' \in Seq([h : Timers, time : Nat]) /\ Len(list') <= Pool
      <4>1. Len(list') <= Pool
        BY <2>2, <2>6, <2>7, ConstantFacts DEF Inv, TypeOK
      <4> QED
        BY <2>6, <2>7, <4>1 DEF Entries
    <3> QED
      BY <1>1, <1>3, <2>8, <2>9, <3>1 DEF Inv, TypeOK
  <2>12. AgeInv'
    <3>1. ASSUME NEW i \in 1..n
          PROVE  Interval[m[i].h] <= age[m[i].h] + Remaining(Due(m, i), since - t)
      <4>1. i + 1 \in 1..Len(list) /\ i + 1 \in 0..Len(list)
        BY <2>2
      <4>2. Interval[list[i + 1].h] <= age[list[i + 1].h] + Remaining(Due(list, i + 1), since)
        BY <4>1 DEF Inv, AgeInv, AgesCover
      <4>3. PICK due \in Nat : due = Due(list, i + 1)
        BY <2>1, <4>1, DueFacts
      <4>4. Remaining(due - t, since - t) = Remaining(due, since)
        BY <2>1, <4>3 DEF Remaining
      <4> QED
        BY <2>7, <4>2, <4>3, <4>4
    <3>2. AgesCover(m, age, since - t)
      BY <2>7, <3>1 DEF AgesCover
    <3> QED
      BY <1>1, <2>6, <2>8, <3>2 DEF Inv, AgeInv
  <2>13. ThreadInv'
    <3>1. h # "none"
      BY ConstantFacts
    <3> QED
      BY <1>1, <1>3, <2>8, <2>9, <2>10, <3>1 DEF ThreadInv, EarlyByLatenessOnly
  <2>14. PlaceInv'
    <3>1. h \in Names(list) /\ "none" \notin Timers
      BY <2>3, ConstantFacts DEF Names
    <3> QED
      BY <1>1, <2>6, <2>7, <2>8, <3>1, ConstantFacts DEF Inv, PlaceInv
  <2> QED
    BY <2>11, <2>12, <2>13, <2>14 DEF Inv
<1> QED
  BY <1>2, <1>3 DEF Expire

(* The handler of a cyclic timer starts it again.                          *)
LEMMA CyclicInv == Inv /\ Handler /\ cyclic_timer => Inv'
<1> SUFFICES ASSUME Inv, Handler, cyclic_timer PROVE Inv'
  OBVIOUS
<1>1. /\ pc = "handler" /\ app = "none" /\ pc' = "expire" /\ handler' = "none"
      /\ handler # Tcp /\ sys_timeout(handler)
      /\ UNCHANGED <<wait, diff, busy, mbox, app, tcpActive, pcbs>>
  BY DEF Handler, cyclic_timer
<1>2. PICK h \in Timers : h = handler /\ h \notin Names(list)
  BY <1>1 DEF Inv, TypeOK, ThreadInv, PlaceInv
<1>3. TypeOK /\ AgeInv /\ PlaceInv /\ sys_timeout(h)
  BY <1>1, <1>2 DEF Inv
<1>4. /\ since' = since
      /\ list' \in Seq(Entries) /\ Len(list') <= Pool
      /\ Names(list') = Names(list) \union {h} /\ Distinct(list')
      /\ age' \in [Timers -> Nat]
      /\ \A g \in Timers : age'[g] <= Interval[g]
      /\ AgesCover(list', age', since)
  BY <1>2, <1>3, SysTimeout
<1>5. TypeOK'
  BY <1>1, <1>3, <1>4 DEF TypeOK, Entries
<1>6. AgeInv'
  BY <1>4 DEF AgeInv
<1>7. ThreadInv'
  BY <1>1, <1>4 DEF Inv, ThreadInv, EarlyByLatenessOnly
<1>8. PlaceInv'
  <2>1. "none" \notin Names(list')
    <3>1. "none" \notin Names(list)
      BY ListTyped, EntryOf, ConstantFacts DEF Names, Inv
    <3> QED
      BY <1>4, <3>1, ConstantFacts
  <2>2. \A g \in Timers \ {Tcp} : g \in Names(list')
    BY <1>2, <1>4 DEF Inv, PlaceInv
  <2>3. Tcp \in Names(list') <=> (Tcp \in Names(list) \/ Tcp = handler)
    BY <1>1, <1>2, <1>4
  <2>4. Tcp # "none"
    BY DEF Tcp
  <2> QED
    BY <1>1, <1>4, <2>1, <2>2, <2>3, <2>4 DEF Inv, PlaceInv
<1> QED
  BY <1>5, <1>6, <1>7, <1>8 DEF Inv

(* The TCP timer goes on or is switched off.                               *)
LEMMA TcpInv == Inv /\ Handler /\ tcpip_tcp_timer => Inv'
<1> SUFFICES ASSUME Inv, Handler, tcpip_tcp_timer PROVE Inv'
  OBVIOUS
<1>1. /\ pc = "handler" /\ app = "none" /\ pc' = "expire" /\ handler' = "none"
      /\ handler = Tcp
      /\ UNCHANGED <<wait, diff, busy, mbox, app>>
  BY DEF Handler, tcpip_tcp_timer
<1>2. Tcp \in Timers /\ Tcp \notin Names(list) /\ Tcp # "none" /\ tcpActive
  BY <1>1, ConstantFacts DEF Inv, PlaceInv, Tcp
<1>3. "none" \notin Names(list)
  BY ListTyped, EntryOf, ConstantFacts DEF Names, Inv
<1>4. CASE sys_timeout(Tcp) /\ UNCHANGED <<tcpActive, pcbs>>
  <2>1. TypeOK /\ AgeInv /\ PlaceInv
    BY DEF Inv
  <2>2. /\ since' = since
        /\ list' \in Seq(Entries) /\ Len(list') <= Pool
        /\ Names(list') = Names(list) \union {Tcp} /\ Distinct(list')
        /\ age' \in [Timers -> Nat]
        /\ \A g \in Timers : age'[g] <= Interval[g]
        /\ AgesCover(list', age', since)
    BY <1>2, <1>4, <2>1, SysTimeout
  <2>3. TypeOK'
    BY <1>1, <1>4, <2>1, <2>2 DEF TypeOK, Entries
  <2>4. AgeInv'
    BY <2>2 DEF AgeInv
  <2>5. ThreadInv'
    BY <1>1, <2>2 DEF Inv, ThreadInv, EarlyByLatenessOnly
  <2>6. PlaceInv'
    BY <1>1, <1>2, <1>3, <1>4, <2>2 DEF Inv, PlaceInv
  <2> QED
    BY <2>3, <2>4, <2>5, <2>6 DEF Inv
<1>5. CASE pcbs' = FALSE /\ tcpActive' = FALSE /\ UNCHANGED <<list, since, age>>
  <2>1. TypeOK'
    BY <1>1, <1>5 DEF Inv, TypeOK
  <2>2. ThreadInv'
    BY <1>1, <1>5 DEF Inv, ThreadInv, EarlyByLatenessOnly
  <2>3. PlaceInv'
    <3>1. Names(list') = Names(list) /\ Distinct(list')
      BY <1>5 DEF Inv, PlaceInv, Names, Distinct
    <3> QED
      BY <1>1, <1>2, <1>3, <1>5, <3>1 DEF Inv, PlaceInv
  <2> QED
    BY <1>5, <2>1, <2>2, <2>3, SameTimes DEF Inv
<1> QED
  BY <1>4, <1>5 DEF tcpip_tcp_timer, TcpTimerOff

(* The application thread starts the TCP timer.                            *)
LEMMA AppLockInv == Inv /\ AppLock => Inv'
<1> SUFFICES ASSUME Inv, AppLock PROVE Inv'
  OBVIOUS
<1>1. /\ app = "none" /\ app' = "locked" /\ pcbs' = TRUE
      /\ UNCHANGED <<since, list, tcpActive, age, pc, wait, diff, handler, busy, mbox>>
  BY DEF AppLock, timeo, thread
<1>2. TypeOK'
  BY <1>1 DEF Inv, TypeOK
<1>3. ThreadInv'
  BY <1>1 DEF Inv, ThreadInv, EarlyByLatenessOnly
<1>4. PlaceInv'
  BY <1>1 DEF Inv, PlaceInv, Distinct, Names
<1> QED
  BY <1>1, <1>2, <1>3, <1>4, SameTimes DEF Inv

(* tcp_timer_needed.                                                       *)
LEMMA NeededInv == Inv /\ tcp_timer_needed => Inv'
<1> SUFFICES ASSUME Inv, tcp_timer_needed PROVE Inv'
  OBVIOUS
<1>1. /\ app = "locked"
      /\ UNCHANGED <<since, list, age, pc, wait, diff, handler, busy, pcbs, mbox>>
  BY DEF tcp_timer_needed, thread
<1>2. \/ tcpActive /\ app' = "none" /\ tcpActive' = tcpActive
      \/ ~tcpActive /\ app' = "inside" /\ tcpActive' = TRUE
  BY DEF tcp_timer_needed
<1>3. TypeOK'
  BY <1>1, <1>2 DEF Inv, TypeOK
<1>4. ThreadInv'
  BY <1>1 DEF Inv, ThreadInv, EarlyByLatenessOnly
<1>5. PlaceInv'
  <2>1. Names(list') = Names(list) /\ Distinct(list')
    BY <1>1 DEF Inv, PlaceInv, Names, Distinct
  <2> QED
    BY <1>1, <1>2, <2>1 DEF Inv, PlaceInv
<1> QED
  BY <1>1, <1>3, <1>4, <1>5, SameTimes DEF Inv

(* Its sys_timeout.                                                        *)
LEMMA AppTimeoutInv == Inv /\ AppTimeout => Inv'
<1> SUFFICES ASSUME Inv, AppTimeout PROVE Inv'
  OBVIOUS
<1>1. /\ app = "inside" /\ app' = "none" /\ sys_timeout(Tcp)
      /\ UNCHANGED <<tcpActive, pc, wait, diff, handler, busy, pcbs, mbox>>
  BY DEF AppTimeout, thread
<1>2. Tcp \in Timers /\ Tcp \notin Names(list) /\ Tcp # handler /\ tcpActive
  BY <1>1, ConstantFacts DEF Inv, PlaceInv
<1>3. TypeOK /\ AgeInv /\ PlaceInv
  BY DEF Inv
<1>4. /\ since' = since
      /\ list' \in Seq(Entries) /\ Len(list') <= Pool
      /\ Names(list') = Names(list) \union {Tcp} /\ Distinct(list')
      /\ age' \in [Timers -> Nat] /\ \A g \in Timers \ {Tcp} : age'[g] = age[g]
      /\ \A g \in Timers : age'[g] <= Interval[g]
      /\ AgesCover(list', age', since)
  BY <1>1, <1>2, <1>3, SysTimeout
<1>5. TypeOK'
  BY <1>1, <1>3, <1>4 DEF TypeOK, Entries
<1>6. AgeInv'
  BY <1>4 DEF AgeInv
<1>7. ThreadInv'
  <2>1. pc = "handler" => handler \in Timers \ {Tcp}
    BY <1>2 DEF Inv, TypeOK, ThreadInv
  <2> QED
    BY <1>1, <1>4, <2>1 DEF Inv, ThreadInv, EarlyByLatenessOnly
<1>8. PlaceInv'
  BY <1>1, <1>2, <1>4 DEF Inv, PlaceInv
<1> QED
  BY <1>5, <1>6, <1>7, <1>8 DEF Inv

(* A frame.                                                                *)
LEMMA InpktInv == Inv /\ tcpip_inpkt => Inv'
<1> SUFFICES ASSUME Inv, tcpip_inpkt PROVE Inv'
  OBVIOUS
<1>1. /\ mbox < MaxMsgs /\ mbox' = mbox + 1
      /\ UNCHANGED <<since, list, tcpActive, age, pc, wait, diff, handler, busy, pcbs, app>>
  BY DEF tcpip_inpkt, HasRoom, timeo, thread
<1>2. TypeOK'
  <2>1. mbox' \in 0..MaxMsgs
    BY <1>1, ConstantFacts DEF Inv, TypeOK
  <2> QED
    BY <1>1, <2>1 DEF Inv, TypeOK
<1>3. ThreadInv'
  BY <1>1 DEF Inv, ThreadInv, EarlyByLatenessOnly
<1>4. PlaceInv'
  BY <1>1 DEF Inv, PlaceInv, Distinct, Names
<1> QED
  BY <1>1, <1>2, <1>3, <1>4, SameTimes DEF Inv

(* A tick: every timer is one older, or as old as its interval, and has to *)
(* wait one less at most.                                                  *)
LEMMA TickInv == Inv /\ Tick => Inv'
<1> SUFFICES ASSUME Inv, Tick PROVE Inv'
  OBVIOUS
<1>1. /\ since' = since + 1 /\ age' = [h \in Timers |-> Capped(age[h] + 1, h)]
      /\ wait' = IF Sleeping /\ wait > 0 THEN wait - 1 ELSE wait
      /\ busy' = IF Sleeping THEN busy ELSE busy + 1
      /\ Sleeping \/ busy < MaxBusy
      /\ UNCHANGED <<list, tcpActive, pc, diff, handler, pcbs, mbox, app>>
  BY DEF Tick
<1>2. list \in Seq(Entries) /\ since \in Nat /\ age \in [Timers -> Nat]
  BY ListTyped DEF Inv
<1>3. \A h \in Timers : /\ age[h] \in Nat /\ Interval[h] \in Nat /\ age[h] <= Interval[h]
                        /\ age'[h] = IF age[h] + 1 < Interval[h] THEN age[h] + 1 ELSE Interval[h]
  BY <1>1, <1>2, ConstantFacts DEF Capped, Inv, AgeInv
<1>4. age' \in [Timers -> Nat]
  BY <1>1, <1>3
<1>5. TypeOK'
  <2>1. wait' \in Nat \union {Forever}
    BY <1>1 DEF Inv, TypeOK, Forever
  <2>2. busy' \in 0..MaxBusy
    BY <1>1, ConstantFacts DEF Inv, TypeOK
  <2>3. since' \in Nat
    BY <1>1, <1>2
  <2> QED
    BY <1>1, <1>4, <2>1, <2>2, <2>3 DEF Inv, TypeOK
<1>6. AgeInv'
  <2>1. ASSUME NEW i \in 1..Len(list)
        PROVE  Interval[list[i].h] <= age'[list[i].h] + Remaining(Due(list, i), since + 1)
    <3>1. PICK h \in Timers : h = list[i].h
      BY <1>2, EntryOf
    <3>2. PICK due \in Nat : due = Due(list, i)
      <4>1. i \in 0..Len(list)
        BY <1>2
      <4> QED
        BY <1>2, <4>1, DueFacts
    <3>3. Interval[h] <= age[h] + Remaining(due, since)
      BY <3>1, <3>2 DEF Inv, AgeInv, AgesCover
    <3>4. PICK a \in Nat, b \in Nat, int \in Nat : a = age[h] /\ b = age'[h] /\ int = Interval[h]
      BY <1>3, <1>4
    <3>5. b = IF a + 1 < int THEN a + 1 ELSE int
      BY <1>3, <3>4
    <3>6. int <= b + Remaining(due, since + 1)
      BY <1>2, <3>2, <3>3, <3>4, <3>5 DEF Remaining
    <3> QED
      BY <3>1, <3>2, <3>4, <3>6
  <2>2. AgesCover(list, age', since + 1)
    BY <2>1 DEF AgesCover
  <2>3. \A h \in Timers : age'[h] <= Interval[h]
    BY <1>3
  <2> QED
    BY <1>1, <2>2, <2>3 DEF AgeInv
<1>7. ThreadInv'
  <2>1. pc \in {"expire", "handler"} => diff <= since'
    BY <1>1, <1>2 DEF Inv, TypeOK, ThreadInv
  <2>2. pc = "handler" => handler \in Timers
    BY DEF Inv, TypeOK, ThreadInv
  <2>3. pc = "handler" => age'[handler] = Interval[handler]
    BY <1>3, <2>2 DEF Inv, ThreadInv, EarlyByLatenessOnly
  <2> QED
    BY <1>1, <2>1, <2>3 DEF Inv, ThreadInv, EarlyByLatenessOnly
<1>8. PlaceInv'
  BY <1>1 DEF Inv, PlaceInv, Distinct, Names
<1> QED
  BY <1>5, <1>6, <1>7, <1>8 DEF Inv

(* Nothing changes.                                                        *)
LEMMA StutterInv == Inv /\ UNCHANGED vars => Inv'
  BY SMTT(30) DEF vars, timeo, thread, Inv, TypeOK, AgeInv, AgesCover, Remaining, Due, DueTimes, ThreadInv,
         EarlyByLatenessOnly, PlaceInv, Distinct, Names

(* Every step keeps the invariant.                                         *)
LEMMA NextInv == Inv /\ [Next]_vars => Inv'
  BY FetchInv, MessageInv, FetchTimeoutInv, CheckInv, ExpireInv, CyclicInv, TcpInv, AppLockInv,
     NeededInv, AppTimeoutInv, InpktInv, TickInv, StutterInv
  DEF Next, LwipThread, Handler, Undefined

-----------------------------------------------------------------------------
(* A set of one or of no place has so many elements.                       *)
LEMMA CopiesOf ==
    ASSUME TypeOK, PlaceInv, NEW h \in Timers
    PROVE  Copies(h) = (IF h \in Names(list) THEN 1 ELSE 0) + (IF handler = h THEN 1 ELSE 0)
<1>1. list \in Seq(Entries)
  BY ListTyped
<1>2. PICK S : S = {i \in DOMAIN list : list[i].h = h}
  OBVIOUS
<1>3. DOMAIN list = 1..Len(list)
  BY <1>1
<1>4. CASE h \in Names(list)
  <2>1. PICK i \in 1..Len(list) : list[i].h = h
    BY <1>4 DEF Names
  <2>2. S = {i}
    BY <1>2, <1>3, <2>1 DEF PlaceInv, Distinct
  <2>3. Cardinality(S) = 1
    BY <2>2, FS_Singleton
  <2> QED
    BY <1>2, <1>4, <2>3 DEF Copies
<1>5. CASE h \notin Names(list)
  <2>1. S = {}
    BY <1>2, <1>3, <1>5 DEF Names
  <2>2. Cardinality(S) = 0
    BY <2>1, FS_EmptySet
  <2> QED
    BY <1>2, <1>5, <2>2 DEF Copies
<1> QED
  BY <1>4, <1>5

(* The invariant gives what the run checks.                                *)
LEMMA InvConsistent == Inv => TimersConsistent
<1> SUFFICES ASSUME Inv PROVE NoTimerLost
  BY DEF Inv, TimersConsistent
<1>1. TypeOK /\ PlaceInv
  BY DEF Inv
<1>2. \A h \in Timers \ {Tcp} : Copies(h) = 1
  BY <1>1, CopiesOf DEF PlaceInv
<1>3. Copies(Tcp) = IF tcpActive /\ app # "inside" THEN 1 ELSE 0
  BY <1>1, CopiesOf, ConstantFacts DEF PlaceInv
<1> QED
  BY <1>1, <1>2, <1>3 DEF NoTimerLost, PlaceInv

(* The inductive invariant holds in every behaviour.                       *)
THEOREM TimeoutsInvariance == Spec => []Inv
  BY InitInv, NextInv, PTL DEF Spec

(* No timer of timeouts.c is lost or started twice, over starts by two     *)
(* threads and expiries, for any table of cyclic timers and any lateness.  *)
THEOREM TimersAreKept == Spec => []TimersConsistent
  BY TimeoutsInvariance, InvConsistent, PTL

(* No handler is called before its interval is over, but for the ticks the *)
(* first timeout was overdue when it was started.                          *)
THEOREM NoTimerEarly == Spec => []EarlyByLatenessOnly
<1>1. Inv => EarlyByLatenessOnly
  BY DEF Inv, ThreadInv
<1> QED
  BY <1>1, TimeoutsInvariance, PTL

(* When the application thread starts the TCP timer, no other one comes    *)
(* forward, and each is put off by the time since the list was last looked *)
(* at, if at all.                                                          *)
THEOREM StartingKeepsOthers == Spec => OthersKeepTime
<1> DEFINE Kept == \A i \in DOMAIN list :
                     LET old == Due(list, i)  new == DueOf(list', list[i].h)
                     IN  old <= new /\ new <= old + since
<1>1. Inv /\ [Next]_vars => [AppTimeout => Kept]_vars
  <2> SUFFICES ASSUME Inv, AppTimeout PROVE Kept
    OBVIOUS
  <2>1. sys_timeout(Tcp) /\ app = "inside"
    BY DEF AppTimeout
  <2>2. Tcp \in Timers /\ Tcp \notin Names(list) /\ TypeOK /\ AgeInv /\ PlaceInv
    BY <2>1, ConstantFacts DEF Inv, PlaceInv
  <2>3. list \in Seq(Entries) /\ since \in Nat
    BY <2>2, ListTyped
  <2>4. PICK pos : Inserted(list, list', Tcp, Interval[Tcp], since, pos)
    BY <2>1, <2>2, SysTimeout
  <2>5. PICK m \in Seq(Entries) : m = list' /\ Distinct(m)
    BY <2>1, <2>2, SysTimeout
  <2>6. PICK n \in Nat : n = Len(list) /\ DOMAIN list = 1..n /\ Len(m) = n + 1 /\ DOMAIN m = 1..(n + 1)
    BY <2>3, <2>4, <2>5 DEF Inserted
  <2>7. pos \in 0..n
    BY <2>4, <2>6 DEF Inserted
  <2>8. ASSUME NEW i \in 1..n
        PROVE  \E j \in 1..(n + 1) : /\ m[j].h = list[i].h
                                     /\ Due(list, i) <= Due(m, j) /\ Due(m, j) <= Due(list, i) + since
    <3>1. Due(list, i) \in Nat
      <4>1. i \in 0..Len(list)
        BY <2>6
      <4> QED
        BY <2>3, <4>1, DueFacts
    <3>2. CASE i <= pos
      <4>1. i \in 1..pos /\ i \in 1..(n + 1)
        BY <2>7, <3>2
      <4>2. m[i].h = list[i].h /\ Due(m, i) = Due(list, i)
        BY <2>4, <2>5, <4>1 DEF Inserted
      <4>3. Due(list, i) <= Due(list, i) /\ Due(list, i) <= Due(list, i) + since
        BY <2>3, <3>1
      <4> QED
        BY <4>1, <4>2, <4>3
    <3>3. CASE i > pos
      <4>1. i \in (pos + 1)..Len(list) /\ i + 1 \in 1..(n + 1)
        BY <2>6, <2>7, <3>3
      <4> QED
        BY <2>4, <2>5, <4>1 DEF Inserted
    <3> QED
      BY <2>7, <3>2, <3>3
  <2>9. ASSUME NEW i \in 1..n
        PROVE  Due(list, i) <= DueOf(m, list[i].h) /\ DueOf(m, list[i].h) <= Due(list, i) + since
    <3>1. PICK j \in 1..(n + 1) : /\ m[j].h = list[i].h
                                  /\ Due(list, i) <= Due(m, j) /\ Due(m, j) <= Due(list, i) + since
      BY <2>8
    <3>2. PICK c : c = CHOOSE x \in DOMAIN m : m[x].h = list[i].h
      OBVIOUS
    <3>3. c \in 1..(n + 1) /\ m[c].h = list[i].h
      BY <2>6, <3>1, <3>2
    <3>4. c = j
      BY <2>5, <2>6, <3>1, <3>3 DEF Distinct
    <3>5. DueOf(m, list[i].h) = Due(m, c)
      BY <3>2 DEF DueOf
    <3> QED
      BY <3>1, <3>4, <3>5
  <2> QED
    BY <2>5, <2>6, <2>9
<1> QED
  BY <1>1, TimeoutsInvariance, PTL DEF OthersKeepTime, Spec

=============================================================================
