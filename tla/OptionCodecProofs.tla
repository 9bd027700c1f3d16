-------------------------- MODULE OptionCodecProofs --------------------------
(***************************************************************************)
(* Theorems about OptionCodec for an area of any size that holds any bytes *)
(* and any number of refused mallocs.                                      *)
(***************************************************************************)
EXTENDS OptionCodec, WellFoundedInduction, TLAPS

(* The parser starts with the first option and never stands on an END.     *)
ParseInv ==
    /\ pc = "first" => rp = 1 /\ opts = <<>>
    /\ pc = "parse" => rp <= AreaSize /\ area[rp] # END

(* It stands where the area, read from its first byte, has its option      *)
(* k + 1, and none of the k options before was an END.                     *)
AtOption(k) ==
    /\ Starts(area)[k] = rp /\ 2 * k < rp
    /\ \A j \in 0..(k - 1) : Starts(area)[j] <= AreaSize /\ area[Starts(area)[j]] # END
WalkInv == pc \in {"first", "parse"} => \E k \in 0..AreaSize : AtOption(k)

(* Until a handler has run there is no reply.                              *)
EmptyInv ==
    pc \in {"first", "parse", "dispatch"} =>
        reply = <<>> /\ next = 1 /\ wp = 1 /\ out = [i \in 1..AreaSize |-> 0]

(* A reply list is the one of a handler.                                   *)
ReplyInv ==
    /\ pc = "serialize" => reply # <<>>
    /\ reply # <<>> => \E k \in {DHCP_OFFER, DHCP_ACK} : reply = ReplyList(k, opts)

(* The options before next have been written, one behind the other, and    *)
(* behind them the area is as it was.                                      *)
SerialInv ==
    pc = "serialize" =>
        /\ next - 1 <= Len(reply) /\ wp = Written(reply)[next - 1]
        /\ \A i \in 1..(next - 1) : /\ StandsAt(reply[i], out, Written(reply)[i - 1])
                                    /\ Written(reply)[i] <= wp
        /\ \A i \in wp..AreaSize : out[i] = 0

ParserInv == ParsedIsPrefix /\ ReadsPastOnlyWithoutEnd /\ ParseInv /\ WalkInv
WriterInv == EmptyInv /\ ReplyInv /\ SerialInv /\ ReplyFits /\ ReplyReadsBack
Inv == TypeOK /\ ParserInv /\ WriterInv
-----------------------------------------------------------------------------
(* Induction and recursion over 0..n, stated over sets and functions.      *)

(* A set of naturals that is not empty has a least element.                *)
LEMMA LeastNumber ==
    ASSUME NEW T \in SUBSET Nat, T # {}
    PROVE  \E x \in T : \A y \in T : x <= y
<1>1. PICK R : R = OpToRel(<, Nat)
  OBVIOUS
<1>2. IsWellFoundedOn(R, Nat)
  BY <1>1, NatLessThanWellFounded
<1>3. PICK x \in T : \A y \in T : ~(<<y, x>> \in R)
  BY <1>2, WFMin
<1>4. \A a, b \in Nat : a < b => <<a, b>> \in R
  BY <1>1 DEF OpToRel
<1>5. \A y \in T : ~(y < x)
  BY <1>3, <1>4
<1> QED
  BY <1>5

(* What holds of 0 and is passed on holds up to n; S has the numbers of    *)
(* which it holds.                                                         *)
LEMMA Stepwise ==
    ASSUME NEW n \in Nat, NEW S, 0 \in S, \A i \in 0..n : i < n /\ i \in S => i + 1 \in S
    PROVE  \A i \in 0..n : i \in S
<1>1. PICK T : T = {i \in 0..n : i \notin S}
  OBVIOUS
<1>2. T \in SUBSET Nat
  BY <1>1
<1>3. SUFFICES ASSUME T # {} PROVE FALSE
  BY <1>1
<1>4. PICK x \in T : \A y \in T : x <= y
  BY <1>2, <1>3, LeastNumber
<1>5. x \in 0..n /\ x \notin S /\ x # 0
  BY <1>1
<1>6. x - 1 \in 0..n /\ x - 1 < n /\ x - 1 + 1 = x /\ ~(x <= x - 1)
  BY <1>5
<1>7. x - 1 \in S
  BY <1>1, <1>4, <1>6
<1> QED
  BY <1>5, <1>6, <1>7

(* A function on 0..n may be given by its first value and by steps.        *)
IsStep(G, n, S) == G \in [1..n -> [S -> S]]
Follows(f, G, v, n, S) ==
    f \in [0..n -> S] /\ f[0] = v /\ \A i \in 1..n : f[i] = G[i][f[i - 1]]
LEMMA Recursion ==
    ASSUME NEW n \in Nat, NEW S, NEW v \in S, NEW G, IsStep(G, n, S)
    PROVE  \E f : Follows(f, G, v, n, S)
<1> DEFINE Upto(f, k) == f \in [0..k -> S] /\ f[0] = v /\ \A i \in 1..k : f[i] = G[i][f[i - 1]]
<1>1. PICK T : T = {k \in 0..n : \E f : Upto(f, k)}
  OBVIOUS
<1>2. 0 \in T
  <2>1. Upto([i \in 0..0 |-> v], 0)
    OBVIOUS
  <2> HIDE DEF Upto
  <2>2. 0 \in 0..n
    OBVIOUS
  <2> QED
    BY <1>1, <2>1, <2>2
<1>3. ASSUME NEW k \in 0..n, k < n, k \in T PROVE k + 1 \in T
  <2>1. PICK f : Upto(f, k)
    <3> HIDE DEF Upto
    <3> QED
      BY <1>1, <1>3
  <2>2. k \in Nat /\ k + 1 \in 1..n /\ k + 1 \in 0..n /\ k \in 0..k
    BY <1>3
  <2>3. f[k] \in S
    BY <2>1, <2>2
  <2>4. PICK x \in S : x = G[k + 1][f[k]]
    BY <2>2, <2>3 DEF IsStep
  <2>5. PICK g : g = [i \in 0..(k + 1) |-> IF i = k + 1 THEN x ELSE f[i]]
    OBVIOUS
  <2>6. g \in [0..(k + 1) -> S] /\ g[0] = v /\ g[k + 1] = x
    BY <2>1, <2>2, <2>5
  <2>7. \A i \in 0..k : g[i] = f[i]
    BY <2>2, <2>5
  <2>8. \A i \in 1..(k + 1) : g[i] = G[i][g[i - 1]]
    <3> SUFFICES ASSUME NEW i \in 1..(k + 1) PROVE g[i] = G[i][g[i - 1]]
      OBVIOUS
    <3>1. CASE i = k + 1
      <4>1. i - 1 = k /\ g[k] = f[k]
        BY <2>2, <2>7, <3>1
      <4> QED
        BY <2>4, <2>6, <3>1, <4>1, Zenon
    <3>2. CASE i # k + 1
      <4>1. i \in 1..k /\ i \in 0..k /\ i - 1 \in 0..k
        BY <2>2, <3>2
      <4> QED
        BY <2>1, <2>7, <4>1, Zenon
    <3> QED
      BY <3>1, <3>2
  <2>9. Upto(g, k + 1)
    BY <2>6, <2>8
  <2> HIDE DEF Upto
  <2> QED
    BY <1>1, <2>2, <2>9
<1>4. \A i \in 0..n : i \in T
  BY <1>2, <1>3, Stepwise
<1>5. \E f : Upto(f, n)
  <2> HIDE DEF Upto
  <2>1. n \in 0..n
    OBVIOUS
  <2> QED
    BY <1>1, <1>4, <2>1
<1> QED
  BY <1>5 DEF Follows

(* A function given by steps has the type of its steps.                    *)
LEMMA StepsType ==
    ASSUME NEW n \in Nat, NEW S, NEW G \in [1..n -> [S -> S]], NEW g, g[0] \in S,
           \A i \in 1..n : g[i - 1] \in S => g[i] = G[i][g[i - 1]]
    PROVE  \A i \in 0..n : g[i] \in S
<1>1. PICK T : T = {i \in 0..n : g[i] \in S}
  OBVIOUS
<1>2. 0 \in T
  BY <1>1
<1>3. ASSUME NEW k \in 0..n, k < n, k \in T PROVE k + 1 \in T
  <2>1. k + 1 \in 1..n /\ k + 1 \in 0..n /\ k + 1 - 1 = k
    BY <1>3
  <2>2. g[k] \in S
    BY <1>1, <1>3
  <2>3. g[k + 1] = G[k + 1][g[k]]
    BY <2>1, <2>2
  <2>4. g[k + 1] \in S
    BY <2>1, <2>2, <2>3
  <2> QED
    BY <1>1, <2>1, <2>4
<1> QED
  BY <1>1, <1>2, <1>3, Stepwise

-----------------------------------------------------------------------------
(* What the recursive definitions compute.                                 *)

(* Offsets: one option behind the other.                                   *)
LEMMA OffsetsSteps ==
    ASSUME NEW room \in Seq(Nat)
    PROVE  /\ Offsets(room)[0] = 1
           /\ \A i \in 0..Len(room) : Offsets(room)[i] \in Nat
           /\ \A i \in 1..Len(room) : Offsets(room)[i] = Offsets(room)[i - 1] + room[i]
<1>1. PICK n \in Nat : n = Len(room)
  OBVIOUS
<1>2. \A i \in 1..n : room[i] \in Nat
  BY <1>1
<1>3. PICK G : G = [i \in 1..n |-> [x \in Nat |-> x + room[i]]]
  OBVIOUS
<1>4. G \in [1..n -> [Nat -> Nat]] /\ \A i \in 1..n : \A x \in Nat : G[i][x] = x + room[i]
  <2>1. \A i \in 1..n : \A x \in Nat : x + room[i] \in Nat
    BY <1>2
  <2>2. \A i \in 1..n : [x \in Nat |-> x + room[i]] \in [Nat -> Nat]
    BY <2>1
  <2>3. G \in [1..n -> [Nat -> Nat]]
    BY <1>3, <2>2
  <2>4. \A i \in 1..n : G[i] = [x \in Nat |-> x + room[i]]
    BY <1>3
  <2> QED
    BY <2>3, <2>4
<1>5. PICK f \in [0..n -> Nat] : f[0] = 1 /\ \A i \in 1..n : f[i] = G[i][f[i - 1]]
  <2>1. PICK v \in Nat : v = 1
    OBVIOUS
  <2>2. IsStep(G, n, Nat)
    BY <1>4, Zenon DEF IsStep
  <2>3. \E h : Follows(h, G, v, n, Nat)
    BY <2>2, Recursion, Zenon
  <2> QED
    BY <2>1, <2>3 DEF Follows
<1>6. f = [k \in 0..Len(room) |-> IF k = 0 THEN 1 ELSE f[k - 1] + room[k]]
  <2>1. \A k \in 0..n : k = 0 \/ (k \in 1..n /\ k - 1 \in 0..n /\ k # 0)
    OBVIOUS
  <2>2. \A k \in 1..n : f[k] = f[k - 1] + room[k]
    <3>1. \A k \in 1..n : k - 1 \in 0..n
      OBVIOUS
    <3>2. \A k \in 1..n : f[k - 1] \in Nat
      BY <3>1
    <3> QED
      BY <1>4, <1>5, <3>2, Zenon
  <2>3. \A k \in 0..n : f[k] = IF k = 0 THEN 1 ELSE f[k - 1] + room[k]
    BY <1>5, <2>1, <2>2
  <2>4. f = [k \in 0..n |-> f[k]]
    OBVIOUS
  <2> QED
    BY <1>1, <2>3, <2>4, Zenon
<1>7. Offsets(room) = [k \in 0..Len(room) |-> IF k = 0 THEN 1 ELSE Offsets(room)[k - 1] + room[k]]
  BY <1>6, Zenon DEF Offsets
<1>8. PICK g : g = Offsets(room)
  OBVIOUS
<1>9. \A k \in 0..n : g[k] = IF k = 0 THEN 1 ELSE g[k - 1] + room[k]
  BY <1>1, <1>7, <1>8, Zenon
<1>10. g[0] = 1 /\ \A i \in 1..n : g[i] = g[i - 1] + room[i]
  <2>1. 0 \in 0..n /\ \A i \in 1..n : i \in 0..n /\ i # 0
    OBVIOUS
  <2> QED
    BY <1>9, <2>1, Zenon
<1>11. \A i \in 0..n : g[i] \in Nat
  <2>1. \A i \in 1..n : g[i - 1] \in Nat => g[i] = G[i][g[i - 1]]
    BY <1>4, <1>10
  <2>2. g[0] \in Nat
    BY <1>10
  <2> QED
    BY <1>4, <2>1, <2>2, StepsType
<1> QED
  BY <1>1, <1>8, <1>10, <1>11, Zenon

(* Starts: where options start when an area is read.                       *)
LEMMA StartsSteps ==
    ASSUME NEW a \in [1..AreaSize -> Byte]
    PROVE  /\ Starts(a)[0] = 1
           /\ \A i \in 0..AreaSize : Starts(a)[i] \in Nat
           /\ \A i \in 1..AreaSize :
                Starts(a)[i] = IF Starts(a)[i - 1] + 1 > AreaSize THEN AreaSize + 1
                               ELSE Starts(a)[i - 1] + 2 + a[Starts(a)[i - 1] + 1]
<1>1. PICK n \in Nat : n = AreaSize
  BY CodecAssumption
<1>2. PICK H \in [Nat -> Nat] :
         \A x \in Nat : H[x] = IF x + 1 > AreaSize THEN AreaSize + 1 ELSE x + 2 + a[x + 1]
  <2>1. PICK H : H = [x \in Nat |-> IF x + 1 > AreaSize THEN AreaSize + 1 ELSE x + 2 + a[x + 1]]
    OBVIOUS
  <2>2. \A x \in Nat : ~(x + 1 > AreaSize) => a[x + 1] \in Nat
    <3>1. \A y \in 1..AreaSize : a[y] \in Nat
      <4>1. \A y \in 1..AreaSize : a[y] \in Byte
        OBVIOUS
      <4>2. \A b \in Byte : b \in Nat
        BY DEF Byte
      <4> QED
        BY <4>1, <4>2
    <3>2. \A x \in Nat : ~(x + 1 > AreaSize) => x + 1 \in 1..AreaSize
      BY CodecAssumption
    <3> QED
      BY <3>1, <3>2
  <2>3. \A x \in Nat : (IF x + 1 > AreaSize THEN AreaSize + 1 ELSE x + 2 + a[x + 1]) \in Nat
    BY <2>2, CodecAssumption
  <2>4. H \in [Nat -> Nat]
    BY <2>1, <2>3
  <2> QED
    BY <2>1, <2>4
<1>3. PICK G \in [1..n -> [Nat -> Nat]] : \A i \in 1..n : G[i] = H
  <2>1. [i \in 1..n |-> H] \in [1..n -> [Nat -> Nat]]
    OBVIOUS
  <2> QED
    BY <2>1
<1>4. PICK f \in [0..n -> Nat] : f[0] = 1 /\ \A i \in 1..n : f[i] = G[i][f[i - 1]]
  <2>1. PICK v \in Nat : v = 1
    OBVIOUS
  <2>2. IsStep(G, n, Nat)
    BY Zenon DEF IsStep
  <2>3. \E h : Follows(h, G, v, n, Nat)
    BY <2>2, Recursion, Zenon
  <2> QED
    BY <2>1, <2>3 DEF Follows
<1>5. f = [k \in 0..AreaSize |-> IF k = 0 THEN 1
             ELSE IF f[k - 1] + 1 > AreaSize THEN AreaSize + 1 ELSE f[k - 1] + 2 + a[f[k - 1] + 1]]
  <2>1. \A k \in 0..n : k = 0 \/ (k \in 1..n /\ k - 1 \in 0..n /\ k # 0)
    OBVIOUS
  <2>2. \A k \in 1..n : f[k] = H[f[k - 1]] /\ f[k - 1] \in Nat
    <3>1. \A k \in 1..n : k - 1 \in 0..n
      OBVIOUS
    <3>2. \A k \in 1..n : f[k - 1] \in Nat
      BY <3>1
    <3> QED
      BY <1>3, <1>4, <3>2, Zenon
  <2>3. \A k \in 0..n : f[k] = IF k = 0 THEN 1
             ELSE IF f[k - 1] + 1 > AreaSize THEN AreaSize + 1 ELSE f[k - 1] + 2 + a[f[k - 1] + 1]
    BY <1>2, <1>4, <2>1, <2>2, Zenon
  <2>4. f = [k \in 0..n |-> f[k]]
    OBVIOUS
  <2> QED
    BY <1>1, <2>3, <2>4, Zenon
<1>6. Starts(a) = [k \in 0..AreaSize |-> IF k = 0 THEN 1
             ELSE IF Starts(a)[k - 1] + 1 > AreaSize THEN AreaSize + 1
             ELSE Starts(a)[k - 1] + 2 + a[Starts(a)[k - 1] + 1]]
  BY <1>5, Zenon DEF Starts
<1>7. PICK g : g = Starts(a)
  OBVIOUS
<1>8. \A k \in 0..n : g[k] = IF k = 0 THEN 1
             ELSE IF g[k - 1] + 1 > AreaSize THEN AreaSize + 1 ELSE g[k - 1] + 2 + a[g[k - 1] + 1]
  BY <1>1, <1>6, <1>7, Zenon
<1>9. g[0] = 1 /\ \A i \in 1..n : g[i] = IF g[i - 1] + 1 > AreaSize THEN AreaSize + 1
                                         ELSE g[i - 1] + 2 + a[g[i - 1] + 1]
  <2>1. 0 \in 0..n /\ \A i \in 1..n : i \in 0..n /\ i # 0
    OBVIOUS
  <2> QED
    BY <1>8, <2>1, Zenon
<1>10. \A i \in 0..n : g[i] \in Nat
  <2>1. \A i \in 1..n : g[i - 1] \in Nat => g[i] = G[i][g[i - 1]]
    BY <1>2, <1>3, <1>9, Zenon
  <2>2. g[0] \in Nat
    BY <1>9
  <2> QED
    BY <2>1, <2>2, StepsType
<1> QED
  BY <1>1, <1>7, <1>9, <1>10, Zenon

(* Options that take the same room stand at the same places.               *)
LEMMA OffsetsPrefix ==
    ASSUME NEW r \in Seq(Nat), NEW q \in Seq(Nat), Len(r) <= Len(q),
           \A i \in 1..Len(r) : q[i] = r[i]
    PROVE  \A i \in 0..Len(r) : Offsets(q)[i] = Offsets(r)[i]
<1>1. PICK n \in Nat, m \in Nat : n = Len(r) /\ m = Len(q) /\ n <= m
  OBVIOUS
<1>2. PICK f : f = Offsets(r)
  OBVIOUS
<1>3. PICK g : g = Offsets(q)
  OBVIOUS
<1>4. f[0] = 1 /\ \A i \in 1..n : f[i] = f[i - 1] + r[i]
  BY <1>1, <1>2, OffsetsSteps
<1>5. g[0] = 1 /\ \A i \in 1..m : g[i] = g[i - 1] + q[i]
  BY <1>1, <1>3, OffsetsSteps
<1>6. PICK T : T = {i \in 0..n : g[i] = f[i]}
  OBVIOUS
<1>7. 0 \in T
  BY <1>4, <1>5, <1>6
<1>8. ASSUME NEW k \in 0..n, k < n, k \in T PROVE k + 1 \in T
  <2>1. k + 1 \in 1..n /\ k + 1 \in 1..m /\ k + 1 \in 0..n /\ k + 1 - 1 = k
    BY <1>1, <1>8
  <2>2. g[k + 1] = g[k] + q[k + 1] /\ f[k + 1] = f[k] + r[k + 1]
    BY <1>4, <1>5, <2>1
  <2>3. g[k] = f[k] /\ q[k + 1] = r[k + 1]
    BY <1>1, <1>6, <1>8, <2>1
  <2> QED
    BY <1>6, <2>1, <2>2, <2>3
<1>9. \A i \in 0..n : g[i] = f[i]
  BY <1>6, <1>7, <1>8, Stepwise
<1> QED
  BY <1>1, <1>2, <1>3, <1>9, Zenon

(* KnownOf: the parameters asked for that the server knows.                *)
Codes == DOMAIN Answers

LEMMA OneMore ==
    ASSUME NEW q \in Seq(Codes), NEW c
    PROVE  (IF c \in Codes THEN Append(q, c) ELSE q) \in Seq(Codes)
<1>1. CASE c \in Codes
  <2>1. Append(q, c) \in Seq(Codes)
    BY <1>1
  <2> QED
    BY <1>1, <2>1
<1>2. CASE c \notin Codes
  BY <1>2
<1> QED
  BY <1>1, <1>2

LEMMA KnownSteps ==
    ASSUME NEW s, Len(s) \in Nat
    PROVE  /\ KnownOf(s)[0] = <<>>
           /\ \A i \in 0..Len(s) : KnownOf(s)[i] \in Seq(Codes)
           /\ \A i \in 1..Len(s) :
                KnownOf(s)[i] = IF s[i] \in Codes THEN Append(KnownOf(s)[i - 1], s[i])
                                ELSE KnownOf(s)[i - 1]
<1>1. PICK n \in Nat : n = Len(s)
  OBVIOUS
<1>2. PICK Q : Q = Seq(Codes)
  OBVIOUS
<1>3. PICK G : G = [i \in 1..n |-> [x \in Q |-> IF s[i] \in Codes THEN Append(x, s[i]) ELSE x]]
  OBVIOUS
<1>4. \A i \in 1..n : \A x \in Q : (IF s[i] \in Codes THEN Append(x, s[i]) ELSE x) \in Q
  BY <1>2, OneMore, Zenon
<1>5. IsStep(G, n, Q)
  BY <1>3, <1>4, Zenon DEF IsStep
<1>6. \A i \in 1..n : \A x \in Q : G[i][x] = IF s[i] \in Codes THEN Append(x, s[i]) ELSE x
  BY <1>3, Zenon
<1>7. PICK v \in Q : v = <<>>
  <2>1. <<>> \in Seq(Codes)
    OBVIOUS
  <2> QED
    BY <1>2, <2>1, Zenon
<1>8. PICK f : Follows(f, G, v, n, Q)
  BY <1>5, Recursion, Zenon
<1>9. f = [k \in 0..Len(s) |-> IF k = 0 THEN <<>>
             ELSE IF s[k] \in DOMAIN Answers THEN Append(f[k - 1], s[k]) ELSE f[k - 1]]
  <2>1. \A k \in 0..n : k = 0 \/ (k \in 1..n /\ k - 1 \in 0..n /\ k # 0)
    OBVIOUS
  <2>2. f \in [0..n -> Q] /\ f[0] = <<>> /\ \A i \in 1..n : f[i] = G[i][f[i - 1]]
    BY <1>7, <1>8 DEF Follows
  <2>3. \A k \in 1..n : f[k - 1] \in Q
    <3>1. \A k \in 1..n : k - 1 \in 0..n
      OBVIOUS
    <3> QED
      BY <2>2, <3>1
  <2>4. \A k \in 1..n : f[k] = IF s[k] \in Codes THEN Append(f[k - 1], s[k]) ELSE f[k - 1]
    BY <1>6, <2>2, <2>3, Zenon
  <2>5. \A k \in 0..n : f[k] = IF k = 0 THEN <<>>
             ELSE IF s[k] \in Codes THEN Append(f[k - 1], s[k]) ELSE f[k - 1]
    BY <2>1, <2>2, <2>4, Zenon
  <2>6. f = [k \in 0..n |-> f[k]]
    BY <2>2
  <2> QED
    BY <1>1, <2>5, <2>6, Zenon DEF Codes
<1>10. KnownOf(s) = [k \in 0..Len(s) |-> IF k = 0 THEN <<>>
             ELSE IF s[k] \in DOMAIN Answers THEN Append(KnownOf(s)[k - 1], s[k])
             ELSE KnownOf(s)[k - 1]]
  BY <1>9, Zenon DEF KnownOf
<1>11. PICK g : g = KnownOf(s)
  OBVIOUS
<1>12. \A k \in 0..n : g[k] = IF k = 0 THEN <<>>
             ELSE IF s[k] \in Codes THEN Append(g[k - 1], s[k]) ELSE g[k - 1]
  BY <1>1, <1>10, <1>11, Zenon DEF Codes
<1>13. /\ g[0] = <<>>
       /\ \A i \in 1..n : g[i] = IF s[i] \in Codes THEN Append(g[i - 1], s[i]) ELSE g[i - 1]
  <2>1. 0 \in 0..n /\ \A i \in 1..n : i \in 0..n /\ i # 0
    OBVIOUS
  <2> QED
    BY <1>12, <2>1, Zenon
<1>14. \A i \in 0..n : g[i] \in Q
  <2>1. \A i \in 1..n : g[i - 1] \in Q => g[i] = G[i][g[i - 1]]
    BY <1>6, <1>13, Zenon
  <2>2. g[0] \in Q
    BY <1>7, <1>13, Zenon
  <2>3. G \in [1..n -> [Q -> Q]]
    BY <1>5 DEF IsStep
  <2> QED
    BY <2>1, <2>2, <2>3, StepsType
<1> QED
  BY <1>1, <1>2, <1>11, <1>13, <1>14, Zenon

(* Two different codes, at most.                                           *)
LEMMA TwoCodes ==
    ASSUME NEW q \in Seq(Codes), \A x, y \in 1..Len(q) : x # y => q[x] # q[y]
    PROVE  Len(q) <= 2
<1>1. SUFFICES ASSUME Len(q) > 2 PROVE FALSE
  OBVIOUS
<1>2. 1 \in 1..Len(q) /\ 2 \in 1..Len(q) /\ 3 \in 1..Len(q)
  BY <1>1
<1>3. q[1] \in Codes /\ q[2] \in Codes /\ q[3] \in Codes
  BY <1>2
<1>4. q[1] # q[2] /\ q[1] # q[3] /\ q[2] # q[3]
  BY <1>2
<1>5. Codes = {SUBNET_MASK, ROUTER}
  BY DEF Codes, Answers
<1> QED
  BY <1>3, <1>4, <1>5

(* Without duplicates the list of known parameters has at most two.        *)
LEMMA KnownBound ==
    ASSUME NEW s \in Seq(Byte), NoDuplicates(s)
    PROVE  Len(KnownOf(s)[Len(s)]) <= 2
<1>1. PICK n \in Nat : n = Len(s)
  OBVIOUS
<1>2. PICK K : K = KnownOf(s)
  OBVIOUS
<1>3. /\ K[0] = <<>> /\ \A i \in 0..n : K[i] \in Seq(Codes)
      /\ \A i \in 1..n : K[i] = IF s[i] \in Codes THEN Append(K[i - 1], s[i]) ELSE K[i - 1]
  <2>1. Len(s) \in Nat
    OBVIOUS
  <2> QED
    BY <1>1, <1>2, <2>1, KnownSteps, Zenon
<1>4. \A i, j \in 1..n : i # j => s[i] # s[j]
  BY <1>1 DEF NoDuplicates
<1> DEFINE From(q, k) == /\ \A x \in 1..Len(q) : \E y \in 1..k : q[x] = s[y]
                         /\ \A x, y \in 1..Len(q) : x # y => q[x] # q[y]
<1>5. PICK T : T = {k \in 0..n : From(K[k], k)}
  OBVIOUS
<1>6. 0 \in T
  <2>1. From(<<>>, 0)
    OBVIOUS
  <2>2. 0 \in 0..n
    OBVIOUS
  <2> HIDE DEF From
  <2> QED
    BY <1>3, <1>5, <2>1, <2>2
<1>7. ASSUME NEW k \in 0..n, k < n, k \in T PROVE k + 1 \in T
  <2>1. k + 1 \in 1..n /\ k + 1 \in 0..n /\ k + 1 - 1 = k
    BY <1>7
  <2>2. PICK q \in Seq(Codes) : q = K[k]
    BY <1>3
  <2>3. K[k + 1] = IF s[k + 1] \in Codes THEN Append(q, s[k + 1]) ELSE q
    BY <1>3, <2>1, <2>2
  <2>4. From(q, k)
    <3> HIDE DEF From
    <3> QED
      BY <1>5, <1>7, <2>2
  <2>5. From(q, k + 1)
    <3>1. \A y \in 1..k : y \in 1..(k + 1)
      OBVIOUS
    <3> QED
      BY <2>4, <3>1, Zenon
  <2>6. ASSUME s[k + 1] \in Codes PROVE From(Append(q, s[k + 1]), k + 1)
    <3>1. PICK c \in Codes : c = s[k + 1]
      BY <2>6
    <3>2. PICK p \in Seq(Codes) : p = Append(q, c)
      <4>1. Append(q, c) \in Seq(Codes)
        OBVIOUS
      <4> QED
        BY <4>1, Zenon
    <3>3. PICK l \in Nat : l = Len(q)
      OBVIOUS
    <3>4. Len(p) = l + 1 /\ p[l + 1] = c /\ \A x \in 1..l : p[x] = q[x]
      BY <3>2, <3>3
    <3>5. \A x \in 1..(l + 1) : x \in 1..l \/ x = l + 1
      OBVIOUS
    <3>6. \A x \in 1..l : q[x] # c
      <4> SUFFICES ASSUME NEW x \in 1..l PROVE q[x] # c
        OBVIOUS
      <4>1. PICK y \in 1..k : q[x] = s[y]
        BY <2>4, <3>3
      <4>2. y \in 1..n /\ y # k + 1
        BY <2>1
      <4> QED
        BY <1>4, <2>1, <3>1, <4>1, <4>2
    <3>7. \A x \in 1..(l + 1) : \E y \in 1..(k + 1) : p[x] = s[y]
      <4>1. k + 1 \in 1..(k + 1)
        OBVIOUS
      <4>2. \A x \in 1..l : \E y \in 1..(k + 1) : p[x] = s[y]
        BY <2>5, <3>3, <3>4, Zenon
      <4> QED
        BY <3>1, <3>4, <3>5, <4>1, <4>2, Zenon
    <3>8. \A x, y \in 1..(l + 1) : x # y => p[x] # p[y]
      <4>1. \A x, y \in 1..l : x # y => p[x] # p[y]
        BY <2>4, <3>3, <3>4, Zenon
      <4>2. \A x \in 1..l : p[x] # p[l + 1]
        BY <3>4, <3>6, Zenon
      <4> QED
        BY <3>5, <4>1, <4>2, Zenon
    <3>9. From(p, k + 1)
      BY <3>4, <3>7, <3>8, Zenon
    <3> HIDE DEF From
    <3> QED
      BY <3>1, <3>2, <3>9
  <2>7. From(K[k + 1], k + 1)
    <3> HIDE DEF From
    <3> QED
      BY <2>3, <2>5, <2>6
  <2> HIDE DEF From
  <2> QED
    BY <1>5, <2>1, <2>7
<1>8. n \in 0..n /\ \A i \in 0..n : i \in T
  BY <1>6, <1>7, Stepwise
<1>9. From(K[n], n) /\ K[n] \in Seq(Codes)
  <2> HIDE DEF From
  <2> QED
    BY <1>3, <1>5, <1>8
<1>10. Len(K[n]) <= 2
  BY <1>9, TwoCodes
<1> QED
  BY <1>1, <1>2, <1>10

(* seachForOption finds the first option with a code that is there.        *)
LEMMA FirstOption ==
    ASSUME NEW S, NEW l \in Seq(S), NEW c, HasOption(l, c)
    PROVE  \E i \in 1..Len(l) : /\ seachForOption(l, c) = l[i] /\ l[i].id = c
                                /\ \A j \in 1..(i - 1) : l[j].id # c
<1>1. PICK n \in Nat : n = Len(l) /\ DOMAIN l = 1..n
  OBVIOUS
<1>2. PICK T : T = {i \in 1..n : l[i].id = c}
  OBVIOUS
<1>3. T \in SUBSET Nat /\ T # {}
  BY <1>1, <1>2 DEF HasOption
<1>4. PICK x \in T : \A y \in T : x <= y
  BY <1>3, LeastNumber
<1>5. \A j \in 1..(x - 1) : j \in 1..n /\ ~(x <= j)
  BY <1>2, <1>4
<1>6. x \in 1..n /\ l[x].id = c /\ \A j \in 1..(x - 1) : l[j].id # c
  BY <1>2, <1>4, <1>5
<1> DEFINE P(i) == l[i].id = c /\ \A j \in 1..(i - 1) : l[j].id # c
<1>7. \E i \in DOMAIN l : P(i)
  BY <1>1, <1>6
<1>8. PICK k : k = CHOOSE i \in DOMAIN l : P(i)
  OBVIOUS
<1>9. k \in DOMAIN l /\ P(k)
  <2> HIDE DEF P
  <2> QED
    BY <1>7, <1>8, Zenon
<1>10. seachForOption(l, c) = l[k]
  BY <1>8 DEF seachForOption
<1> QED
  BY <1>1, <1>9, <1>10

(* The parameters a request asks for are bytes.                            *)
LEMMA AskedType ==
    ASSUME NEW list \in Seq(Node)
    PROVE  Asked(list) \in Seq(Byte) /\ Len(Asked(list)) \in Nat
<1>1. Asked(list) \in Seq(Byte)
  <2>1. CASE HasOption(list, PARAMETER_REQUEST_LIST)
    <3>1. PICK i \in 1..Len(list) : seachForOption(list, PARAMETER_REQUEST_LIST) = list[i]
      BY <2>1, FirstOption
    <3>2. list[i] \in Node
      OBVIOUS
    <3> QED
      BY <2>1, <3>1, <3>2 DEF Asked, Node
  <2>2. CASE ~HasOption(list, PARAMETER_REQUEST_LIST)
    BY <2>2 DEF Asked
  <2> QED
    BY <2>1, <2>2
<1> QED
  BY <1>1

(* Putting one element before or behind a list.                            *)
LEMMA Joined ==
    ASSUME NEW S, NEW s \in Seq(S), NEW x \in S
    PROVE  /\ s \o <<x>> \in Seq(S) /\ Len(s \o <<x>>) = Len(s) + 1
           /\ (s \o <<x>>)[Len(s) + 1] = x
           /\ \A i \in 1..Len(s) : (s \o <<x>>)[i] = s[i]
           /\ <<x>> \o s \in Seq(S) /\ Len(<<x>> \o s) = Len(s) + 1
           /\ (<<x>> \o s)[1] = x
           /\ \A i \in 1..Len(s) : (<<x>> \o s)[i + 1] = s[i]
<1>1. /\ s \o <<x>> \in Seq(S) /\ Len(s \o <<x>>) = Len(s) + 1
      /\ <<x>> \o s \in Seq(S) /\ Len(<<x>> \o s) = Len(s) + 1
  OBVIOUS
<1>2. (s \o <<x>>)[Len(s) + 1] = x /\ (<<x>> \o s)[1] = x
  OBVIOUS
<1>3. \A i \in 1..Len(s) : (s \o <<x>>)[i] = s[i]
  OBVIOUS
<1>4. \A i \in 1..Len(s) : (<<x>> \o s)[i + 1] = s[i]
  OBVIOUS
<1> QED
  BY <1>1, <1>2, <1>3, <1>4

LEMMA OptionAndLength ==
    ASSUME NEW c \in Byte, NEW x \in Seq(Byte)
    PROVE  \E o \in Option : o = [id |-> c, data |-> x] /\ Len(o.data) = Len(x)
<1>1. [id |-> c, data |-> x] \in Option
  BY DEF Option
<1>2. [id |-> c, data |-> x].data = x
  OBVIOUS
<1> QED
  BY <1>1, <1>2, Zenon

(* The list of a reply: a type of one byte, then values of four.           *)
LEMMA ReplyShape ==
    ASSUME NEW list \in Seq(Node), NEW t \in {DHCP_OFFER, DHCP_ACK}, NEW r, r = ReplyList(t, list)
    PROVE  \E n \in Nat :
             /\ n = Len(KnownOf(Asked(list))[Len(Asked(list))])
             /\ r \in Seq(Option) /\ Len(r) = n + 2
             /\ Len(r[1].data) = 1
             /\ \A i \in 2..(n + 2) : Len(r[i].data) = 4
<1>1. PICK known \in Seq(Codes) : known = KnownOf(Asked(list))[Len(Asked(list))]
  <2>1. Len(Asked(list)) \in Nat
    BY AskedType
  <2>2. Len(Asked(list)) \in 0..Len(Asked(list))
    BY <2>1
  <2> QED
    BY <2>1, <2>2, KnownSteps
<1>2. PICK n \in Nat : n = Len(known) /\ DOMAIN known = 1..n
  OBVIOUS
<1>3. PICK mid : mid = [i \in DOMAIN known |-> [id |-> known[i], data |-> Answers[known[i]]]]
  OBVIOUS
<1>4. \A c \in Codes : c \in Byte /\ Answers[c] \in Seq(Byte) /\ Len(Answers[c]) = 4
  <2>1. netmask \in Seq(Byte) /\ Len(netmask) = 4 /\ gw \in Seq(Byte) /\ Len(gw) = 4
    BY DEF netmask, gw, Byte
  <2>2. \A c \in Codes : c \in Byte
    BY DEF Codes, Answers, SUBNET_MASK, ROUTER, Byte
  <2>3. \A c \in Codes : Answers[c] = netmask \/ Answers[c] = gw
    BY DEF Codes, Answers
  <2> QED
    BY <2>1, <2>2, <2>3, Zenon
<1>5. \A i \in 1..n : known[i] \in Codes
  BY <1>2
<1>6. \A i \in 1..n : mid[i] = [id |-> known[i], data |-> Answers[known[i]]]
  BY <1>2, <1>3, Zenon
<1>7. \A i \in 1..n : mid[i] \in Option /\ Len(mid[i].data) = 4
  <2> SUFFICES ASSUME NEW i \in 1..n PROVE mid[i] \in Option /\ Len(mid[i].data) = 4
    OBVIOUS
  <2>1. PICK c \in Codes : c = known[i]
    BY <1>5
  <2>2. PICK x \in Seq(Byte) : x = Answers[c] /\ Len(x) = 4
    BY <1>4
  <2>3. c \in Byte /\ mid[i] = [id |-> c, data |-> x]
    BY <1>4, <1>6, <2>1, <2>2
  <2> QED
    BY <2>2, <2>3 DEF Option
<1>8. mid \in Seq(Option) /\ Len(mid) = n
  <2>1. mid \in [1..n -> Option]
    BY <1>2, <1>3, <1>7
  <2> QED
    BY <2>1
<1>9. PICK h \in Option : h = [id |-> DHCP_MESSAGE_TYPE, data |-> <<t>>] /\ Len(h.data) = 1
  <2>1. DHCP_MESSAGE_TYPE \in Byte /\ t \in Byte
    BY DEF DHCP_MESSAGE_TYPE, DHCP_OFFER, DHCP_ACK, Byte
  <2>2. <<t>> \in Seq(Byte) /\ Len(<<t>>) = 1
    BY <2>1
  <2> QED
    BY <2>1, <2>2, OptionAndLength
<1>10. PICK z \in Option : /\ z = [id |-> IP_ADDRESS_LEASE_TIME, data |-> infLeaseTime]
                           /\ Len(z.data) = 4
  <2>1. IP_ADDRESS_LEASE_TIME \in Byte
    BY DEF IP_ADDRESS_LEASE_TIME, Byte
  <2>2. infLeaseTime \in Seq(Byte) /\ Len(infLeaseTime) = 4
    BY DEF infLeaseTime, Byte
  <2> QED
    BY <2>1, <2>2, OptionAndLength
<1>11. r = <<h>> \o mid \o <<z>>
  BY <1>1, <1>3, <1>9, <1>10 DEF ReplyList
<1>12. PICK f \in Seq(Option) : f = <<h>> \o mid /\ Len(f) = n + 1 /\ f[1] = h
                                /\ \A i \in 1..n : f[i + 1] = mid[i]
  <2>1. /\ <<h>> \o mid \in Seq(Option) /\ Len(<<h>> \o mid) = Len(mid) + 1
        /\ (<<h>> \o mid)[1] = h
        /\ \A i \in 1..Len(mid) : (<<h>> \o mid)[i + 1] = mid[i]
    BY <1>8, Joined, SMTT(30)
  <2> QED
    BY <1>8, <2>1, Zenon
<1>13. /\ r \in Seq(Option) /\ Len(r) = n + 2 /\ r[n + 2] = z
       /\ \A i \in 1..(n + 1) : r[i] = f[i]
  <2>1. PICK k \in Nat : k = Len(f) /\ k = n + 1 /\ k + 1 = n + 2
    BY <1>12
  <2>2. /\ f \o <<z>> \in Seq(Option) /\ Len(f \o <<z>>) = Len(f) + 1
        /\ (f \o <<z>>)[Len(f) + 1] = z
        /\ \A i \in 1..Len(f) : (f \o <<z>>)[i] = f[i]
    BY Joined
  <2>3. r = f \o <<z>>
    BY <1>11, <1>12
  <2> QED
    BY <2>1, <2>2, <2>3, Zenon
<1>14. r[1] = h
  BY <1>12, <1>13
<1>15. \A i \in 2..(n + 2) : Len(r[i].data) = 4
  <2> SUFFICES ASSUME NEW i \in 2..(n + 2) PROVE Len(r[i].data) = 4
    OBVIOUS
  <2>1. CASE i = n + 2
    BY <1>10, <1>13, <2>1
  <2>2. CASE i # n + 2
    <3>1. PICK j \in 1..n : i = j + 1
      <4>1. i - 1 \in 1..n /\ i = (i - 1) + 1
        BY <2>2
      <4> QED
        BY <4>1
    <3>2. i \in 1..(n + 1)
      BY <2>2
    <3>3. r[i] = mid[j]
      BY <1>12, <1>13, <3>1, <3>2
    <3> QED
      BY <1>7, <3>3
  <2> QED
    BY <2>1, <2>2
<1> QED
  BY <1>1, <1>2, <1>9, <1>13, <1>14, <1>15

-----------------------------------------------------------------------------
(* Where the options of a list stand.                                      *)

(* In a reply.                                                             *)
LEMMA WrittenSteps ==
    ASSUME NEW r \in Seq(Option)
    PROVE  /\ Written(r)[0] = 1
           /\ \A i \in 0..Len(r) : Written(r)[i] \in Nat
           /\ \A i \in 1..Len(r) : Written(r)[i] = Written(r)[i - 1] + (2 + Len(r[i].data))
<1>1. PICK n \in Nat : n = Len(r) /\ DOMAIN r = 1..n
  OBVIOUS
<1>2. \A i \in 1..n : 2 + Len(r[i].data) \in Nat
  <2>1. \A i \in 1..n : r[i] \in Option
    BY <1>1
  <2>2. \A o \in Option : 2 + Len(o.data) \in Nat
    BY DEF Option
  <2> QED
    BY <2>1, <2>2
<1>3. PICK room : room = [i \in DOMAIN r |-> 2 + Len(r[i].data)]
  OBVIOUS
<1>4. room \in [1..n -> Nat] /\ \A i \in 1..n : room[i] = 2 + Len(r[i].data)
  BY <1>1, <1>2, <1>3
<1>5. room \in Seq(Nat) /\ Len(room) = n
  BY <1>4
<1>6. Written(r) = Offsets(room)
  BY <1>3 DEF Written
<1>7. PICK W : W = Offsets(room)
  OBVIOUS
<1>8. W[0] = 1 /\ (\A i \in 0..n : W[i] \in Nat) /\ \A i \in 1..n : W[i] = W[i - 1] + room[i]
  BY <1>5, <1>7, OffsetsSteps
<1>9. \A i \in 1..n : W[i] = W[i - 1] + (2 + Len(r[i].data))
  BY <1>4, <1>8, Zenon
<1> QED
  BY <1>1, <1>6, <1>7, <1>8, <1>9, Zenon

LEMMA WrittenPositive ==
    ASSUME NEW r \in Seq(Option), NEW i \in 0..Len(r)
    PROVE  Written(r)[i] \in Nat /\ Written(r)[i] # 0
<1>1. PICK n \in Nat : n = Len(r)
  OBVIOUS
<1>2. PICK W : W = Written(r)
  OBVIOUS
<1>3. /\ W[0] = 1 /\ \A j \in 0..n : W[j] \in Nat
      /\ \A j \in 1..n : W[j] = W[j - 1] + (2 + Len(r[j].data))
  BY <1>1, <1>2, WrittenSteps
<1>4. CASE i = 0
  BY <1>1, <1>2, <1>3, <1>4
<1>5. CASE i # 0
  <2>1. i \in 1..n /\ i - 1 \in 0..n
    BY <1>1, <1>5
  <2>2. r[i] \in Option
    BY <1>1, <2>1
  <2>3. Len(r[i].data) \in Nat
    BY <2>2 DEF Option
  <2>4. W[i] = W[i - 1] + (2 + Len(r[i].data)) /\ W[i - 1] \in Nat
    BY <1>3, <2>1
  <2> QED
    BY <1>2, <2>3, <2>4
<1> QED
  BY <1>4, <1>5

(* A reply to a request without duplicates takes 21 bytes before its END.  *)
LEMMA WrittenBound ==
    ASSUME NEW list \in Seq(Node), NEW t \in {DHCP_OFFER, DHCP_ACK}, NEW r, r = ReplyList(t, list),
           NoDuplicates(Asked(list))
    PROVE  \A i \in 1..Len(r) : Written(r)[i] <= 22
<1>1. PICK n \in Nat :
             /\ n = Len(KnownOf(Asked(list))[Len(Asked(list))])
             /\ r \in Seq(Option) /\ Len(r) = n + 2
             /\ Len(r[1].data) = 1
             /\ \A i \in 2..(n + 2) : Len(r[i].data) = 4
  BY ReplyShape, SMTT(30)
<1>2. n <= 2
  BY <1>1, AskedType, KnownBound
<1>3. PICK W : W = Written(r)
  OBVIOUS
<1>4. W[0] = 1 /\ \A i \in 1..(n + 2) : W[i] = W[i - 1] + (2 + Len(r[i].data))
  BY <1>1, <1>3, WrittenSteps
<1>5. W[1] = 4
  <2>1. 1 \in 1..(n + 2) /\ 1 - 1 = 0 /\ 1 + (2 + 1) = 4
    OBVIOUS
  <2> QED
    BY <1>1, <1>4, <2>1, Zenon
<1>6. \A i \in 2..(n + 2) : W[i] = W[i - 1] + 6
  <2>1. 2 + 4 = 6 /\ \A i \in 2..(n + 2) : i \in 1..(n + 2)
    OBVIOUS
  <2> QED
    BY <1>1, <1>4, <2>1, Zenon
<1>7. W[2] = 10
  <2>1. 2 \in 2..(n + 2) /\ 2 - 1 = 1
    OBVIOUS
  <2> QED
    BY <1>5, <1>6, <2>1
<1>8. n >= 1 => W[3] = 16
  <2>1. n >= 1 => 3 \in 2..(n + 2) /\ 3 - 1 = 2
    OBVIOUS
  <2> QED
    BY <1>6, <1>7, <2>1
<1>9. n >= 2 => W[4] = 22
  <2>1. n >= 2 => 4 \in 2..(n + 2) /\ 4 - 1 = 3
    OBVIOUS
  <2> QED
    BY <1>6, <1>8, <2>1
<1>10. \A i \in 1..(n + 2) : i = 1 \/ i = 2 \/ (i = 3 /\ n >= 1) \/ (i = 4 /\ n >= 2)
  BY <1>2
<1> QED
  BY <1>1, <1>3, <1>5, <1>7, <1>8, <1>9, <1>10

(* In the area that is parsed: nodes without data take no room.            *)
RoomOf(node) == IF node.ok THEN 2 + Len(node.data) ELSE 0

LEMMA WalkedRooms ==
    ASSUME NEW list \in Seq(Node)
    PROVE  \E room \in Seq(Nat) : /\ Walked(list) = Offsets(room) /\ Len(room) = Len(list)
                                  /\ \A i \in 1..Len(list) : room[i] = RoomOf(list[i])
<1>1. PICK n \in Nat : n = Len(list) /\ DOMAIN list = 1..n
  OBVIOUS
<1>2. \A i \in 1..n : RoomOf(list[i]) \in Nat
  <2>1. \A i \in 1..n : list[i] \in Node
    BY <1>1
  <2>2. \A o \in Node : RoomOf(o) \in Nat
    BY DEF Node, RoomOf
  <2> QED
    BY <2>1, <2>2
<1>3. PICK room : room = [i \in DOMAIN list |-> RoomOf(list[i])]
  OBVIOUS
<1>4. room \in [1..n -> Nat] /\ \A i \in 1..n : room[i] = RoomOf(list[i])
  BY <1>1, <1>2, <1>3
<1>5. room \in Seq(Nat) /\ Len(room) = n
  BY <1>4
<1>6. Walked(list) = Offsets(room)
  BY <1>3 DEF Walked, RoomOf
<1> QED
  BY <1>1, <1>4, <1>5, <1>6

(* One node more changes nothing before it.                                *)
LEMMA WalkedAppend ==
    ASSUME NEW list \in Seq(Node), NEW x \in Node
    PROVE  /\ \A i \in 0..Len(list) : Walked(Append(list, x))[i] = Walked(list)[i]
           /\ Walked(Append(list, x))[Len(list) + 1] = Walked(list)[Len(list)] + RoomOf(x)
           /\ Walked(list)[Len(list)] \in Nat
<1>1. PICK n \in Nat : n = Len(list)
  OBVIOUS
<1>2. PICK l \in Seq(Node) : l = Append(list, x)
  <2>1. Append(list, x) \in Seq(Node)
    OBVIOUS
  <2> QED
    BY <2>1, Zenon
<1>3. Len(l) = n + 1 /\ l[n + 1] = x /\ \A i \in 1..n : l[i] = list[i]
  BY <1>1, <1>2
<1>4. PICK r \in Seq(Nat) : /\ Walked(list) = Offsets(r) /\ Len(r) = n
                            /\ \A i \in 1..n : r[i] = RoomOf(list[i])
  BY <1>1, WalkedRooms
<1>5. PICK q \in Seq(Nat) : /\ Walked(l) = Offsets(q) /\ Len(q) = n + 1
                            /\ \A i \in 1..(n + 1) : q[i] = RoomOf(l[i])
  BY <1>3, WalkedRooms
<1>6. \A i \in 1..n : q[i] = r[i]
  <2>1. \A i \in 1..n : i \in 1..(n + 1)
    OBVIOUS
  <2> QED
    BY <1>3, <1>4, <1>5, <2>1, Zenon
<1>7. \A i \in 0..n : Offsets(q)[i] = Offsets(r)[i]
  <2>1. Len(r) <= Len(q) /\ \A i \in 1..Len(r) : q[i] = r[i]
    BY <1>4, <1>5, <1>6
  <2>2. \A i \in 0..Len(r) : Offsets(q)[i] = Offsets(r)[i]
    BY <2>1, OffsetsPrefix
  <2> QED
    BY <1>4, <2>2, Zenon
<1>8. Offsets(q)[n + 1] = Offsets(q)[n] + RoomOf(x)
  <2>1. n + 1 \in 1..(n + 1) /\ n + 1 - 1 = n
    OBVIOUS
  <2>2. Offsets(q)[n + 1] = Offsets(q)[n + 1 - 1] + q[n + 1]
    BY <1>5, <2>1, OffsetsSteps
  <2> QED
    BY <1>3, <1>5, <2>1, <2>2, Zenon
<1>9. n \in 0..n /\ Offsets(r)[n] \in Nat
  BY <1>4, OffsetsSteps
<1> QED
  BY <1>1, <1>2, <1>4, <1>5, <1>7, <1>8, <1>9, Zenon

(* What has been parsed and one node more.                                 *)
Prefix(list, a, p) ==
    /\ Walked(list)[Len(list)] = p
    /\ \A i \in DOMAIN list :
         /\ list[i].ok => StandsAt(list[i], a, Walked(list)[i - 1])
         /\ list[i].id # END

LEMMA PrefixAppend ==
    ASSUME NEW list \in Seq(Node), NEW x \in Node, NEW a, NEW p \in Nat, Prefix(list, a, p),
           x.id # END, x.ok => StandsAt(x, a, p)
    PROVE  Prefix(Append(list, x), a, p + RoomOf(x))
<1>1. PICK n \in Nat : n = Len(list)
  OBVIOUS
<1>2. PICK l \in Seq(Node) : l = Append(list, x)
  <2>1. Append(list, x) \in Seq(Node)
    OBVIOUS
  <2> QED
    BY <2>1, Zenon
<1>3. Len(l) = n + 1 /\ l[n + 1] = x /\ \A i \in 1..n : l[i] = list[i]
  BY <1>1, <1>2
<1>4. DOMAIN l = 1..(n + 1) /\ DOMAIN list = 1..n
  BY <1>1, <1>3
<1>5. /\ \A i \in 0..n : Walked(l)[i] = Walked(list)[i]
      /\ Walked(l)[n + 1] = Walked(list)[n] + RoomOf(x)
  BY <1>1, <1>2, WalkedAppend, Zenon
<1>6. Walked(list)[n] = p
  BY <1>1 DEF Prefix
<1>7. Walked(l)[Len(l)] = p + RoomOf(x)
  BY <1>3, <1>5, <1>6, Zenon
<1>8. ASSUME NEW i \in 1..(n + 1)
      PROVE  (l[i].ok => StandsAt(l[i], a, Walked(l)[i - 1])) /\ l[i].id # END
  <2>1. CASE i = n + 1
    <3>1. i - 1 = n /\ n \in 0..n
      BY <2>1
    <3>2. Walked(l)[i - 1] = p
      BY <1>5, <1>6, <3>1, Zenon
    <3> QED
      BY <1>3, <2>1, <3>2, Zenon
  <2>2. CASE i # n + 1
    <3>1. i \in 1..n /\ i - 1 \in 0..n
      BY <2>2
    <3>2. Walked(l)[i - 1] = Walked(list)[i - 1] /\ l[i] = list[i]
      BY <1>3, <1>5, <3>1, Zenon
    <3>3. (list[i].ok => StandsAt(list[i], a, Walked(list)[i - 1])) /\ list[i].id # END
      BY <1>4, <3>1 DEF Prefix
    <3> QED
      BY <3>2, <3>3, Zenon
  <2> QED
    BY <2>1, <2>2
<1>9. Prefix(l, a, p + RoomOf(x))
  BY <1>4, <1>7, <1>8, Zenon DEF Prefix
<1> QED
  BY <1>2, <1>9, Zenon

(* A walk that has left the area does not come back.                       *)
LEMMA StaysBehind ==
    ASSUME NEW a \in [1..AreaSize -> Byte], NEW k \in 0..AreaSize, Starts(a)[k] > AreaSize
    PROVE  \A j \in k..AreaSize : Starts(a)[j] > AreaSize
<1>1. PICK n \in Nat : n = AreaSize
  BY CodecAssumption
<1>2. PICK f : f = Starts(a)
  OBVIOUS
<1>3. /\ \A i \in 0..n : f[i] \in Nat
      /\ \A i \in 1..n : f[i] = IF f[i - 1] + 1 > n THEN n + 1 ELSE f[i - 1] + 2 + a[f[i - 1] + 1]
  BY <1>1, <1>2, StartsSteps
<1>4. PICK T : T = {i \in 0..n : i < k \/ f[i] > n}
  OBVIOUS
<1>5. k \in 0..n /\ f[k] > n
  BY <1>1, <1>2
<1>6. 0 \in T
  <2>1. 0 < k \/ 0 = k
    BY <1>5
  <2> QED
    BY <1>4, <1>5, <2>1
<1>7. ASSUME NEW i \in 0..n, i < n, i \in T PROVE i + 1 \in T
  <2>1. i + 1 \in 0..n /\ i + 1 \in 1..n /\ i + 1 - 1 = i
    BY <1>7
  <2>2. CASE i + 1 < k
    BY <1>4, <2>1, <2>2
  <2>3. CASE i + 1 = k
    BY <1>4, <1>5, <2>1, <2>3
  <2>4. CASE i + 1 > k
    <3>1. ~(i < k)
      BY <1>5, <2>4
    <3>2. f[i] > n /\ f[i] \in Nat
      BY <1>3, <1>4, <1>7, <3>1
    <3>3. f[i] + 1 > n
      BY <3>2
    <3>4. f[i + 1] = n + 1
      BY <1>3, <2>1, <3>3
    <3> QED
      BY <1>4, <2>1, <3>4
  <2> QED
    BY <1>5, <2>2, <2>3, <2>4
<1>8. \A i \in 0..n : i \in T
  BY <1>6, <1>7, Stepwise
<1>9. \A j \in k..n : j \in 0..n /\ ~(j < k)
  BY <1>5
<1>10. \A j \in k..n : f[j] > n
  BY <1>4, <1>8, <1>9
<1> QED
  BY <1>1, <1>2, <1>10

(* The next step of the walk.                                              *)
LEMMA NextStart ==
    ASSUME NEW a \in [1..AreaSize -> Byte], NEW k \in 0..AreaSize, NEW p \in 1..AreaSize,
           Starts(a)[k] = p, 2 * k < p
    PROVE  /\ k + 1 \in 0..AreaSize
           /\ p = AreaSize => Starts(a)[k + 1] = AreaSize + 1
           /\ p < AreaSize => a[p + 1] \in Nat /\ Starts(a)[k + 1] = p + 2 + a[p + 1]
<1>1. k + 1 \in 0..AreaSize /\ k + 1 \in 1..AreaSize /\ k + 1 - 1 = k
  BY CodecAssumption
<1>2. Starts(a)[k + 1] = IF p + 1 > AreaSize THEN AreaSize + 1 ELSE p + 2 + a[p + 1]
  <2>1. PICK i \in 1..AreaSize : i = k + 1 /\ i - 1 = k
    BY <1>1
  <2>2. Starts(a)[i] = IF Starts(a)[i - 1] + 1 > AreaSize THEN AreaSize + 1
                       ELSE Starts(a)[i - 1] + 2 + a[Starts(a)[i - 1] + 1]
    <3>1. \A j \in 1..AreaSize :
             Starts(a)[j] = IF Starts(a)[j - 1] + 1 > AreaSize THEN AreaSize + 1
                            ELSE Starts(a)[j - 1] + 2 + a[Starts(a)[j - 1] + 1]
      BY StartsSteps
    <3> QED
      BY <3>1, Zenon
  <2> QED
    BY <2>1, <2>2, Zenon
<1>3. p < AreaSize => a[p + 1] \in Nat
  <2>1. p < AreaSize => p + 1 \in 1..AreaSize
    BY CodecAssumption
  <2>2. p < AreaSize => a[p + 1] \in Byte
    BY <2>1
  <2>3. \A b \in Byte : b \in Nat
    BY DEF Byte
  <2> QED
    BY <2>2, <2>3
<1> QED
  BY <1>1, <1>2, <1>3, CodecAssumption

(* No END stands where an option starts if the walk leaves the area.       *)
LEMMA NoEnd ==
    ASSUME NEW a \in [1..AreaSize -> Byte], NEW k \in 0..AreaSize, NEW p \in 1..AreaSize,
           Starts(a)[k] = p, 2 * k < p, a[p] # END,
           \A j \in 0..(k - 1) : a[Starts(a)[j]] # END,
           p = AreaSize \/ p + 2 + a[p + 1] > AreaSize
    PROVE  ~HasEnd(a)
<1>1. k + 1 \in 0..AreaSize /\ Starts(a)[k + 1] > AreaSize
  <2>1. p = AreaSize \/ p < AreaSize
    BY CodecAssumption
  <2>2. CASE p = AreaSize
    BY <2>2, NextStart, CodecAssumption
  <2>3. CASE p < AreaSize
    <3>1. p + 2 + a[p + 1] > AreaSize
      BY <2>3
    <3> QED
      BY <2>3, <3>1, NextStart
  <2> QED
    BY <2>1, <2>2, <2>3
<1>2. \A j \in (k + 1)..AreaSize : Starts(a)[j] > AreaSize
  BY <1>1, StaysBehind
<1>3. \A j \in 0..AreaSize : j \in 0..(k - 1) \/ j = k \/ j \in (k + 1)..AreaSize
  BY CodecAssumption
<1>4. \A j \in 0..AreaSize : Starts(a)[j] \in Nat
  BY StartsSteps
<1>5. \A j \in (k + 1)..AreaSize : ~(Starts(a)[j] <= AreaSize)
  <2>1. \A j \in (k + 1)..AreaSize : j \in 0..AreaSize
    BY CodecAssumption
  <2> QED
    BY <1>2, <1>4, <2>1, CodecAssumption
<1> QED
  BY <1>3, <1>5, Zenon DEF HasEnd

-----------------------------------------------------------------------------
(* Every step preserves the invariant.                                     *)

LEMMA AreaType == TypeOK => area \in [1..AreaSize -> Byte] /\ AreaSize \in Nat
BY CodecAssumption DEF TypeOK

LEMMA InitInv == Init => Inv
<1> SUFFICES ASSUME Init PROVE Inv
  OBVIOUS
<1>1. AreaSize \in Nat /\ AreaSize >= 22 /\ MaxRefused \in Nat
  BY CodecAssumption
<1>2. TypeOK
  BY <1>1 DEF Init, TypeOK, Stopped, Byte
<1>3. ParsedIsPrefix
  <2>1. PICK l \in Seq(Node) : l = opts /\ l = <<>>
    BY <1>2 DEF Init, TypeOK
  <2>2. Len(l) = 0 /\ DOMAIN l = 1..0
    BY <2>1
  <2>3. PICK room \in Seq(Nat) : Walked(l) = Offsets(room)
    BY WalkedRooms
  <2>4. Walked(l)[Len(l)] = 1
    BY <2>2, <2>3, OffsetsSteps
  <2> QED
    BY <2>1, <2>2, <2>4 DEF Init, ParsedIsPrefix
<1>4. ReadsPastOnlyWithoutEnd /\ ParseInv
  BY DEF Init, ReadsPastOnlyWithoutEnd, ParseInv
<1>5. WalkInv
  <2>1. area \in [1..AreaSize -> Byte]
    BY <1>2, AreaType
  <2>2. Starts(area)[0] = 1
    BY <2>1, StartsSteps
  <2>3. AtOption(0)
    BY <2>2 DEF AtOption, Init
  <2>4. 0 \in 0..AreaSize
    BY <1>1
  <2> QED
    BY <2>3, <2>4 DEF WalkInv
<1>6. WriterInv
  BY DEF Init, WriterInv, EmptyInv, ReplyInv, SerialInv, ReplyFits, ReplyReadsBack
<1> QED
  BY <1>2, <1>3, <1>4, <1>5, <1>6 DEF Inv, ParserInv

(* The head of parseDhcpOptionList.                                        *)
LEMMA FirstStep == Inv /\ ParseFirst => Inv'
<1> SUFFICES ASSUME Inv, ParseFirst PROVE Inv'
  OBVIOUS
<1>1. /\ pc = "first" /\ UNCHANGED <<area, rp, opts, reply, out, wp, next>>
      /\ pc' \in {"dispatch", "parse", "nullDeref"} /\ rp = 1
      /\ pc' = "dispatch" => area[1] = END
      /\ pc' = "parse" => area[1] # END
      /\ refused' \in 0..MaxRefused
  <2>1. rp = 1 /\ refused \in 0..MaxRefused
    BY DEF Inv, ParserInv, ParseInv, ParseFirst, TypeOK
  <2> QED
    BY <2>1, CodecAssumption DEF ParseFirst, replyVars, Malloc, Cost
<1>2. TypeOK'
  BY <1>1 DEF Inv, TypeOK, Stopped
<1>3. area \in [1..AreaSize -> Byte] /\ AreaSize \in Nat /\ AreaSize >= 22
  BY AreaType, CodecAssumption DEF Inv
<1>4. ParsedIsPrefix'
  BY <1>1 DEF Inv, ParserInv, ParsedIsPrefix
<1>5. ParseInv'
  BY <1>1, <1>3 DEF ParseInv
<1>6. PICK k \in 0..AreaSize : AtOption(k)
  BY <1>1 DEF Inv, ParserInv, WalkInv
<1>7. AtOption(k)'
  BY <1>1, <1>6 DEF AtOption
<1>8. WalkInv'
  BY <1>7 DEF WalkInv
<1>9. ReadsPastOnlyWithoutEnd'
  <2>1. pc' = "dispatch" => HasEnd(area)
    <3>1. pc' = "dispatch" => Starts(area)[k] <= AreaSize /\ area[Starts(area)[k]] = END
      BY <1>1, <1>3, <1>6 DEF AtOption
    <3> QED
      BY <3>1 DEF HasEnd
  <2> QED
    BY <1>1, <2>1 DEF ReadsPastOnlyWithoutEnd, HasEnd
<1>10. WriterInv'
  <2>1. reply = <<>> /\ next = 1 /\ wp = 1 /\ out = [i \in 1..AreaSize |-> 0]
    BY <1>1 DEF Inv, WriterInv, EmptyInv
  <2> QED
    BY <1>1, <2>1 DEF WriterInv, EmptyInv, ReplyInv, SerialInv, ReplyFits, ReplyReadsBack
<1> QED
  BY <1>2, <1>4, <1>5, <1>8, <1>9, <1>10 DEF Inv, ParserInv

(* The option that parseDhcpOption stores from the bytes at p.             *)
IsStored(x, a, p, m) ==
    x = createOption(a[p], [i \in 1..a[p + 1] |-> IF m.ok THEN a[p + 1 + i] ELSE 0], m)
CanStore(a, p, m) ==
    m.ok \in BOOLEAN /\ p # AreaSize /\ (m.ok => p + 1 + a[p + 1] <= AreaSize)
StoredAt(x, a, p, m) ==
    /\ x \in Node /\ x.id = a[p] /\ x.ok = m.ok
    /\ RoomOf(x) = ParsedLength(a[p + 1], m) /\ a[p + 1] \in Nat
    /\ x.ok => StandsAt(x, a, p)
LEMMA StoredNode ==
    ASSUME NEW a \in [1..AreaSize -> Byte], NEW p \in 1..AreaSize, NEW m, CanStore(a, p, m),
           NEW x, IsStored(x, a, p, m)
    PROVE  StoredAt(x, a, p, m)
<1>0. m.ok \in BOOLEAN /\ p # AreaSize /\ (m.ok => p + 1 + a[p + 1] <= AreaSize)
  BY DEF CanStore
<1>1. PICK len \in Byte : len = a[p + 1]
  <2>1. p + 1 \in 1..AreaSize
    BY <1>0, CodecAssumption
  <2> QED
    BY <2>1
<1>2. len \in Nat
  BY DEF Byte
<1>3. PICK data : data = [i \in 1..len |-> IF m.ok THEN a[p + 1 + i] ELSE 0]
  OBVIOUS
<1>4. \A i \in 1..len : (IF m.ok THEN a[p + 1 + i] ELSE 0) \in Byte
  <2> SUFFICES ASSUME NEW i \in 1..len PROVE (IF m.ok THEN a[p + 1 + i] ELSE 0) \in Byte
    OBVIOUS
  <2>1. CASE m.ok = TRUE
    <3>1. p + 1 + len <= AreaSize
      BY <1>0, <1>1, <2>1
    <3>2. p + 1 + i \in 1..AreaSize
      BY <1>2, <3>1, CodecAssumption
    <3> QED
      BY <2>1, <3>2
  <2>2. CASE m.ok = FALSE
    <3>1. 0 \in Byte
      BY DEF Byte
    <3> QED
      BY <2>2, <3>1, Zenon
  <2> QED
    BY <1>0, <2>1, <2>2
<1>5. data \in [1..len -> Byte] /\ \A i \in 1..len : data[i] = IF m.ok THEN a[p + 1 + i] ELSE 0
  BY <1>3, <1>4
<1>6. data \in Seq(Byte) /\ Len(data) = len
  BY <1>2, <1>5
<1>7. x = [id |-> a[p], data |-> data, ok |-> m.ok]
  BY <1>1, <1>3, Zenon DEF createOption, IsStored
<1>8. x \in Node /\ x.id = a[p] /\ x.ok = m.ok /\ x.data = data
  <2>1. PICK b \in BOOLEAN : b = m.ok
    BY <1>0
  <2>2. PICK c \in Byte : c = a[p]
    OBVIOUS
  <2>3. x = [id |-> c, data |-> data, ok |-> b]
    BY <1>7, <2>1, <2>2, Zenon
  <2>4. x \in Node
    BY <1>6, <2>3 DEF Node
  <2>5. x.id = c /\ x.ok = b /\ x.data = data
    BY <2>3
  <2> QED
    BY <2>1, <2>2, <2>4, <2>5, Zenon
<1>9. RoomOf(x) = ParsedLength(len, m)
  <2>1. RoomOf(x) = IF m.ok THEN 2 + len ELSE 0
    BY <1>6, <1>8, Zenon DEF RoomOf
  <2>2. 2 + len = len + 2
    BY <1>2
  <2> QED
    BY <2>1, <2>2, Zenon DEF ParsedLength
<1>10. ASSUME m.ok PROVE StandsAt(x, a, p)
  <2>1. p + 1 + Len(x.data) <= AreaSize
    BY <1>0, <1>1, <1>6, <1>8, <1>10, Zenon
  <2>2. a[p] = x.id /\ a[p + 1] = Len(x.data)
    BY <1>1, <1>6, <1>8, Zenon
  <2>3. \A j \in 1..Len(x.data) : a[p + 1 + j] = x.data[j]
    BY <1>5, <1>6, <1>8, <1>10, Zenon
  <2> QED
    BY <2>1, <2>2, <2>3 DEF StandsAt
<1> QED
  BY <1>1, <1>2, <1>8, <1>9, <1>10, Zenon DEF StoredAt

(* One round of parseDhcpOptionList.                                       *)
LEMMA RoundStep == Inv /\ ParseRound => Inv'
<1> SUFFICES ASSUME Inv, ParseRound PROVE Inv'
  OBVIOUS
<1>1. pc = "parse" /\ UNCHANGED <<area, reply, out, wp, next>>
  BY DEF ParseRound, replyVars, parseVars
<1>2. /\ area \in [1..AreaSize -> Byte] /\ AreaSize \in Nat /\ opts \in Seq(Node)
      /\ refused \in 0..MaxRefused /\ MaxRefused \in Nat /\ area \in Areas
  BY AreaType, CodecAssumption DEF Inv, TypeOK
<1>3. rp \in 1..AreaSize /\ area[rp] # END
  BY <1>1, <1>2 DEF Inv, TypeOK, ParserInv, ParseInv
<1>4. Prefix(opts, area, rp)
  BY <1>1 DEF Inv, ParserInv, ParsedIsPrefix, Prefix
<1>5. PICK k \in 0..AreaSize : AtOption(k)
  BY <1>1 DEF Inv, ParserInv, WalkInv
<1>6. Starts(area)[k] = rp /\ 2 * k < rp /\ \A j \in 0..(k - 1) : area[Starts(area)[j]] # END
  BY <1>5 DEF AtOption
<1>7. ASSUME pc' \in {"parse", "dispatch", "readPast"} PROVE WriterInv'
  <2>1. reply = <<>> /\ next = 1 /\ wp = 1 /\ out = [i \in 1..AreaSize |-> 0]
    BY <1>1 DEF Inv, WriterInv, EmptyInv
  <2> QED
    BY <1>1, <1>7, <2>1 DEF WriterInv, EmptyInv, ReplyInv, SerialInv, ReplyFits, ReplyReadsBack
<1>8. ASSUME pc' = "readPast", ~HasEnd(area) PROVE ParserInv'
  BY <1>1, <1>8 DEF ParserInv, ParsedIsPrefix, ReadsPastOnlyWithoutEnd, ParseInv, WalkInv, HasEnd
<1>9. ASSUME pc' \in {"parse", "dispatch", "readPast"}, rp' \in 1..(AreaSize + 1),
             opts' \in Seq(Node), refused' \in 0..MaxRefused
      PROVE  TypeOK'
  BY <1>1, <1>9 DEF Inv, TypeOK, Stopped
<1>10. PICK m \in Malloc :
         IF rp = AreaSize \/ (m.ok /\ rp + 1 + area[rp + 1] > AreaSize)
         THEN pc' = "readPast" /\ UNCHANGED parseVars
         ELSE LET len == area[rp + 1]
                  p   == rp + ParsedLength(len, m)
                  data == [i \in 1..len |-> IF m.ok THEN area[rp + 1 + i] ELSE 0]
              IN  /\ opts' = Append(opts, createOption(area[rp], data, m))
                  /\ rp' = p
                  /\ UNCHANGED area
                  /\ IF p > AreaSize
                     THEN pc' = "readPast" /\ refused' = refused + Cost(m)
                     ELSE IF AtEnd(p)
                     THEN pc' = "dispatch" /\ refused' = refused + Cost(m)
                     ELSE \E n \in Malloc :
                            /\ refused + Cost(m) + Cost(n) <= MaxRefused
                            /\ pc' = IF n.ok THEN "parse" ELSE "dispatch"
                            /\ refused' = refused + Cost(m) + Cost(n)
  BY DEF ParseRound
<1>11. /\ m.ok \in BOOLEAN /\ (m.ok \/ refused < MaxRefused)
       /\ Cost(m) \in 0..1 /\ (m.ok <=> Cost(m) = 0) /\ refused + Cost(m) \in 0..MaxRefused
  <2>1. m.ok \in BOOLEAN /\ (m.ok \/ refused < MaxRefused)
    BY DEF Malloc
  <2>2. CASE m.ok = TRUE
    BY <1>2, <2>1, <2>2 DEF Cost
  <2>3. CASE m.ok = FALSE
    BY <1>2, <2>1, <2>3 DEF Cost
  <2> QED
    BY <2>1, <2>2, <2>3
<1>12. CASE rp = AreaSize \/ (m.ok /\ rp + 1 + area[rp + 1] > AreaSize)
  <2>1. pc' = "readPast" /\ UNCHANGED <<rp, opts, refused>>
    BY <1>10, <1>12 DEF parseVars
  <2>2. rp = AreaSize \/ rp + 2 + area[rp + 1] > AreaSize
    <3>1. rp # AreaSize => area[rp + 1] \in Nat
      BY <1>2, <1>3, <1>6, NextStart
    <3> QED
      BY <1>2, <1>3, <1>12, <3>1
  <2>3. ~HasEnd(area)
    BY <1>2, <1>3, <1>6, <2>2, NoEnd
  <2>4. rp' \in 1..(AreaSize + 1)
    BY <1>2, <1>3, <2>1
  <2> QED
    BY <1>2, <1>7, <1>8, <1>9, <2>1, <2>3, <2>4 DEF Inv
<1>13. CASE ~(rp = AreaSize \/ (m.ok /\ rp + 1 + area[rp + 1] > AreaSize))
  <2>1. rp # AreaSize /\ (m.ok => rp + 1 + area[rp + 1] <= AreaSize)
    <3>1. rp # AreaSize => area[rp + 1] \in Nat
      BY <1>2, <1>3, <1>6, NextStart
    <3> QED
      BY <1>2, <1>3, <1>13, <3>1
  <2>2. PICK x : x = createOption(area[rp],
                                  [i \in 1..area[rp + 1] |-> IF m.ok THEN area[rp + 1 + i] ELSE 0], m)
    OBVIOUS
  <2>3. /\ x \in Node /\ x.id = area[rp] /\ x.ok = m.ok
        /\ RoomOf(x) = ParsedLength(area[rp + 1], m) /\ area[rp + 1] \in Nat
        /\ x.ok => StandsAt(x, area, rp)
    <3>1. IsStored(x, area, rp, m)
      BY <2>2 DEF IsStored
    <3>2. CanStore(area, rp, m)
      BY <1>11, <2>1 DEF CanStore
    <3>3. StoredAt(x, area, rp, m)
      BY <1>2, <1>3, <3>1, <3>2, StoredNode
    <3> QED
      BY <3>3 DEF StoredAt
  <2>4. PICK p \in Nat : /\ p = rp + ParsedLength(area[rp + 1], m)
                         /\ m.ok => p = rp + 2 + area[rp + 1]
                         /\ ~m.ok => p = rp
                         /\ p \in 1..(AreaSize + 1)
    <3>1. CASE m.ok = TRUE
      <4>1. PICK len \in Nat : len = area[rp + 1]
        BY <2>3
      <4>2. ParsedLength(len, m) = len + 2 /\ rp + 1 + len <= AreaSize
        BY <2>1, <3>1, <4>1, Zenon DEF ParsedLength
      <4>3. /\ rp + (len + 2) = rp + 2 + len /\ rp + 2 + len \in Nat
            /\ rp + 2 + len \in 1..(AreaSize + 1)
        BY <1>2, <1>3, <4>2
      <4> QED
        BY <3>1, <4>1, <4>2, <4>3, Zenon
    <3>2. CASE m.ok = FALSE
      BY <1>2, <1>3, <3>2 DEF ParsedLength
    <3> QED
      BY <1>11, <3>1, <3>2
  <2>5. /\ opts' = Append(opts, x) /\ rp' = p
        /\ IF p > AreaSize
           THEN pc' = "readPast" /\ refused' = refused + Cost(m)
           ELSE IF AtEnd(p)
           THEN pc' = "dispatch" /\ refused' = refused + Cost(m)
           ELSE \E n \in Malloc :
                  /\ refused + Cost(m) + Cost(n) <= MaxRefused
                  /\ pc' = IF n.ok THEN "parse" ELSE "dispatch"
                  /\ refused' = refused + Cost(m) + Cost(n)
    BY <1>10, <1>13, <2>2, <2>4, Zenon
  <2>6. opts' \in Seq(Node) /\ rp' \in 1..(AreaSize + 1)
    BY <1>2, <2>3, <2>4, <2>5
  <2>7. Prefix(opts', area, rp')
    <3>1. rp \in Nat /\ x.id # END
      BY <1>2, <1>3, <2>3
    <3>2. Prefix(Append(opts, x), area, rp + RoomOf(x))
      BY <1>2, <1>4, <2>3, <3>1, PrefixAppend
    <3> QED
      BY <2>3, <2>4, <2>5, <3>2, Zenon
  <2>8. ParsedIsPrefix'
    BY <1>1, <2>7 DEF ParsedIsPrefix, Prefix
  <2>9. m.ok => k + 1 \in 0..AreaSize /\ Starts(area)[k + 1] = p /\ 2 * (k + 1) < p
    <3>1. m.ok => k + 1 \in 0..AreaSize /\ Starts(area)[k + 1] = p
      BY <1>2, <1>3, <1>6, <2>1, <2>4, NextStart
    <3>2. m.ok => 2 * (k + 1) < p
      BY <1>2, <1>3, <1>6, <2>3, <2>4
    <3> QED
      BY <3>1, <3>2
  <2>10. CASE p > AreaSize
    <3>1. m.ok
      BY <1>2, <1>3, <1>11, <2>4, <2>10
    <3>2. ~HasEnd(area)
      BY <1>2, <1>3, <1>6, <2>1, <2>4, <2>10, <3>1, NoEnd
    <3>3. pc' = "readPast" /\ refused' \in 0..MaxRefused
      BY <1>11, <2>5, <2>10
    <3> QED
      BY <1>7, <1>8, <1>9, <2>6, <3>2, <3>3 DEF Inv
  <2>11. CASE ~(p > AreaSize) /\ AtEnd(p)
    <3>1. pc' = "dispatch" /\ refused' = refused + Cost(m) /\ refused' \in 0..MaxRefused
      BY <1>11, <2>5, <2>11
    <3>2. area[p] = END /\ p <= AreaSize
      BY <1>2, <2>4, <2>11 DEF AtEnd
    <3>3. m.ok => HasEnd(area)
      BY <2>9, <3>2, Zenon DEF HasEnd
    <3>4. refused' = 0 => m.ok
      BY <1>2, <1>11, <3>1
    <3>5. ReadsPastOnlyWithoutEnd'
      BY <1>1, <2>5, <3>1, <3>2, <3>3, <3>4 DEF ReadsPastOnlyWithoutEnd, HasEnd
    <3>6. ParseInv' /\ WalkInv'
      BY <3>1 DEF ParseInv, WalkInv
    <3> QED
      BY <1>7, <1>9, <2>6, <2>8, <3>1, <3>5, <3>6 DEF Inv, ParserInv
  <2>12. CASE ~(p > AreaSize) /\ ~AtEnd(p)
    <3>1. PICK n \in Malloc :
            /\ refused + Cost(m) + Cost(n) <= MaxRefused
            /\ pc' = IF n.ok THEN "parse" ELSE "dispatch"
            /\ refused' = refused + Cost(m) + Cost(n)
      BY <2>5, <2>12
    <3>2. n.ok \in BOOLEAN
      BY DEF Malloc
    <3>3. /\ pc' \in {"parse", "dispatch"} /\ refused' \in 0..MaxRefused
          /\ pc' = "dispatch" => refused' # 0
      <4>1. CASE n.ok = TRUE
        BY <1>2, <1>11, <3>1, <4>1 DEF Cost
      <4>2. CASE n.ok = FALSE
        BY <1>2, <1>11, <3>1, <4>2 DEF Cost
      <4> QED
        BY <3>2, <4>1, <4>2
    <3>4. area[p] # END /\ p <= AreaSize
      BY <1>2, <2>4, <2>12 DEF AtEnd
    <3>5. ParseInv' /\ ReadsPastOnlyWithoutEnd'
      BY <1>1, <2>5, <3>3, <3>4 DEF ParseInv, ReadsPastOnlyWithoutEnd
    <3>6. \E j \in 0..AreaSize : AtOption(j)'
      <4>1. CASE m.ok = TRUE
        <5>1. Starts(area)[k] <= AreaSize /\ area[Starts(area)[k]] # END
          BY <1>2, <1>3, <1>6
        <5>2. \A j \in 0..(k + 1 - 1) : j \in 0..(k - 1) \/ j = k
          BY <1>2
        <5>3. \A j \in 0..(k - 1) : Starts(area)[j] <= AreaSize /\ area[Starts(area)[j]] # END
          BY <1>5 DEF AtOption
        <5>4. \A j \in 0..(k + 1 - 1) : Starts(area)[j] <= AreaSize /\ area[Starts(area)[j]] # END
          BY <5>1, <5>2, <5>3, Zenon
        <5>5. Starts(area')[k + 1] = rp' /\ 2 * (k + 1) < rp' /\ k + 1 \in 0..AreaSize
          BY <1>1, <2>5, <2>9, <4>1, Zenon
        <5>6. AtOption(k + 1)'
          BY <1>1, <5>4, <5>5 DEF AtOption
        <5> QED
          BY <5>5, <5>6
      <4>2. CASE m.ok = FALSE
        <5>1. rp' = rp
          BY <2>4, <2>5, <4>2
        <5>2. AtOption(k)'
          BY <1>1, <1>5, <5>1 DEF AtOption
        <5> QED
          BY <5>2
      <4> QED
        BY <1>11, <4>1, <4>2
    <3>7. WalkInv'
      BY <3>6 DEF WalkInv
    <3> QED
      BY <1>7, <1>9, <2>6, <2>8, <3>3, <3>5, <3>7 DEF Inv, ParserInv
  <2> QED
    BY <2>10, <2>11, <2>12
<1> QED
  BY <1>12, <1>13

(* The handler, up to serializeOptionList.                                 *)
LEMMA DispatchStep == Inv /\ Dispatch => Inv'
<1> SUFFICES ASSUME Inv, Dispatch PROVE Inv'
  OBVIOUS
<1>1. pc = "dispatch" /\ UNCHANGED <<area, rp, opts, refused, out, wp, next>>
  BY DEF Dispatch, parseVars
<1>2. reply = <<>> /\ next = 1 /\ wp = 1 /\ out = [i \in 1..AreaSize |-> 0] /\ opts \in Seq(Node)
  BY <1>1 DEF Inv, WriterInv, EmptyInv, TypeOK
<1>3. \/ pc' \in {"done", "nullDeref"} /\ reply' = reply
      \/ /\ pc' \in {"serialize", "nullDeref"}
         /\ \E t \in {DHCP_OFFER, DHCP_ACK} : reply' = ReplyList(t, opts)
  <2>1. \A b : HandlerOf(b) # 0 => HandlerOf(b) \in {DHCP_OFFER, DHCP_ACK}
    BY DEF HandlerOf
  <2> QED
    BY <2>1 DEF Dispatch
<1>4. ParserInv'
  <2>1. pc' \notin {"first", "parse", "dispatch", "readPast"}
    BY <1>3
  <2> QED
    BY <1>1, <2>1 DEF Inv, ParserInv, ParsedIsPrefix, ReadsPastOnlyWithoutEnd, ParseInv, WalkInv
<1>5. CASE pc' \in {"done", "nullDeref"} /\ reply' = reply
  <2>1. TypeOK'
    BY <1>1, <1>5 DEF Inv, TypeOK, Stopped
  <2>2. WriterInv'
    BY <1>2, <1>5 DEF WriterInv, EmptyInv, ReplyInv, SerialInv, ReplyFits, ReplyReadsBack
  <2> QED
    BY <1>4, <2>1, <2>2 DEF Inv
<1>6. CASE /\ pc' \in {"serialize", "nullDeref"}
           /\ \E t \in {DHCP_OFFER, DHCP_ACK} : reply' = ReplyList(t, opts)
  <2>1. PICK t \in {DHCP_OFFER, DHCP_ACK} : reply' = ReplyList(t, opts)
    BY <1>6
  <2>2. PICK n \in Nat : reply' \in Seq(Option) /\ Len(reply') = n + 2
    BY <1>2, <2>1, ReplyShape
  <2>3. TypeOK'
    BY <1>1, <1>6, <2>2 DEF Inv, TypeOK, Stopped
  <2>4. ReplyInv'
    <3>1. reply' # <<>>
      BY <2>2
    <3> QED
      BY <1>1, <2>1, <3>1 DEF ReplyInv
  <2>5. SerialInv'
    <3>1. Written(reply')[0] = 1
      BY <2>2, WrittenSteps
    <3>2. next' = 1 /\ wp' = 1 /\ out' = [i \in 1..AreaSize |-> 0] /\ 0 <= Len(reply')
      BY <1>1, <1>2, <2>2
    <3>3. \A i \in wp'..AreaSize : out'[i] = 0
      BY <3>2, CodecAssumption
    <3>4. next' - 1 = 0 /\ \A i \in 1..(next' - 1) : FALSE
      BY <3>2
    <3> QED
      BY <3>1, <3>2, <3>3, <3>4 DEF SerialInv
  <2>6. WriterInv'
    BY <1>6, <2>4, <2>5 DEF WriterInv, EmptyInv, ReplyFits, ReplyReadsBack
  <2> QED
    BY <1>4, <2>3, <2>6 DEF Inv
<1> QED
  BY <1>3, <1>5, <1>6

(* appendOptionToArray: what it writes and where.                          *)
LEMMA EncodeFacts ==
    ASSUME NEW o \in Option, Len(o.data) \in Byte
    PROVE  /\ EncodeOption(o) \in Seq(Byte) /\ Len(EncodeOption(o)) = 2 + Len(o.data)
           /\ EncodeOption(o)[1] = o.id /\ EncodeOption(o)[2] = Len(o.data)
           /\ \A j \in 1..Len(o.data) : EncodeOption(o)[j + 2] = o.data[j]
<1>1. PICK d \in Seq(Byte), c \in Byte : d = o.data /\ c = o.id
  BY DEF Option
<1>2. PICK n \in Byte : n = Len(d)
  BY <1>1
<1>3. n \in Nat
  BY DEF Byte
<1>4. EncodeOption(o) = <<c, n>> \o d
  BY <1>1, <1>2, Zenon DEF EncodeOption
<1>5. <<c, n>> \in Seq(Byte) /\ Len(<<c, n>>) = 2
  OBVIOUS
<1>6. <<c, n>> \o d \in Seq(Byte) /\ Len(<<c, n>> \o d) = 2 + n
  BY <1>2, <1>3, <1>5
<1>7. (<<c, n>> \o d)[1] = c /\ (<<c, n>> \o d)[2] = n
  BY <1>2, <1>3
<1>8. \A j \in 1..n : (<<c, n>> \o d)[j + 2] = d[j]
  BY <1>2, <1>3
<1> QED
  BY <1>1, <1>2, <1>4, <1>6, <1>7, <1>8, Zenon

LEMMA WriteFacts ==
    ASSUME NEW a \in [1..AreaSize -> Byte], NEW p \in Nat, p # 0, NEW s \in Seq(Byte),
           p + Len(s) - 1 <= AreaSize
    PROVE  /\ Write(a, p, s) \in [1..AreaSize -> Byte]
           /\ \A i \in 1..Len(s) : Write(a, p, s)[p + i - 1] = s[i]
           /\ \A i \in 1..AreaSize : i < p \/ i >= p + Len(s) => Write(a, p, s)[i] = a[i]
<1>1. PICK n \in Nat : n = Len(s) /\ DOMAIN s = 1..n
  OBVIOUS
<1>2. PICK w : w = [i \in 1..AreaSize |-> IF i \in p..(p + n - 1) THEN s[i - p + 1] ELSE a[i]]
  OBVIOUS
<1>3. Write(a, p, s) = w
  BY <1>1, <1>2 DEF Write
<1>4. \A i \in p..(p + n - 1) : i - p + 1 \in 1..n
  BY <1>1
<1>5. \A j \in 1..n : s[j] \in Byte
  BY <1>1
<1>6. \A i \in p..(p + n - 1) : s[i - p + 1] \in Byte
  BY <1>4, <1>5, Zenon
<1>7. \A i \in 1..AreaSize : w[i] = IF i \in p..(p + n - 1) THEN s[i - p + 1] ELSE a[i]
  BY <1>2
<1>8. w \in [1..AreaSize -> Byte]
  <2>1. \A i \in 1..AreaSize : a[i] \in Byte
    OBVIOUS
  <2>2. \A i \in 1..AreaSize : (IF i \in p..(p + n - 1) THEN s[i - p + 1] ELSE a[i]) \in Byte
    BY <1>6, <2>1, Zenon
  <2> QED
    BY <1>2, <2>2, Zenon
<1>9. \A i \in 1..n : w[p + i - 1] = s[i]
  <2> SUFFICES ASSUME NEW i \in 1..n PROVE w[p + i - 1] = s[i]
    OBVIOUS
  <2>1. PICK x \in 1..AreaSize : x = p + i - 1 /\ x \in p..(p + n - 1) /\ x - p + 1 = i
    BY <1>1, CodecAssumption
  <2> QED
    BY <1>7, <2>1
<1>10. \A i \in 1..AreaSize : i < p \/ i >= p + n => w[i] = a[i]
  <2>1. \A i \in 1..AreaSize : i < p \/ i >= p + n => i \notin p..(p + n - 1)
    BY <1>1
  <2> QED
    BY <1>7, <2>1, Zenon
<1> QED
  BY <1>1, <1>3, <1>8, <1>9, <1>10, Zenon

(* What stands before the place of a write is still there.                 *)
LEMMA StillStands ==
    ASSUME NEW o \in Option, NEW a, NEW b, NEW p \in Nat, p # 0, StandsAt(o, a, p), NEW w \in Nat,
           p + (2 + Len(o.data)) <= w, \A i \in 1..AreaSize : i < w => b[i] = a[i]
    PROVE  StandsAt(o, b, p)
<1>1. PICK n \in Nat : n = Len(o.data)
  BY DEF Option
<1>2. /\ p + 1 + n <= AreaSize /\ a[p] = o.id /\ a[p + 1] = n
      /\ \A j \in 1..n : a[p + 1 + j] = o.data[j]
  BY <1>1, Zenon DEF StandsAt
<1>3. p + (2 + n) <= w
  BY <1>1
<1>4. b[p] = a[p] /\ b[p + 1] = a[p + 1]
  <2>1. p \in 1..AreaSize /\ p < w /\ p + 1 \in 1..AreaSize /\ p + 1 < w
    BY <1>2, <1>3, CodecAssumption
  <2> QED
    BY <2>1
<1>5. \A j \in 1..n : b[p + 1 + j] = a[p + 1 + j]
  <2>1. \A j \in 1..n : p + 1 + j \in 1..AreaSize /\ p + 1 + j < w
    BY <1>2, <1>3, CodecAssumption
  <2> QED
    BY <2>1
<1> QED
  BY <1>1, <1>2, <1>4, <1>5, Zenon DEF StandsAt

(* An area in which the options of a list stand one behind the other is    *)
(* read option by option.                                                  *)
LEMMA ReadBack ==
    ASSUME NEW r \in Seq(Option), NEW a \in [1..AreaSize -> Byte],
           \A i \in 1..Len(r) : StandsAt(r[i], a, Written(r)[i - 1])
    PROVE  Len(r) <= AreaSize /\ Starts(a)[Len(r)] = Written(r)[Len(r)]
<1>1. PICK n \in Nat : n = Len(r)
  OBVIOUS
<1>2. PICK W : W = Written(r)
  OBVIOUS
<1>3. /\ W[0] = 1 /\ \A i \in 0..n : W[i] \in Nat
      /\ \A i \in 1..n : W[i] = W[i - 1] + (2 + Len(r[i].data))
  BY <1>1, <1>2, WrittenSteps
<1>4. PICK T : T = {k \in 0..n : k \in 0..AreaSize /\ 2 * k < W[k] /\ Starts(a)[k] = W[k]}
  OBVIOUS
<1>5. 0 \in T
  <2>1. Starts(a)[0] = 1
    BY StartsSteps
  <2> QED
    BY <1>3, <1>4, <2>1, CodecAssumption
<1>6. ASSUME NEW k \in 0..n, k < n, k \in T PROVE k + 1 \in T
  <2>1. k + 1 \in 1..n /\ k + 1 \in 0..n /\ k + 1 - 1 = k
    BY <1>6
  <2>2. k \in 0..AreaSize /\ 2 * k < W[k] /\ Starts(a)[k] = W[k] /\ W[k] \in Nat
    BY <1>3, <1>4, <1>6
  <2>3. PICK i \in 1..n : i = k + 1 /\ i - 1 = k
    BY <2>1
  <2>4. PICK p \in Nat : p = W[k]
    BY <2>2
  <2>5. StandsAt(r[i], a, p) /\ r[i] \in Option /\ W[i] = p + (2 + Len(r[i].data))
    <3>1. StandsAt(r[i], a, W[i - 1]) /\ r[i] \in Option
      BY <1>1, <1>2
    <3>2. W[i] = W[i - 1] + (2 + Len(r[i].data))
      BY <1>3
    <3> QED
      BY <2>3, <2>4, <3>1, <3>2, Zenon
  <2>6. PICK l \in Nat : l = Len(r[i].data) /\ p + 1 + l <= AreaSize /\ a[p + 1] = l
    <3>1. Len(r[i].data) \in Nat
      BY <2>5 DEF Option
    <3> QED
      BY <2>5, <3>1 DEF StandsAt
  <2>7. p \in 1..AreaSize /\ p < AreaSize
    <3>1. k \in Nat /\ 2 * k < p
      BY <2>2, <2>4
    <3>2. p >= 1
      BY <3>1
    <3>3. p + 1 + l <= AreaSize /\ AreaSize \in Nat
      BY <2>6, CodecAssumption
    <3> QED
      BY <3>2, <3>3
  <2>8. k + 1 \in 0..AreaSize /\ Starts(a)[k + 1] = p + 2 + l
    BY <2>2, <2>4, <2>6, <2>7, NextStart, Zenon
  <2>9. W[k + 1] = p + 2 + l
    <3>1. W[k + 1] = p + (2 + l)
      BY <2>3, <2>5, <2>6, Zenon
    <3> QED
      BY <3>1
  <2>10. 2 * (k + 1) < p + 2 + l
    BY <2>2, <2>4
  <2> QED
    BY <1>4, <2>1, <2>8, <2>9, <2>10
<1>7. n \in T
  <2>1. \A i \in 0..n : i < n /\ i \in T => i + 1 \in T
    BY <1>6
  <2>2. \A i \in 0..n : i \in T
    BY <1>5, <2>1, Stepwise
  <2>3. n \in 0..n
    OBVIOUS
  <2> QED
    BY <2>2, <2>3
<1> QED
  BY <1>1, <1>2, <1>4, <1>7, CodecAssumption

(* One round of serializeOptionList, or its END.                           *)
LEMMA SerializeStep == Inv /\ SerializeRound => Inv'
<1> SUFFICES ASSUME Inv, SerializeRound PROVE Inv'
  OBVIOUS
<1>1. pc = "serialize" /\ UNCHANGED <<area, rp, opts, refused, reply>>
  BY DEF SerializeRound, parseVars
<1>2. /\ opts \in Seq(Node) /\ out \in [1..AreaSize -> Byte] /\ wp \in Nat /\ wp # 0
      /\ next \in Nat \ {0} /\ AreaSize \in Nat /\ AreaSize >= 22 /\ reply # <<>>
  BY <1>1, CodecAssumption DEF Inv, TypeOK, WriterInv, ReplyInv
<1>3. PICK t \in {DHCP_OFFER, DHCP_ACK} : reply = ReplyList(t, opts)
  BY <1>1 DEF Inv, WriterInv, ReplyInv
<1>4. PICK n \in Nat : /\ reply \in Seq(Option) /\ Len(reply) = n
                       /\ \A i \in 1..n : reply[i] \in Option /\ Len(reply[i].data) \in 0..4
  <2>1. PICK k \in Nat : /\ reply \in Seq(Option) /\ Len(reply) = k + 2 /\ Len(reply[1].data) = 1
                         /\ \A i \in 2..(k + 2) : Len(reply[i].data) = 4
    <3>0. PICK list \in Seq(Node) : list = opts
      BY <1>2
    <3>1. PICK r : list = opts /\ r = reply /\ r = ReplyList(t, list)
      BY <1>3, <3>0
    <3>2. \E m \in Nat : /\ r \in Seq(Option) /\ Len(r) = m + 2 /\ Len(r[1].data) = 1
                        /\ \A i \in 2..(m + 2) : Len(r[i].data) = 4
      BY <3>1, ReplyShape, SMTT(30)
    <3> QED
      BY <3>1, <3>2, Zenon
  <2>2. \A i \in 1..(k + 2) : i = 1 \/ i \in 2..(k + 2)
    OBVIOUS
  <2>3. \A i \in 1..(k + 2) : Len(reply[i].data) \in 0..4
    BY <2>1, <2>2
  <2>4. \A i \in 1..(k + 2) : reply[i] \in Option
    BY <2>1
  <2> QED
    BY <2>1, <2>3, <2>4
<1>5. PICK W : W = Written(reply)
  OBVIOUS
<1>6. /\ W[0] = 1 /\ \A i \in 0..n : W[i] \in Nat
      /\ \A i \in 1..n : W[i] = W[i - 1] + (2 + Len(reply[i].data))
  BY <1>4, <1>5, WrittenSteps
<1>7. PICK x \in Nat : x = next - 1 /\ next = x + 1 /\ x <= n /\ x \in 0..n
  BY <1>1, <1>2, <1>4 DEF Inv, WriterInv, SerialInv
<1>8. /\ wp = W[x]
      /\ \A i \in 1..x : StandsAt(reply[i], out, W[i - 1]) /\ W[i] <= wp
      /\ \A i \in wp..AreaSize : out[i] = 0
  BY <1>1, <1>5, <1>7 DEF Inv, WriterInv, SerialInv
<1>9. NoDuplicates(Asked(opts)) => \A i \in 1..n : W[i] <= 22
  BY <1>2, <1>3, <1>4, <1>5, WrittenBound
<1>10. ASSUME pc' \in {"serialize", "done", "writtenPast"} PROVE ParserInv'
  BY <1>1, <1>10 DEF Inv, ParserInv, ParsedIsPrefix, ReadsPastOnlyWithoutEnd, ParseInv, WalkInv
<1>11. ReplyInv'
  BY <1>1, <1>2, <1>3 DEF ReplyInv
<1>12. PICK s : s = IF next <= Len(reply) THEN EncodeOption(reply[next]) ELSE <<END>>
  OBVIOUS
<1>13. IF wp + Len(s) - 1 > AreaSize
       THEN pc' = "writtenPast" /\ UNCHANGED <<out, wp, next>>
       ELSE /\ out' = Write(out, wp, s)
            /\ wp' = wp + Len(s)
            /\ next' = next + 1
            /\ pc' = IF next <= Len(reply) THEN "serialize" ELSE "done"
  BY <1>12 DEF SerializeRound
<1>14. CASE next <= Len(reply)
  <2>1. PICK i \in 1..n : i = x + 1 /\ i = next /\ i - 1 = x
    BY <1>4, <1>7, <1>14
  <2>2. PICK o \in Option, l \in Nat : o = reply[i] /\ l = Len(o.data) /\ l \in 0..4
    <3>1. reply[i] \in Option /\ Len(reply[i].data) \in 0..4
      BY <1>4
    <3>2. \A y \in 0..4 : y \in Nat
      OBVIOUS
    <3> QED
      BY <3>1, <3>2, Zenon
  <2>3. s = EncodeOption(o)
    BY <1>12, <1>14, <2>1, <2>2
  <2>4. /\ s \in Seq(Byte) /\ Len(s) = 2 + l /\ s[1] = o.id /\ s[2] = l
        /\ \A j \in 1..l : s[j + 2] = o.data[j]
    <3>1. Len(o.data) \in Byte
      BY <2>2 DEF Byte
    <3> QED
      BY <2>2, <2>3, <3>1, EncodeFacts
  <2>5. W[i] = wp + (2 + l)
    BY <1>6, <1>8, <2>1, <2>2
  <2>6. CASE wp + Len(s) - 1 > AreaSize
    <3>1. pc' = "writtenPast" /\ UNCHANGED <<out, wp, next>>
      BY <1>13, <2>6
    <3>2. ~NoDuplicates(Asked(opts))
      <4>1. ~(W[i] <= 22)
        BY <1>2, <2>4, <2>5, <2>6
      <4> QED
        BY <1>9, <4>1
    <3>3. TypeOK'
      BY <1>1, <3>1 DEF Inv, TypeOK, Stopped
    <3>4. WriterInv'
      BY <1>1, <1>11, <3>1, <3>2 DEF WriterInv, EmptyInv, SerialInv, ReplyFits, ReplyReadsBack
    <3> QED
      BY <1>10, <3>1, <3>3, <3>4 DEF Inv
  <2>7. CASE ~(wp + Len(s) - 1 > AreaSize)
    <3>1. /\ out' = Write(out, wp, s) /\ wp' = W[i] /\ next' = next + 1 /\ pc' = "serialize"
          /\ wp + Len(s) - 1 <= AreaSize
      BY <1>2, <1>13, <1>14, <2>4, <2>5, <2>7
    <3>2. PICK b \in [1..AreaSize -> Byte] :
             /\ b = out' /\ \A j \in 1..(2 + l) : b[wp + j - 1] = s[j]
             /\ \A j \in 1..AreaSize : j < wp \/ j >= wp + (2 + l) => b[j] = out[j]
      <4>1. /\ Write(out, wp, s) \in [1..AreaSize -> Byte]
            /\ \A j \in 1..Len(s) : Write(out, wp, s)[wp + j - 1] = s[j]
            /\ \A j \in 1..AreaSize : j < wp \/ j >= wp + Len(s) => Write(out, wp, s)[j] = out[j]
        BY <1>2, <2>4, <3>1, WriteFacts
      <4> QED
        BY <2>4, <3>1, <4>1, Zenon
    <3>3. wp' \in 1..(AreaSize + 1) /\ wp' = wp + (2 + l) /\ wp' \in Nat
      BY <1>2, <2>4, <2>5, <3>1
    <3>4. TypeOK'
      BY <1>1, <1>2, <3>1, <3>2, <3>3 DEF Inv, TypeOK
    <3>5. StandsAt(o, b, wp)
      <4>1. b[wp] = o.id /\ b[wp + 1] = l
        <5>1. 1 \in 1..(2 + l) /\ 2 \in 1..(2 + l) /\ wp + 1 - 1 = wp /\ wp + 2 - 1 = wp + 1
          BY <1>2
        <5> QED
          BY <2>4, <3>2, <5>1, Zenon
      <4>2. ASSUME NEW j \in 1..l PROVE b[wp + 1 + j] = o.data[j]
        <5>1. PICK y \in 1..(2 + l) : y = j + 2 /\ wp + y - 1 = wp + 1 + j
          BY <1>2
        <5> QED
          BY <2>4, <3>2, <5>1, Zenon
      <4>3. wp + 1 + l <= AreaSize
        BY <1>2, <2>4, <3>1
      <4> QED
        BY <2>2, <4>1, <4>2, <4>3, Zenon DEF StandsAt
    <3>6. ASSUME NEW j \in 1..i PROVE StandsAt(reply[j], b, W[j - 1]) /\ W[j] <= wp'
      <4>1. CASE j = i
        <5>1. W[j - 1] = wp
          BY <1>8, <2>1, <4>1
        <5>2. wp' <= wp'
          BY <3>3
        <5> QED
          BY <2>2, <3>1, <3>5, <4>1, <5>1, <5>2, Zenon
      <4>2. CASE j # i
        <5>1. j \in 1..x /\ j \in 1..n /\ j - 1 \in 0..n /\ j \in 0..n
          BY <2>1, <4>2
        <5>2. StandsAt(reply[j], out, W[j - 1]) /\ W[j] <= wp /\ reply[j] \in Option
          BY <1>4, <1>8, <5>1
        <5>3. PICK q \in Nat : q = W[j - 1] /\ q # 0
          <6>1. W[j - 1] \in Nat /\ W[j - 1] # 0
            BY <1>4, <1>5, <5>1, WrittenPositive
          <6> QED
            BY <6>1
        <5>4. q + (2 + Len(reply[j].data)) <= wp
          BY <1>6, <5>1, <5>2, <5>3
        <5>5. \A y \in 1..AreaSize : y < wp => b[y] = out[y]
          BY <3>2
        <5>6. StandsAt(reply[j], b, q)
          BY <1>2, <5>2, <5>3, <5>4, <5>5, StillStands
        <5>7. W[j] <= wp'
          BY <1>2, <1>6, <2>2, <3>3, <5>1, <5>2, SMTT(30)
        <5> QED
          BY <5>3, <5>6, <5>7, Zenon
      <4> QED
        BY <4>1, <4>2
    <3>7. \A j \in wp'..AreaSize : b[j] = 0
      <4>1. \A j \in wp'..AreaSize : j \in 1..AreaSize /\ j >= wp + (2 + l) /\ j \in wp..AreaSize
        BY <1>2, <2>2, <3>3
      <4> QED
        BY <1>8, <3>2, <4>1, Zenon
    <3>8. SerialInv'
      <4>1. next' - 1 = i /\ i <= Len(reply)
        BY <1>4, <2>1, <3>1
      <4> QED
        BY <1>1, <1>5, <3>1, <3>2, <3>6, <3>7, <4>1, Zenon DEF SerialInv
    <3>9. WriterInv'
      BY <1>11, <3>1, <3>8 DEF WriterInv, EmptyInv, ReplyFits, ReplyReadsBack
    <3> QED
      BY <1>10, <3>1, <3>4, <3>9 DEF Inv
  <2> QED
    BY <2>6, <2>7
<1>15. CASE ~(next <= Len(reply))
  <2>1. x = n /\ s = <<END>> /\ Len(s) = 1 /\ s[1] = END /\ s \in Seq(Byte) /\ wp = W[n]
    <3>1. x = n
      BY <1>4, <1>7, <1>15
    <3>2. s = <<END>>
      BY <1>12, <1>15
    <3>3. END \in Byte
      BY DEF END, Byte
    <3> QED
      BY <1>8, <3>1, <3>2, <3>3
  <2>2. n \in 1..n
    BY <1>2, <1>4
  <2>3. CASE wp + Len(s) - 1 > AreaSize
    <3>1. pc' = "writtenPast" /\ UNCHANGED <<out, wp, next>>
      BY <1>13, <2>3
    <3>2. ~NoDuplicates(Asked(opts))
      <4>1. ~(W[n] <= 22)
        BY <1>2, <2>1, <2>3
      <4> QED
        BY <1>9, <2>2, <4>1
    <3>3. TypeOK'
      BY <1>1, <3>1 DEF Inv, TypeOK, Stopped
    <3>4. WriterInv'
      BY <1>1, <1>11, <3>1, <3>2 DEF WriterInv, EmptyInv, SerialInv, ReplyFits, ReplyReadsBack
    <3> QED
      BY <1>10, <3>1, <3>3, <3>4 DEF Inv
  <2>4. CASE ~(wp + Len(s) - 1 > AreaSize)
    <3>1. /\ out' = Write(out, wp, s) /\ wp' = wp + 1 /\ next' = next + 1 /\ pc' = "done"
          /\ wp + Len(s) - 1 <= AreaSize /\ wp \in 1..AreaSize
      BY <1>2, <1>13, <1>15, <2>1, <2>4
    <3>2. PICK b \in [1..AreaSize -> Byte] :
             /\ b = out' /\ b[wp] = END
             /\ \A j \in 1..AreaSize : j < wp \/ j >= wp + 1 => b[j] = out[j]
      <4>1. /\ Write(out, wp, s) \in [1..AreaSize -> Byte]
            /\ \A j \in 1..Len(s) : Write(out, wp, s)[wp + j - 1] = s[j]
            /\ \A j \in 1..AreaSize : j < wp \/ j >= wp + Len(s) => Write(out, wp, s)[j] = out[j]
        BY <1>2, <2>1, <3>1, WriteFacts, Zenon
      <4>2. 1 \in 1..1 /\ wp + 1 - 1 = wp
        BY <1>2
      <4> QED
        BY <2>1, <3>1, <4>1, <4>2, Zenon
    <3>3. TypeOK'
      BY <1>1, <1>2, <3>1, <3>2 DEF Inv, TypeOK, Stopped
    <3>4. ASSUME NEW j \in 1..n PROVE StandsAt(reply[j], b, W[j - 1])
      <4>1. j - 1 \in 0..n /\ j \in 0..n
        OBVIOUS
      <4>2. StandsAt(reply[j], out, W[j - 1]) /\ W[j] <= wp /\ reply[j] \in Option
        BY <1>4, <1>8, <2>1
      <4>3. PICK q \in Nat : q = W[j - 1] /\ q # 0
        <5>1. W[j - 1] \in Nat /\ W[j - 1] # 0
          BY <1>4, <1>5, <4>1, WrittenPositive
        <5> QED
          BY <5>1
      <4>4. q + (2 + Len(reply[j].data)) <= wp
        BY <1>6, <4>2, <4>3
      <4>5. \A y \in 1..AreaSize : y < wp => b[y] = out[y]
        BY <3>2
      <4>6. StandsAt(reply[j], b, q)
        BY <1>2, <4>2, <4>3, <4>4, <4>5, StillStands
      <4> QED
        BY <4>3, <4>6, Zenon
    <3>5. HasEnd(b)
      <4>1. n \in 0..AreaSize /\ Starts(b)[n] = wp
        <5>1. Len(reply) <= AreaSize /\ Starts(b)[Len(reply)] = Written(reply)[Len(reply)]
          BY <1>4, <1>5, <3>4, ReadBack
        <5> QED
          BY <1>2, <1>4, <1>5, <2>1, <5>1
      <4>2. Starts(b)[n] <= AreaSize /\ b[Starts(b)[n]] = END
        BY <1>2, <3>1, <3>2, <4>1
      <4> QED
        BY <4>1, <4>2 DEF HasEnd
    <3>6. \A j \in (wp + 1)..AreaSize : b[j] = 0
      <4>1. \A j \in (wp + 1)..AreaSize : j \in 1..AreaSize /\ j >= wp + 1 /\ j \in wp..AreaSize
        BY <1>2
      <4> QED
        BY <1>8, <3>2, <4>1, Zenon
    <3>7. ReplyReadsBack'
      <4>1. DOMAIN reply = 1..n
        BY <1>4
      <4>2. \A j \in DOMAIN reply : StandsAt(reply[j], out', Written(reply)[j - 1])
        BY <1>5, <3>2, <3>4, <4>1, Zenon
      <4>3. wp = Written(reply)[Len(reply)] /\ out'[wp] = END
        BY <1>4, <1>5, <2>1, <3>2, Zenon
      <4>4. (\A j \in (wp + 1)..AreaSize : out'[j] = 0) /\ HasEnd(out')
        BY <3>2, <3>5, <3>6, Zenon
      <4> QED
        BY <1>1, <3>1, <4>2, <4>3, <4>4 DEF ReplyReadsBack
    <3>8. WriterInv'
      BY <1>11, <3>1, <3>7 DEF WriterInv, EmptyInv, SerialInv, ReplyFits
    <3> QED
      BY <1>10, <3>1, <3>3, <3>8 DEF Inv
  <2> QED
    BY <2>3, <2>4
<1> QED
  BY <1>14, <1>15

(* A state that does not change.                                           *)
LEMMA StutterStep == Inv /\ UNCHANGED vars => Inv'
<1> SUFFICES ASSUME Inv, UNCHANGED vars PROVE Inv'
  OBVIOUS
<1>1. UNCHANGED <<pc, area, rp, opts, refused, reply, out, wp, next>>
  BY DEF vars, parseVars, replyVars
<1>2. TypeOK'
  BY <1>1 DEF Inv, TypeOK
<1>3. ParserInv'
  BY <1>1 DEF Inv, ParserInv, ParsedIsPrefix, ReadsPastOnlyWithoutEnd, ParseInv, WalkInv, AtOption
<1>4. WriterInv'
  BY <1>1 DEF Inv, WriterInv, EmptyInv, ReplyInv, SerialInv, ReplyFits, ReplyReadsBack
<1> QED
  BY <1>2, <1>3, <1>4 DEF Inv

LEMMA NextInv == Inv /\ [Next]_vars => Inv'
BY FirstStep, RoundStep, DispatchStep, SerializeStep, StutterStep DEF Next, Halted

(* The inductive invariant of the options code, for an area of any size    *)
(* from 22 bytes on that holds any bytes, and any refused mallocs.         *)
THEOREM CodecInvariance == Spec => []Inv
BY InitInv, NextInv, PTL DEF Spec

(* parseDhcpOptionList stores what the area says, whatever the bytes are   *)
(* and whichever mallocs fail, and it leaves the area exactly when no END  *)
(* stands where an option would start.                                     *)
THEOREM ParserIsRight == Spec => []ParserFollowsArea
<1>1. Inv => ParserFollowsArea
  BY DEF Inv, ParserInv, ParserFollowsArea
<1> QED
  BY <1>1, CodecInvariance, PTL

(* serializeOptionList stays in the reply's options area, which it never   *)
(* compares its pointer with, for every request that lists no parameter    *)
(* twice.                                                                  *)
THEOREM RepliesFit == Spec => []ReplyFits
<1>1. Inv => ReplyFits
  BY DEF Inv, WriterInv
<1> QED
  BY <1>1, CodecInvariance, PTL

(* The bytes that serializeOptionList writes read back, option by option,  *)
(* as the list the handler built, with the END behind it.                  *)
THEOREM RepliesReadBack == Spec => []ReplyReadsBack
<1>1. Inv => ReplyReadsBack
  BY DEF Inv, WriterInv
<1> QED
  BY <1>1, CodecInvariance, PTL

=============================================================================
