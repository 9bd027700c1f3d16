---------------------------- MODULE TasksProofs ----------------------------
(***************************************************************************)
(* Theorems about Tasks: for mailboxes of any size and any delay.          *)
(***************************************************************************)
EXTENDS Tasks, SequenceTheorems, TLAPS

(* A ring holds its tasks and the end marker, each once.                   *)
IsRing(ring, S) ==
    /\ ring \in Seq(S \union {End})
    /\ \A x \in S \union {End} : \E i \in 1..Len(ring) : ring[i] = x
    /\ \A i, j \in 1..Len(ring) : ring[i] = ring[j] => i = j

(* The ready lists hold the tasks of S, each at its own priority.          *)
AtPrio(S, p) == {t \in S : Prio(t) = p}
Listed(lists, S) ==
    /\ lists = [p \in 0..2 |-> lists[p]]
    /\ \A p \in 0..2 : IsRing(lists[p], AtPrio(S, p))

ReadyTasks == {t \in Tasks : state[t] = "ready"}
States == {"none", "ready", "blocked", "delayed", "suspended", "deleted"}
KernelInv ==
    /\ state \in [Tasks -> States] /\ cur \in Tasks /\ ran \in BOOLEAN
    /\ Listed(ready, ReadyTasks)
    /\ HighestRuns

Labels == {"lwip", "wait", "add", "config", "delete", "returned", "start", "fetch", "woken",
           "run", "listen", "close", "resume", "suspend", "first", "post", "delay"}
DataInv ==
    /\ pc \in [Tasks -> Labels]
    /\ delay \in 0..DelayTicks /\ frames \in 0..MaxFrames /\ rx \in 0..MaxRx
    /\ sock \in {"none", "udp", "tcp", "closed"}
    /\ bound \in BOOLEAN /\ tcpipUp \in BOOLEAN /\ netUp \in BOOLEAN

(* Where each task may be, by what it executes next.                       *)
PlaceInv ==
    /\ state["xemac"] = "ready" /\ state["idle"] = "ready"
    /\ state["init"] = "ready" \/ (state["init"] = "deleted" /\ pc["init"] = "delete")
    /\ pc["init"] \in {"lwip", "wait", "add"} => state["link"] = "none"
    /\ pc["init"] = "delete" => netUp
    /\ pc["init"] = "lwip" <=> state["tcpip"] = "none"
    /\ state["tcpip"] \in {"none", "ready", "blocked"}
    /\ state["tcpip"] # "ready" => frames = 0
    /\ state["dhcp"] = "ready" \/ (state["dhcp"] = "suspended" /\ pc["dhcp"] = "suspend")
    /\ pc["dhcp"] \in {"start", "listen", "close", "resume", "suspend"}
    /\ \/ pc["http"] \in {"first", "delay"} /\ state["http"] = "ready"
       \/ pc["http"] = "post" /\ state["http"] \in {"suspended", "delayed", "ready"}
       \/ pc["http"] = "wait" /\ state["http"] \in {"blocked", "ready"}
    /\ delay > 0 <=> state["http"] = "delayed"

(* The hand-over of sock: as long as dhcpTask has not resumed it, the HTTP *)
(* task has not run beyond its vTaskSuspend.                               *)
HandoverInv ==
    /\ pc["dhcp"] \in {"start", "listen", "close", "resume"} =>
          pc["http"] = "first" \/ (pc["http"] = "post" /\ state["http"] = "suspended")
    /\ SockIsDhcps

(* The ring of the applications in its first turn.                         *)
Turn1 == <<"xemac", "dhcp", "http", End>>
Turn2 == <<"dhcp", "http", End, "xemac">>
Turn3 == <<"http", End, "xemac", "dhcp">>
Turn4 == <<End, "xemac", "dhcp", "http">>

(* Until the HTTP task has run, the ring of the applications is in its     *)
(* first turn, and no datagram can have reached the DHCP socket.           *)
StartInv ==
    pc["http"] = "first" =>
        /\ rx = 0 /\ pc["dhcp"] \in {"start", "listen"}
        /\ \/ /\ ready[1] = Turn1 /\ cur \in {"init", "tcpip"}
              /\ pc["dhcp"] = "start" /\ ~bound
           \/ /\ ready[1] = Turn2 /\ cur \in {"xemac", "tcpip"}
              /\ pc["dhcp"] = "start" /\ ~bound /\ state["init"] = "deleted"
           \/ /\ ready[1] = Turn3 /\ cur \in {"dhcp", "tcpip"}
              /\ frames = 0 /\ state["init"] = "deleted"
           \/ /\ ready[1] = Turn4 /\ cur = "http" /\ ~ran

Inv == KernelInv /\ DataInv /\ PlaceInv /\ HandoverInv /\ StartInv

-----------------------------------------------------------------------------
(* The priorities of the seven tasks.                                      *)
LEMMA PrioFacts ==
    /\ Prio("init") = 2 /\ Prio("tcpip") = 2
    /\ Prio("xemac") = 1 /\ Prio("dhcp") = 1 /\ Prio("http") = 1
    /\ Prio("link") = 0 /\ Prio("idle") = 0
    /\ \A t \in Tasks : Prio(t) \in 0..2
    /\ End \notin Tasks
BY DEF Prio, Tasks, End

(* A list has at least its end marker.                                     *)
LEMMA RingLen ==
    ASSUME NEW S, NEW ring, IsRing(ring, S)
    PROVE  Len(ring) \in Nat /\ Len(ring) >= 1
<1>1. Len(ring) \in Nat
  BY DEF IsRing
<1>2. PICK i \in 1..Len(ring) : ring[i] = End
  BY DEF IsRing
<1> QED
  BY <1>1, <1>2

(* vListInsertEnd: the new item comes just before the current one.         *)
LEMMA InsertElements ==
    ASSUME NEW A, NEW ring \in Seq(A), NEW t \in A, Len(ring) >= 1
    PROVE  /\ Insert(ring, t) \in Seq(A) /\ Len(Insert(ring, t)) = Len(ring) + 1
           /\ \A i \in 1..(Len(ring) - 1) : Insert(ring, t)[i] = ring[i]
           /\ Insert(ring, t)[Len(ring)] = t
           /\ Insert(ring, t)[Len(ring) + 1] = ring[Len(ring)]
<1>n. PICK n \in Nat : n = Len(ring) /\ n >= 1
  BY LenProperties
<1>1. PICK new : new = Insert(ring, t)
  OBVIOUS
<1>2. PICK head : head = SubSeq(ring, 1, n - 1)
  OBVIOUS
<1>3. head \in Seq(A) /\ Len(head) = n - 1 /\ \A i \in 1..(n - 1) : head[i] = ring[i]
  BY <1>n, <1>2
<1>4. new = head \o <<t, ring[n]>>
  BY <1>n, <1>1, <1>2 DEF Insert, Current
<1>5. <<t, ring[n]>> \in Seq(A)
  BY <1>n
<1>6. /\ new \in Seq(A) /\ Len(new) = n + 1
      /\ \A i \in 1..(n - 1) : new[i] = ring[i]
      /\ new[n] = t /\ new[n + 1] = ring[n]
  <2>1. PICK k \in Nat : k = n - 1 /\ k + 1 = n
    BY <1>n
  <2>2. PICK last \in Seq(A) : last = <<t, ring[n]>>
    BY <1>5
  <2>3. Len(last) = 2 /\ last[1] = t /\ last[2] = ring[n]
    BY <2>2
  <2>4. /\ head \o last \in Seq(A) /\ Len(head \o last) = k + 2
        /\ \A i \in 1..k : (head \o last)[i] = head[i]
        /\ (head \o last)[k + 1] = last[1] /\ (head \o last)[k + 2] = last[2]
    <3>1. head \in Seq(A) /\ last \in Seq(A) /\ Len(head) = k /\ Len(last) = 2
      BY <1>3, <2>1, <2>3
    <3>2. PICK h \in Seq(A) : h = head
      BY <3>1
    <3>3. /\ h \o last \in Seq(A) /\ Len(h \o last) = Len(h) + Len(last)
          /\ \A i \in 1..(Len(h) + Len(last)) :
                (h \o last)[i] = IF i <= Len(h) THEN h[i] ELSE last[i - Len(h)]
      BY ConcatProperties
    <3>4. Len(h) = k /\ Len(last) = 2
      BY <3>1, <3>2
    <3>5. /\ Len(h \o last) = k + 2
          /\ \A i \in 1..(k + 2) : (h \o last)[i] = IF i <= k THEN h[i] ELSE last[i - k]
      BY <3>3, <3>4, Zenon
    <3>6. /\ \A i \in 1..k : (h \o last)[i] = h[i]
          /\ (h \o last)[k + 1] = last[1] /\ (h \o last)[k + 2] = last[2]
      BY <3>5
    <3> QED
      BY <3>2, <3>3, <3>5, <3>6, Zenon
  <2> QED
    BY <1>3, <1>4, <2>1, <2>2, <2>3, <2>4
<1> QED
  BY <1>n, <1>1, <1>6, Zenon

(* A ring stays a ring when a task is inserted.                            *)
LEMMA InsertRing ==
    ASSUME NEW S \in SUBSET Tasks, NEW ring, IsRing(ring, S), NEW t \in Tasks, t \notin S
    PROVE  IsRing(Insert(ring, t), S \union {t})
<1>1. End \notin Tasks
  BY PrioFacts
<1>2. PICK n \in Nat : n = Len(ring) /\ n >= 1
  BY RingLen
<1>3. PICK new : new = Insert(ring, t)
  OBVIOUS
<1>4. PICK A : A = (S \union {t}) \union {End}
  OBVIOUS
<1>5. ring \in Seq(A) /\ t \in A
  <2>1. ring \in Seq(S \union {End})
    BY DEF IsRing
  <2>2. \A i \in 1..Len(ring) : ring[i] \in A
    BY <1>4, <2>1
  <2> QED
    BY <1>4, <2>1, <2>2
<1>6. /\ new \in Seq((S \union {t}) \union {End}) /\ Len(new) = n + 1
      /\ \A i \in 1..(n - 1) : new[i] = ring[i]
      /\ new[n] = t /\ new[n + 1] = ring[n]
  <2>1. /\ new \in Seq(A) /\ Len(new) = n + 1
        /\ \A i \in 1..(n - 1) : new[i] = ring[i]
        /\ new[n] = t /\ new[n + 1] = ring[n]
    <3>1. /\ Insert(ring, t) \in Seq(A) /\ Len(Insert(ring, t)) = n + 1
          /\ \A i \in 1..(n - 1) : Insert(ring, t)[i] = ring[i]
          /\ Insert(ring, t)[n] = t /\ Insert(ring, t)[n + 1] = ring[n]
      <4>1. Len(ring) >= 1
        BY <1>2
      <4>2. ring \in Seq(A) /\ t \in A
        BY <1>5
      <4>3. /\ Insert(ring, t) \in Seq(A) /\ Len(Insert(ring, t)) = Len(ring) + 1
            /\ \A i \in 1..(Len(ring) - 1) : Insert(ring, t)[i] = ring[i]
            /\ Insert(ring, t)[Len(ring)] = t
            /\ Insert(ring, t)[Len(ring) + 1] = ring[Len(ring)]
        BY <4>1, <4>2, InsertElements, ZenonT(30)
      <4> QED
        BY <1>2, <4>3, Zenon
    <3> QED
      BY <1>3, <3>1
  <2> QED
    BY <1>4, <2>1
<1>7. \A x \in (S \union {t}) \union {End} : \E i \in 1..Len(new) : new[i] = x
  <2> SUFFICES ASSUME NEW x \in (S \union {t}) \union {End}
               PROVE  \E i \in 1..(n + 1) : new[i] = x
    BY <1>6
  <2>1. CASE x = t
    BY <1>2, <1>6, <2>1
  <2>2. CASE x # t
    <3>1. PICK i \in 1..n : ring[i] = x
      BY <1>2, <2>2 DEF IsRing
    <3>2. CASE i = n
      BY <1>2, <1>6, <3>1, <3>2
    <3>3. CASE i # n
      BY <1>2, <1>6, <3>1, <3>3
    <3> QED
      BY <3>2, <3>3
  <2> QED
    BY <2>1, <2>2
<1>8. \A i, j \in 1..Len(new) : new[i] = new[j] => i = j
  <2> SUFFICES ASSUME NEW i \in 1..(n + 1), NEW j \in 1..(n + 1), new[i] = new[j]
               PROVE  i = j
    BY <1>6
  <2>1. \A k \in 1..n : ring[k] # t
    BY <1>1, <1>2 DEF IsRing
  <2>2. \A k, l \in 1..n : ring[k] = ring[l] => k = l
    BY <1>2 DEF IsRing
  <2> QED
    BY <1>2, <1>6, <2>1, <2>2
<1> QED
  BY <1>3, <1>6, <1>7, <1>8 DEF IsRing

(* uxListRemove of an item of the list.                                    *)
LEMMA RemoveRing ==
    ASSUME NEW S \in SUBSET Tasks, NEW ring, IsRing(ring, S), NEW t \in S
    PROVE  IsRing(Remove(ring, t), S \ {t})
<1>1. PICK n \in Nat : n = Len(ring) /\ n >= 1
  BY RingLen
<1>2. DOMAIN ring = 1..n
  BY <1>1 DEF IsRing
<1>3. PICK k \in 1..n : k = (CHOOSE i \in DOMAIN ring : ring[i] = t) /\ ring[k] = t
  BY <1>1, <1>2 DEF IsRing
<1>4. \A i \in 1..n : i # k => ring[i] \in (S \ {t}) \union {End}
  BY <1>1, <1>3 DEF IsRing
<1>5. PICK new : new = Remove(ring, t)
  OBVIOUS
<1>6. /\ new \in Seq((S \ {t}) \union {End}) /\ Len(new) = n - 1
      /\ \A i \in 1..(n - 1) : new[i] = IF i < k THEN ring[i] ELSE ring[i + 1]
  <2>1. PICK a : a = SubSeq(ring, 1, k - 1)
    OBVIOUS
  <2>2. PICK b : b = SubSeq(ring, k + 1, n)
    OBVIOUS
  <2>3. /\ a \in Seq(S \union {End}) /\ Len(a) = k - 1
        /\ \A i \in 1..(k - 1) : a[i] = ring[i]
    BY <1>1, <2>1 DEF IsRing
  <2>4. /\ b \in Seq(S \union {End}) /\ Len(b) = n - k
        /\ \A i \in 1..(n - k) : b[i] = ring[i + k]
    BY <1>1, <2>2 DEF IsRing
  <2>5. new = a \o b
    BY <1>1, <1>3, <1>5, <2>1, <2>2 DEF Remove
  <2>6. /\ new \in Seq(S \union {End}) /\ Len(new) = n - 1
        /\ \A i \in 1..(n - 1) : new[i] = IF i < k THEN ring[i] ELSE ring[i + 1]
    <3>1. PICK x \in Nat, y \in Nat : x = k - 1 /\ y = n - k
      <4>1. k - 1 \in Nat /\ n - k \in Nat
        OBVIOUS
      <4> QED
        BY <4>1
    <3>2. a \o b \in Seq(S \union {End}) /\ Len(a \o b) = x + y
      <4>1. Len(a) = x /\ Len(b) = y
        BY <2>3, <2>4, <3>1
      <4> QED
        BY <2>3, <2>4, <4>1
    <3>3. \A i \in 1..(x + y) : (a \o b)[i] = IF i <= x THEN a[i] ELSE b[i - x]
      BY <2>3, <2>4, <3>1
    <3>4. x + y = n - 1
      BY <1>1, <3>1
    <3>5. ASSUME NEW i \in 1..(n - 1), i < k PROVE new[i] = ring[i]
      BY <1>1, <2>3, <2>5, <3>1, <3>3, <3>4, <3>5
    <3>6. ASSUME NEW i \in 1..(n - 1), ~(i < k) PROVE new[i] = ring[i + 1]
      <4>1. i - x \in 1..(n - k) /\ ~(i <= x) /\ i - x + k = i + 1
        BY <1>1, <3>1, <3>6
      <4>2. new[i] = b[i - x]
        BY <2>5, <3>3, <3>4, <4>1
      <4> QED
        BY <2>4, <4>1, <4>2
    <3> QED
      BY <2>5, <3>2, <3>4, <3>5, <3>6
  <2>7. \A i \in 1..(n - 1) : new[i] \in (S \ {t}) \union {End}
    BY <1>1, <1>4, <2>6
  <2> QED
    BY <2>6, <2>7
<1>7. \A x \in (S \ {t}) \union {End} : \E i \in 1..Len(new) : new[i] = x
  <2> SUFFICES ASSUME NEW x \in (S \ {t}) \union {End}
               PROVE  \E i \in 1..(n - 1) : new[i] = x
    BY <1>6
  <2>1. x # t
    BY PrioFacts
  <2>2. PICK i \in 1..n : ring[i] = x
    BY <1>1 DEF IsRing
  <2>3. i # k
    BY <1>3, <2>1, <2>2
  <2>4. CASE i < k
    BY <1>6, <2>2, <2>4
  <2>5. CASE i > k
    <3>1. i - 1 \in 1..(n - 1) /\ ~(i - 1 < k) /\ i - 1 + 1 = i
      BY <2>5
    <3> QED
      BY <1>6, <2>2, <3>1
  <2> QED
    BY <2>3, <2>4, <2>5
<1>8. \A i, j \in 1..Len(new) : new[i] = new[j] => i = j
  <2> SUFFICES ASSUME NEW i \in 1..(n - 1), NEW j \in 1..(n - 1), new[i] = new[j]
               PROVE  i = j
    BY <1>6
  <2>1. \A a, b \in 1..n : ring[a] = ring[b] => a = b
    BY <1>1 DEF IsRing
  <2> QED
    BY <1>6, <2>1
<1> QED
  BY <1>5, <1>6, <1>7, <1>8 DEF IsRing

(* pxIndex moves to the next item: the ring stays the same but for where   *)
(* it is cut.                                                              *)
LEMMA RotateRing ==
    ASSUME NEW S \in SUBSET Tasks, NEW ring, IsRing(ring, S)
    PROVE  IsRing(Rotate(ring), S) /\ Current(Rotate(ring)) = ring[1]
<1>1. PICK n \in Nat : n = Len(ring) /\ n >= 1
  BY RingLen
<1>2. PICK new : new = Rotate(ring)
  OBVIOUS
<1>3. ring \in Seq(S \union {End}) /\ ring # <<>>
  BY <1>1 DEF IsRing
<1>4. /\ new \in Seq(S \union {End}) /\ Len(new) = n
      /\ \A i \in 1..(n - 1) : new[i] = ring[i + 1]
      /\ new[n] = ring[1]
  BY <1>1, <1>2, <1>3 DEF Rotate
<1>5. \A x \in S \union {End} : \E i \in 1..Len(new) : new[i] = x
  <2> SUFFICES ASSUME NEW x \in S \union {End}
               PROVE  \E i \in 1..n : new[i] = x
    BY <1>4
  <2>1. PICK i \in 1..n : ring[i] = x
    BY <1>1 DEF IsRing
  <2>2. CASE i = 1
    BY <1>1, <1>4, <2>1, <2>2
  <2>3. CASE i # 1
    <3>1. i - 1 \in 1..(n - 1) /\ i - 1 + 1 = i
      BY <2>3
    <3>2. new[i - 1] = x /\ i - 1 \in 1..n
      BY <1>1, <1>4, <2>1, <3>1
    <3> QED
      BY <3>2
  <2> QED
    BY <2>2, <2>3
<1>6. \A i, j \in 1..Len(new) : new[i] = new[j] => i = j
  <2> SUFFICES ASSUME NEW i \in 1..n, NEW j \in 1..n, new[i] = new[j]
               PROVE  i = j
    BY <1>4
  <2>1. \A a, b \in 1..n : ring[a] = ring[b] => a = b
    BY <1>1 DEF IsRing
  <2>2. CASE i = n /\ j # n
    <3>1. new[j] = ring[j + 1] /\ j + 1 \in 1..n /\ 1 \in 1..n
      BY <1>1, <1>4, <2>2
    <3> QED
      BY <1>4, <2>1, <2>2, <3>1
  <2>3. CASE i # n /\ j = n
    <3>1. new[i] = ring[i + 1] /\ i + 1 \in 1..n /\ 1 \in 1..n
      BY <1>1, <1>4, <2>3
    <3> QED
      BY <1>4, <2>1, <2>3, <3>1
  <2>4. CASE i # n /\ j # n
    <3>1. /\ new[i] = ring[i + 1] /\ i + 1 \in 1..n
          /\ new[j] = ring[j + 1] /\ j + 1 \in 1..n
      BY <1>1, <1>4, <2>4
    <3>2. PICK a \in 1..n, b \in 1..n : a = i + 1 /\ b = j + 1
      BY <3>1
    <3>3. ring[a] = ring[b]
      BY <3>1, <3>2
    <3>4. a = b
      BY <2>1, <3>3
    <3> QED
      BY <3>2, <3>4
  <2> QED
    BY <2>2, <2>3, <2>4
<1> QED
  BY <1>1, <1>2, <1>4, <1>5, <1>6 DEF IsRing, Current

(* listGET_OWNER_OF_NEXT_ENTRY of a list with a task gives a task.         *)
LEMMA AdvanceRing ==
    ASSUME NEW S \in SUBSET Tasks, NEW ring, IsRing(ring, S), S # {}
    PROVE  IsRing(Advance(ring), S) /\ Current(Advance(ring)) \in S
<1>1. PICK next : next = Rotate(ring)
  OBVIOUS
<1>2. IsRing(next, S)
  BY <1>1, RotateRing
<1>3. CASE Current(next) = End
  <2>1. Advance(ring) = Rotate(next)
    BY <1>1, <1>3 DEF Advance
  <2>2. IsRing(Rotate(next), S) /\ Current(Rotate(next)) = next[1]
    BY <1>2, RotateRing
  <2>3. PICK n \in Nat : n = Len(next) /\ n >= 1
    BY <1>2, RingLen
  <2>4. n # 1
    <3>1. PICK t \in S : t # End
      BY PrioFacts
    <3>2. PICK i \in 1..n : next[i] = t
      BY <1>2, <2>3 DEF IsRing
    <3>3. PICK j \in 1..n : next[j] = End
      BY <1>2, <2>3 DEF IsRing
    <3> QED
      BY <2>3, <3>1, <3>2, <3>3
  <2>5. next[1] # End /\ next[1] \in S \union {End}
    BY <1>2, <1>3, <2>3, <2>4 DEF IsRing, Current
  <2> QED
    BY <2>1, <2>2, <2>5
<1>4. CASE Current(next) # End
  <2>1. Advance(ring) = next
    BY <1>1, <1>4 DEF Advance
  <2>2. Len(next) \in 1..Len(next) /\ Current(next) \in S \union {End}
    BY <1>2 DEF IsRing, Current
  <2> QED
    BY <1>2, <1>4, <2>1, <2>2
<1> QED
  BY <1>3, <1>4

(* A list holds a task if and only if it is longer than its end marker.    *)
LEMMA OccupiedRing ==
    ASSUME NEW S \in SUBSET Tasks, NEW ring, IsRing(ring, S)
    PROVE  Len(ring) > 1 <=> S # {}
<1>1. PICK n \in Nat : n = Len(ring) /\ n >= 1
  BY RingLen
<1>2. PICK e \in 1..n : ring[e] = End
  BY <1>1 DEF IsRing
<1>3. ASSUME NEW t \in S PROVE n > 1
  <2>1. t # End
    BY PrioFacts
  <2>2. PICK i \in 1..n : ring[i] = t
    BY <1>1 DEF IsRing
  <2> QED
    BY <1>1, <1>2, <2>1, <2>2
<1>4. ASSUME n > 1 PROVE S # {}
  <2>1. PICK i \in 1..n : i # e
    BY <1>4
  <2>2. ring[i] \in S \union {End} /\ ring[i] # ring[e]
    BY <1>1, <2>1 DEF IsRing
  <2> QED
    BY <1>2, <2>2
<1> QED
  BY <1>1, <1>3, <1>4

(* A list of the array changes, the others do not.                         *)
LEMMA ListChanged ==
    ASSUME NEW S \in SUBSET Tasks, NEW T \in SUBSET Tasks, NEW lists, NEW new, NEW q \in 0..2,
           Listed(lists, S), new = [p \in 0..2 |-> new[p]],
           \A p \in 0..2 : p # q => new[p] = lists[p] /\ AtPrio(T, p) = AtPrio(S, p),
           IsRing(new[q], AtPrio(T, q))
    PROVE  Listed(new, T)
<1>1. ASSUME NEW p \in 0..2 PROVE IsRing(new[p], AtPrio(T, p))
  BY DEF Listed
<1> QED
  BY <1>1 DEF Listed

(* prvAddTaskToReadyList.                                                  *)
LEMMA AddTaskListed ==
    ASSUME NEW S \in SUBSET Tasks, NEW lists, Listed(lists, S), NEW t \in Tasks, t \notin S
    PROVE  /\ Listed(AddTask(lists, t), S \union {t})
           /\ \A p \in 0..2 : p # Prio(t) => AddTask(lists, t)[p] = lists[p]
<1>1. PICK q \in 0..2 : q = Prio(t)
  BY PrioFacts
<1>2. IsRing(lists[q], AtPrio(S, q)) /\ AtPrio(S, q) \in SUBSET Tasks /\ t \notin AtPrio(S, q)
  BY DEF Listed, AtPrio
<1>3. PICK ring : ring = Insert(lists[q], t)
  OBVIOUS
<1>4. AtPrio(S \union {t}, q) = AtPrio(S, q) \union {t}
  BY <1>1 DEF AtPrio
<1>5. IsRing(ring, AtPrio(S \union {t}, q))
  BY <1>2, <1>3, <1>4, InsertRing
<1>6. \A p \in 0..2 : p # q => AtPrio(S \union {t}, p) = AtPrio(S, p)
  BY <1>1 DEF AtPrio
<1>7. PICK T \in SUBSET Tasks : T = S \union {t}
  OBVIOUS
<1>8. PICK new : new = AddTask(lists, t)
  OBVIOUS
<1>9. /\ new = [p \in 0..2 |-> new[p]] /\ new[q] = ring
      /\ \A p \in 0..2 : p # q => new[p] = lists[p]
  <2>1. new = [lists EXCEPT ![q] = ring] /\ DOMAIN lists = 0..2
    BY <1>1, <1>3, <1>8 DEF AddTask, Listed
  <2> QED
    BY <2>1
<1>10. Listed(new, T)
  BY <1>5, <1>6, <1>7, <1>9, ListChanged
<1> QED
  BY <1>1, <1>7, <1>8, <1>9, <1>10

(* The running task is taken off its list.                                 *)
LEMMA WithoutListed ==
    ASSUME NEW S \in SUBSET Tasks, Listed(ready, S), NEW t \in S
    PROVE  /\ Listed(Without(t), S \ {t})
           /\ \A p \in 0..2 : p # Prio(t) => Without(t)[p] = ready[p]
<1>1. PICK q \in 0..2 : q = Prio(t)
  BY PrioFacts
<1>2. IsRing(ready[q], AtPrio(S, q)) /\ AtPrio(S, q) \in SUBSET Tasks /\ t \in AtPrio(S, q)
  BY <1>1 DEF Listed, AtPrio
<1>3. PICK ring : ring = Remove(ready[q], t)
  OBVIOUS
<1>4. AtPrio(S \ {t}, q) = AtPrio(S, q) \ {t}
  BY DEF AtPrio
<1>5. IsRing(ring, AtPrio(S \ {t}, q))
  BY <1>2, <1>3, <1>4, RemoveRing
<1>6. \A p \in 0..2 : p # q => AtPrio(S \ {t}, p) = AtPrio(S, p)
  BY <1>1 DEF AtPrio
<1>7. PICK new : new = Without(t)
  OBVIOUS
<1>8. PICK T \in SUBSET Tasks : T = S \ {t}
  OBVIOUS
<1>9. PICK lists : lists = ready
  OBVIOUS
<1>10. /\ new = [p \in 0..2 |-> new[p]] /\ new[q] = ring /\ Listed(lists, S)
       /\ \A p \in 0..2 : p # q => new[p] = lists[p]
  <2>1. new = [lists EXCEPT ![q] = ring] /\ DOMAIN lists = 0..2 /\ Listed(lists, S)
    BY <1>1, <1>3, <1>7, <1>9 DEF Without, Listed
  <2> QED
    BY <2>1
<1>11. Listed(new, T)
  BY <1>5, <1>6, <1>8, <1>10, ListChanged
<1> QED
  BY <1>1, <1>7, <1>8, <1>9, <1>10, <1>11

(* vTaskSwitchContext: the next task in turn of the highest priority that  *)
(* has one.                                                                *)
Switched(lists, new, c) ==
    /\ new = [lists EXCEPT ![Top(lists)] = Advance(@)]
    /\ c = Current(Advance(lists[Top(lists)]))

(* What the switch leaves: the same tasks in the lists, and a current one  *)
(* of the highest priority among them.                                     *)
LEMMA SwitchListed ==
    ASSUME NEW S \in SUBSET Tasks, NEW lists, Listed(lists, S), S # {}, NEW new, NEW c,
           Switched(lists, new, c)
    PROVE  /\ Listed(new, S) /\ c \in S
           /\ \A t \in S : Prio(t) <= Prio(c)
           /\ new[Prio(c)] = Advance(lists[Prio(c)])
           /\ c = Current(new[Prio(c)])
           /\ \A p \in 0..2 : p # Prio(c) => new[p] = lists[p]
<1>1. DOMAIN lists = 0..2
  BY DEF Listed
<1>2. \A p \in 0..2 : AtPrio(S, p) \in SUBSET Tasks /\ IsRing(lists[p], AtPrio(S, p))
  BY DEF Listed, AtPrio
<1>3. Occupied(lists) = {p \in 0..2 : AtPrio(S, p) # {}}
  BY <1>1, <1>2, OccupiedRing DEF Occupied
<1>4. \A t \in S : Prio(t) \in 0..2 /\ Prio(t) \in Occupied(lists)
  BY <1>3, PrioFacts DEF AtPrio
<1>5. \E p \in Occupied(lists) : \A q \in Occupied(lists) : q <= p
  <2>1. Occupied(lists) # {} /\ \A p \in Occupied(lists) : p = 0 \/ p = 1 \/ p = 2
    BY <1>3, <1>4
  <2>2. CASE 2 \in Occupied(lists)
    BY <2>1, <2>2
  <2>3. CASE 2 \notin Occupied(lists) /\ 1 \in Occupied(lists)
    BY <2>1, <2>3
  <2>4. CASE 2 \notin Occupied(lists) /\ 1 \notin Occupied(lists)
    BY <2>1, <2>4
  <2> QED
    BY <2>2, <2>3, <2>4
<1>6. PICK top \in 0..2 : /\ top = Top(lists) /\ AtPrio(S, top) # {}
                          /\ \A q \in Occupied(lists) : q <= top
  BY <1>3, <1>5 DEF Top
<1>7. PICK ring : ring = Advance(lists[top])
  OBVIOUS
<1>8. IsRing(ring, AtPrio(S, top)) /\ Current(ring) \in AtPrio(S, top)
  BY <1>2, <1>6, <1>7, AdvanceRing
<1>9. new = [lists EXCEPT ![top] = ring] /\ c = Current(ring)
  BY <1>6, <1>7 DEF Switched
<1>10. /\ new = [p \in 0..2 |-> new[p]] /\ new[top] = ring
       /\ \A p \in 0..2 : p # top => new[p] = lists[p]
  BY <1>1, <1>9
<1>11. Listed(new, S)
  BY <1>8, <1>10, ListChanged
<1>12. c \in S /\ Prio(c) = top
  BY <1>8, <1>9 DEF AtPrio
<1> QED
  BY <1>4, <1>6, <1>7, <1>9, <1>10, <1>11, <1>12

-----------------------------------------------------------------------------
(* What a switch leaves for the applications' list: it turns when one of   *)
(* them is switched in, and only then.                                     *)
Turned(lists) ==
    /\ ready'[1] = IF Prio(cur') = 1 THEN Advance(lists[1]) ELSE lists[1]
    /\ Prio(cur') = 1 => cur' = Current(ready'[1]) /\ ~ran'

(* A switch to the tasks that are ready.                                   *)
LEMMA SwitchKernel ==
    ASSUME NEW lists, state' \in [Tasks -> States], Listed(lists, ReadyTasks'),
           state'["idle"] = "ready", SwitchContext(lists)
    PROVE  KernelInv' /\ Turned(lists) /\ ~ran'
<1>1. PICK S \in SUBSET Tasks : S = ReadyTasks' /\ S # {}
  BY DEF ReadyTasks, Tasks
<1>2. /\ Listed(ready', S) /\ cur' \in S /\ ran' = FALSE
      /\ \A t \in S : Prio(t) <= Prio(cur')
      /\ ready'[Prio(cur')] = Advance(lists[Prio(cur')])
      /\ cur' = Current(ready'[Prio(cur')])
      /\ \A p \in 0..2 : p # Prio(cur') => ready'[p] = lists[p]
  <2>1. PICK new, c : new = ready' /\ c = cur'
    OBVIOUS
  <2>2. Listed(lists, S) /\ ran' = FALSE /\ Switched(lists, new, c)
    BY <1>1, <2>1 DEF SwitchContext, Switched
  <2>3. /\ Listed(new, S) /\ c \in S
        /\ \A t \in S : Prio(t) <= Prio(c)
        /\ new[Prio(c)] = Advance(lists[Prio(c)])
        /\ c = Current(new[Prio(c)])
        /\ \A p \in 0..2 : p # Prio(c) => new[p] = lists[p]
    BY <1>1, <2>2, SwitchListed
  <2> QED
    BY <2>1, <2>2, <2>3
<1>3. HighestRuns'
  BY <1>1, <1>2 DEF HighestRuns, ReadyTasks
<1>4. Listed(ready, ReadyTasks)'
  BY <1>1, <1>2
<1>5. KernelInv'
  BY <1>1, <1>2, <1>3, <1>4 DEF KernelInv
<1>6. Turned(lists)
  BY <1>2 DEF Turned
<1> QED
  BY <1>2, <1>5, <1>6

(* The running task goes on.                                               *)
LEMMA StayKernel ==
    ASSUME KernelInv, Stay
    PROVE  KernelInv' /\ UNCHANGED <<ready, cur, state>> /\ ran' = TRUE
BY DEF KernelInv, Stay, Continue, HighestRuns, Listed, ReadyTasks

(* The running task leaves the ready list.                                 *)
LEMMA LeaveKernel ==
    ASSUME KernelInv, state["idle"] = "ready", NEW t \in Tasks \ {"idle"}, t = cur,
           NEW where \in States \ {"ready"}, Leave(t, where)
    PROVE  /\ KernelInv' /\ ~ran' /\ state' = [state EXCEPT ![t] = where]
           /\ state' \in [Tasks -> States] /\ state'[t] = where
           /\ \A u \in Tasks \ {t} : state'[u] = state[u]
           /\ Prio(t) # 1 => Turned(ready)
<1>1. state' = [state EXCEPT ![t] = where] /\ SwitchContext(Without(t))
  BY DEF Leave
<1>2. /\ state' \in [Tasks -> States] /\ state'[t] = where
      /\ \A u \in Tasks \ {t} : state'[u] = state[u]
  BY <1>1 DEF KernelInv
<1>3. PICK S \in SUBSET Tasks : S = ReadyTasks /\ t \in S
  BY DEF KernelInv, HighestRuns, ReadyTasks
<1>4. PICK lists : lists = Without(t)
  OBVIOUS
<1>5. Listed(lists, S \ {t}) /\ \A p \in 0..2 : p # Prio(t) => lists[p] = ready[p]
  BY <1>3, <1>4, WithoutListed DEF KernelInv
<1>6. ReadyTasks' = S \ {t}
  BY <1>2, <1>3 DEF ReadyTasks
<1>7. state'["idle"] = "ready"
  BY <1>2 DEF Tasks
<1>8. Listed(lists, ReadyTasks')
  BY <1>5, <1>6
<1>9. SwitchContext(lists)
  BY <1>1, <1>4
<1>10. KernelInv' /\ Turned(lists) /\ ~ran'
  BY <1>2, <1>7, <1>8, <1>9, SwitchKernel
<1> QED
  BY <1>1, <1>2, <1>5, <1>10 DEF Turned

(* A task that is not ready is made so; the caller yields to it if its     *)
(* priority says so.                                                       *)
LEMMA ReadiedKernel ==
    ASSUME KernelInv, state["idle"] = "ready", NEW t \in Tasks, state[t] # "ready",
           state' = [state EXCEPT ![t] = "ready"],
           \/ SwitchContext(Readied(t))
           \/ Continue(Readied(t)) /\ Prio(t) <= Prio(cur)
    PROVE  /\ KernelInv' /\ state' \in [Tasks -> States] /\ state'[t] = "ready"
           /\ \A u \in Tasks \ {t} : state'[u] = state[u]
           /\ Continue(Readied(t)) => cur' = cur /\ (Prio(t) # 1 => ready'[1] = ready[1])
           /\ SwitchContext(Readied(t)) /\ Prio(t) # 1 => Turned(ready)
<1>1. /\ state' \in [Tasks -> States] /\ state'[t] = "ready"
      /\ \A u \in Tasks \ {t} : state'[u] = state[u]
  BY DEF KernelInv, States
<1>2. PICK S \in SUBSET Tasks : S = ReadyTasks /\ t \notin S
  <2>1. ReadyTasks \in SUBSET Tasks /\ t \notin ReadyTasks
    BY DEF ReadyTasks
  <2> QED
    BY <2>1
<1>3. PICK lists : lists = Readied(t)
  OBVIOUS
<1>4. Listed(lists, S \union {t}) /\ \A p \in 0..2 : p # Prio(t) => lists[p] = ready[p]
  <2>1. PICK old : old = ready
    OBVIOUS
  <2>2. Listed(old, S)
    BY <1>2, <2>1 DEF KernelInv
  <2>3. /\ Listed(AddTask(old, t), S \union {t})
        /\ \A p \in 0..2 : p # Prio(t) => AddTask(old, t)[p] = old[p]
    BY <1>2, <2>2, AddTaskListed
  <2> QED
    BY <1>3, <2>1, <2>3 DEF Readied
<1>5. ReadyTasks' = S \union {t}
  BY <1>1, <1>2 DEF ReadyTasks
<1>6. state'["idle"] = "ready"
  BY <1>1 DEF Tasks
<1>7. Listed(lists, ReadyTasks')
  BY <1>4, <1>5
<1>8. CASE SwitchContext(Readied(t))
  <2>1. SwitchContext(lists)
    BY <1>3, <1>8
  <2>2. KernelInv' /\ Turned(lists) /\ ~ran'
    BY <1>1, <1>6, <1>7, <2>1, SwitchKernel
  <2>3. ~Continue(Readied(t))
    BY <2>2 DEF Continue
  <2> QED
    BY <1>1, <1>4, <2>2, <2>3 DEF Turned
<1>9. CASE Continue(Readied(t)) /\ Prio(t) <= Prio(cur)
  <2>1. ready' = lists /\ ran' = TRUE /\ cur' = cur
    BY <1>3, <1>9 DEF Continue
  <2>2. HighestRuns'
    BY <1>1, <1>9, <2>1 DEF KernelInv, HighestRuns
  <2>3. Listed(ready, ReadyTasks)'
    BY <1>7, <2>1
  <2>4. KernelInv'
    BY <1>1, <2>1, <2>2, <2>3 DEF KernelInv
  <2>5. ~SwitchContext(Readied(t))
    BY <2>1 DEF SwitchContext
  <2> QED
    BY <1>1, <1>4, <2>1, <2>4, <2>5
<1> QED
  BY <1>8, <1>9

(* The tick: tasks whose time has come are made ready.                     *)
LEMMA TickKernel ==
    ASSUME KernelInv, state["idle"] = "ready", NEW woken \in SUBSET {"tcpip", "http"},
           \A t \in woken : state[t] # "ready",
           state' = [t \in Tasks |-> IF t \in woken THEN "ready" ELSE state[t]],
           IF \/ \E t \in woken : Prio(t) >= Prio(cur)
              \/ Len(Woken(ready, woken)[Prio(cur)]) > 2
           THEN SwitchContext(Woken(ready, woken)) ELSE Continue(Woken(ready, woken))
    PROVE  /\ KernelInv'
           /\ "http" \notin woken /\ Len(ready[1]) > 2 => Turned(ready)
<1>1. state' \in [Tasks -> States] /\ state'["idle"] = "ready"
  BY DEF KernelInv, States, Tasks
<1>2. PICK S \in SUBSET Tasks : S = ReadyTasks /\ \A t \in woken : t \notin S
  <2>1. ReadyTasks \in SUBSET Tasks /\ \A t \in woken : t \notin ReadyTasks
    BY DEF ReadyTasks
  <2> QED
    BY <2>1
<1>3. PICK old : old = ready
  OBVIOUS
<1>4. Listed(old, S) /\ "tcpip" \in Tasks /\ "http" \in Tasks
  BY <1>2, <1>3 DEF KernelInv, Tasks
<1>5. PICK mid : mid = IF "tcpip" \in woken THEN AddTask(old, "tcpip") ELSE old
  OBVIOUS
<1>6. PICK lists : lists = Woken(ready, woken)
  OBVIOUS
<1>7. lists = IF "http" \in woken THEN AddTask(mid, "http") ELSE mid
  BY <1>3, <1>5, <1>6 DEF Woken
<1>8. PICK T \in SUBSET Tasks : T = IF "tcpip" \in woken THEN S \union {"tcpip"} ELSE S
  BY <1>4
<1>9. Listed(mid, T) /\ mid[1] = old[1]
  <2>1. CASE "tcpip" \in woken
    <3>1. "tcpip" \notin S
      BY <1>2, <2>1
    <3>2. /\ Listed(AddTask(old, "tcpip"), S \union {"tcpip"})
          /\ \A p \in 0..2 : p # Prio("tcpip") => AddTask(old, "tcpip")[p] = old[p]
      BY <1>4, <3>1, AddTaskListed
    <3> QED
      BY <1>5, <1>8, <2>1, <3>2, PrioFacts
  <2>2. CASE "tcpip" \notin woken
    BY <1>4, <1>5, <1>8, <2>2
  <2> QED
    BY <2>1, <2>2
<1>10. Listed(lists, T \union woken) /\ ("http" \notin woken => lists[1] = ready[1])
  <2>1. CASE "http" \in woken
    <3>1. "http" \notin T /\ T \union {"http"} = T \union woken
      BY <1>2, <1>8, <2>1
    <3>2. Listed(AddTask(mid, "http"), T \union {"http"})
      BY <1>4, <1>9, <3>1, AddTaskListed
    <3> QED
      BY <1>7, <2>1, <3>1, <3>2
  <2>2. CASE "http" \notin woken
    <3>1. T \union woken = T
      BY <1>8, <2>2
    <3> QED
      BY <1>3, <1>7, <1>9, <2>2, <3>1
  <2> QED
    BY <2>1, <2>2
<1>11. ReadyTasks' = T \union woken
  <2>1. woken \in SUBSET Tasks
    BY DEF Tasks
  <2>2. T \union woken = S \union woken
    BY <1>8
  <2>3. \A t \in Tasks : state'[t] = IF t \in woken THEN "ready" ELSE state[t]
    OBVIOUS
  <2>4. ReadyTasks' = {t \in Tasks : t \in woken \/ state[t] = "ready"}
    BY <2>3 DEF ReadyTasks
  <2> QED
    BY <1>2, <2>1, <2>2, <2>4 DEF ReadyTasks
<1>12. Listed(lists, ReadyTasks')
  BY <1>10, <1>11
<1>13. CASE SwitchContext(lists)
  <2>1. KernelInv' /\ Turned(lists)
    BY <1>1, <1>12, <1>13, SwitchKernel
  <2> QED
    BY <1>10, <2>1 DEF Turned
<1>14. CASE /\ Continue(lists) /\ ~(Len(lists[Prio(cur)]) > 2)
            /\ \A t \in woken : ~(Prio(t) >= Prio(cur))
  <2>1. ready' = lists /\ ran' = TRUE /\ cur' = cur
    BY <1>14 DEF Continue
  <2>2. \A t \in Tasks : Prio(t) \in 0..2
    BY PrioFacts
  <2>3. woken \in SUBSET Tasks /\ cur \in Tasks
    BY DEF Tasks, KernelInv
  <2>4. HighestRuns'
    <3>1. state[cur] = "ready" /\ \A t \in Tasks : state[t] = "ready" => Prio(t) <= Prio(cur)
      BY DEF KernelInv, HighestRuns
    <3>2. state'[cur] = "ready"
      BY <2>3, <3>1
    <3>3. ASSUME NEW t \in Tasks, state'[t] = "ready" PROVE Prio(t) <= Prio(cur)
      BY <1>14, <2>2, <2>3, <3>1, <3>3
    <3> QED
      BY <2>1, <3>2, <3>3 DEF HighestRuns
  <2>5. Listed(ready, ReadyTasks)'
    BY <1>12, <2>1
  <2>6. KernelInv'
    BY <1>1, <2>1, <2>3, <2>4, <2>5 DEF KernelInv
  <2>7. "http" \notin woken /\ Len(ready[1]) > 2 => Prio(cur) # 1
    BY <1>10, <1>14
  <2> QED
    BY <1>10, <2>1, <2>6, <2>7 DEF Turned
<1> QED
  BY <1>6, <1>13, <1>14

(* A task goes to its next operation.                                      *)
LEMMA GotoFacts ==
    ASSUME pc \in [Tasks -> Labels], NEW t \in Tasks, NEW l \in Labels, Goto(t, l)
    PROVE  /\ pc' \in [Tasks -> Labels] /\ pc'[t] = l
           /\ \A u \in Tasks \ {t} : pc'[u] = pc[u]
BY DEF Goto

(* The first turn of the applications' ring, step by step.                 *)
LEMMA FirstTurn ==
    /\ Advance(Turn1) = Turn2 /\ Current(Turn2) = "xemac" /\ Len(Turn1) = 4
    /\ Advance(Turn2) = Turn3 /\ Current(Turn3) = "dhcp" /\ Len(Turn2) = 4
    /\ Advance(Turn3) = Turn4 /\ Current(Turn4) = "http" /\ Len(Turn3) = 4
<1>1. Rotate(Turn1) = Turn2 /\ Rotate(Turn2) = Turn3 /\ Rotate(Turn3) = Turn4
  <2>1. Head(Turn1) = "xemac" /\ Tail(Turn1) = <<"dhcp", "http", End>>
    BY DEF Turn1
  <2>2. Head(Turn2) = "dhcp" /\ Tail(Turn2) = <<"http", End, "xemac">>
    BY DEF Turn2
  <2>3. Head(Turn3) = "http" /\ Tail(Turn3) = <<End, "xemac", "dhcp">>
    BY DEF Turn3
  <2>4. /\ Append(<<"dhcp", "http", End>>, "xemac") = Turn2
        /\ Append(<<"http", End, "xemac">>, "dhcp") = Turn3
        /\ Append(<<End, "xemac", "dhcp">>, "http") = Turn4
    <3> DEFINE A == Tasks \union {End}
    <3> HIDE DEF A
    <3>1. ASSUME NEW a \in A, NEW b \in A, NEW c \in A, NEW d \in A
          PROVE  Append(<<a, b, c>>, d) = <<a, b, c, d>>
      <4>1. PICK s : s = Append(<<a, b, c>>, d)
        OBVIOUS
      <4>2. PICK r : r = <<a, b, c>>
        OBVIOUS
      <4>3. r \in Seq(A) /\ Len(r) = 3 /\ r[1] = a /\ r[2] = b /\ r[3] = c
        BY <4>2
      <4>4. s \in Seq(A) /\ Len(s) = 4 /\ s[4] = d /\ \A i \in 1..3 : s[i] = r[i]
        BY <4>1, <4>2, <4>3
      <4>5. PICK t : t = <<a, b, c, d>>
        OBVIOUS
      <4>6. t \in Seq(A) /\ Len(t) = 4 /\ t[1] = a /\ t[2] = b /\ t[3] = c /\ t[4] = d
        BY <4>5
      <4>7. \A i \in 1..4 : s[i] = t[i]
        BY <4>3, <4>4, <4>6
      <4>8. s = t
        BY <4>4, <4>6, <4>7, SeqEqual
      <4> QED
        BY <4>1, <4>5, <4>8
    <3>2. "xemac" \in A /\ "dhcp" \in A /\ "http" \in A /\ End \in A
      BY DEF A, Tasks
    <3>3. Append(<<"dhcp", "http", End>>, "xemac") = Turn2
      BY <3>1, <3>2 DEF Turn2
    <3>4. Append(<<"http", End, "xemac">>, "dhcp") = Turn3
      BY <3>1, <3>2 DEF Turn3
    <3>5. Append(<<End, "xemac", "dhcp">>, "http") = Turn4
      BY <3>1, <3>2 DEF Turn4
    <3> QED
      BY <3>3, <3>4, <3>5
  <2> QED
    BY <2>1, <2>2, <2>3, <2>4, Zenon DEF Rotate
<1>2. Current(Turn2) = "xemac" /\ Current(Turn3) = "dhcp" /\ Current(Turn4) = "http"
  BY DEF Current, Turn2, Turn3, Turn4
<1>3. Len(Turn1) = 4 /\ Len(Turn2) = 4 /\ Len(Turn3) = 4
  BY DEF Turn1, Turn2, Turn3
<1> QED
  BY <1>1, <1>2, <1>3 DEF Advance, End

(* The ring of the applications turns once in each switch that brings one  *)
(* of them in: after the third the HTTP task runs.                         *)
LEMMA StartTurned ==
    ASSUME StartInv, PlaceInv, pc["http"] = "first", KernelInv', PlaceInv', Turned(ready),
           pc'["http"] = "first", pc'["dhcp"] = pc["dhcp"], bound' = bound,
           rx' = rx, frames' = frames, state["init"] = "deleted" => state'["init"] = "deleted",
           cur # "http"
    PROVE  StartInv'
<1>1. /\ state'["xemac"] = "ready" /\ cur' \in Tasks /\ state'[cur'] = "ready"
      /\ \A t \in Tasks : state'[t] = "ready" => Prio(t) <= Prio(cur')
  BY DEF KernelInv, HighestRuns, PlaceInv
<1>2. Prio(cur') = 1 \/ cur' \in {"init", "tcpip"}
  BY <1>1, PrioFacts DEF Tasks
<1>3. Prio(cur') = 1 => state'["init"] = "deleted" /\ frames' = 0
  BY <1>1, PrioFacts DEF PlaceInv, Tasks
<1>4. cur' \in {"init", "tcpip"} => Prio(cur') # 1
  BY PrioFacts
<1>5. state'["init"] = "deleted" => cur' # "init"
  BY <1>1
<1>6. CASE ready[1] = Turn1 /\ pc["dhcp"] = "start" /\ ~bound
  <2>1. CASE Prio(cur') = 1
    BY <1>3, <1>6, <2>1, FirstTurn DEF StartInv, Turned
  <2>2. CASE cur' \in {"init", "tcpip"}
    BY <1>4, <1>6, <2>2 DEF StartInv, Turned
  <2> QED
    BY <1>2, <2>1, <2>2
<1>7. CASE ready[1] = Turn2 /\ pc["dhcp"] = "start" /\ ~bound /\ state["init"] = "deleted"
  <2>1. CASE Prio(cur') = 1
    BY <1>3, <1>7, <2>1, FirstTurn DEF StartInv, Turned
  <2>2. CASE cur' \in {"init", "tcpip"}
    BY <1>4, <1>5, <1>7, <2>2 DEF StartInv, Turned
  <2> QED
    BY <1>2, <2>1, <2>2
<1>8. CASE ready[1] = Turn3 /\ frames = 0 /\ state["init"] = "deleted"
  <2>1. CASE Prio(cur') = 1
    BY <1>3, <1>8, <2>1, FirstTurn DEF StartInv, Turned
  <2>2. CASE cur' \in {"init", "tcpip"}
    BY <1>4, <1>5, <1>8, <2>2 DEF StartInv, Turned
  <2> QED
    BY <1>2, <2>1, <2>2
<1> QED
  BY <1>6, <1>7, <1>8 DEF StartInv

-----------------------------------------------------------------------------
(* What the invariant says of who runs: a task of an application only when *)
(* the start-up is over and the lwIP thread waits with an empty mailbox.   *)
LEMMA WhoRuns ==
    ASSUME Inv
    PROVE  /\ cur \in Tasks /\ state[cur] = "ready"
           /\ cur \in {"xemac", "dhcp", "http"} =>
                 /\ state["init"] = "deleted" /\ pc["init"] = "delete" /\ netUp
                 /\ state["tcpip"] = "blocked" /\ frames = 0
           /\ state["idle"] = "ready" /\ state \in [Tasks -> States]
<1>1. /\ cur \in Tasks /\ state[cur] = "ready" /\ state \in [Tasks -> States]
      /\ \A t \in Tasks : state[t] = "ready" => Prio(t) <= Prio(cur)
  BY DEF Inv, KernelInv, HighestRuns
<1>2. cur \in {"xemac", "dhcp", "http"} => state["init"] # "ready" /\ state["tcpip"] # "ready"
  BY <1>1, PrioFacts DEF Tasks
<1> QED
  BY <1>1, <1>2 DEF Inv, PlaceInv

(* initTask.                                                               *)
LEMMA InitTaskInv ==
    ASSUME Inv, initTask
    PROVE  Inv'
<1> USE DEF At
<1>1. /\ pc \in [Tasks -> Labels] /\ "init" \in Tasks \ {"idle"} /\ "tcpip" \in Tasks /\ "link" \in Tasks
      /\ KernelInv /\ state["idle"] = "ready" /\ state \in [Tasks -> States] /\ cur \in Tasks
  BY WhoRuns DEF Inv, DataInv, Tasks
<1>2. CASE InitLwip
  <2>1. /\ cur = "init" /\ pc["init"] = "lwip" /\ Wake("tcpip") /\ Goto("init", "wait")
        /\ UNCHANGED <<delay, frames, rx, sock, bound, tcpipUp, netUp>>
    BY <1>2 DEF InitLwip, net
  <2>2. state["tcpip"] = "none"
    BY <2>1 DEF Inv, PlaceInv
  <2>3. state' = [state EXCEPT !["tcpip"] = "ready"] /\ Continue(Readied("tcpip"))
    BY <2>1, PrioFacts DEF Wake
  <2>4. /\ KernelInv' /\ cur' = cur /\ ready'[1] = ready[1] /\ state'["tcpip"] = "ready"
        /\ \A u \in Tasks \ {"tcpip"} : state'[u] = state[u]
    <3>1. state["tcpip"] # "ready" /\ Prio("tcpip") <= Prio(cur) /\ Prio("tcpip") # 1
      BY <2>1, <2>2, PrioFacts
    <3> QED
      BY <1>1, <2>3, <3>1, ReadiedKernel
  <2>5. /\ pc' \in [Tasks -> Labels] /\ pc'["init"] = "wait"
        /\ \A u \in Tasks \ {"init"} : pc'[u] = pc[u]
    BY <1>1, <2>1, GotoFacts DEF Labels
  <2>6. DataInv'
    BY <2>1, <2>5 DEF Inv, DataInv
  <2>7. PlaceInv'
    BY <2>1, <2>4, <2>5 DEF Inv, PlaceInv, Tasks
  <2>8. HandoverInv'
    BY <2>1, <2>4, <2>5 DEF Inv, HandoverInv, SockIsDhcps, Tasks
  <2>9. StartInv'
    BY <2>1, <2>4, <2>5 DEF Inv, StartInv, Tasks
  <2> QED
    BY <2>4, <2>6, <2>7, <2>8, <2>9 DEF Inv
<1>3. CASE InitWait
  <2>1. /\ cur = "init" /\ pc["init"] = "wait" /\ Stay
        /\ Goto("init", "add") \/ pc' = pc
        /\ UNCHANGED <<delay, frames, rx, sock, bound, tcpipUp, netUp>>
    BY <1>3 DEF InitWait, net
  <2>2. KernelInv' /\ UNCHANGED <<ready, cur, state>>
    BY <1>1, <2>1, StayKernel
  <2>3. /\ pc' \in [Tasks -> Labels] /\ pc'["init"] \in {"wait", "add"}
        /\ \A u \in Tasks \ {"init"} : pc'[u] = pc[u]
    BY <1>1, <2>1, GotoFacts DEF Labels
  <2>4. DataInv'
    BY <2>1, <2>3 DEF Inv, DataInv
  <2>5. PlaceInv'
    BY <2>1, <2>2, <2>3 DEF Inv, PlaceInv, Tasks
  <2>6. HandoverInv'
    BY <2>1, <2>2, <2>3 DEF Inv, HandoverInv, SockIsDhcps, Tasks
  <2>7. StartInv'
    BY <2>1, <2>2, <2>3 DEF Inv, StartInv, Tasks
  <2> QED
    BY <2>2, <2>4, <2>5, <2>6, <2>7 DEF Inv
<1>4. CASE InitAdd
  <2>1. /\ cur = "init" /\ pc["init"] = "add" /\ Wake("link")
        /\ UNCHANGED <<delay, frames, rx, sock, bound, tcpipUp, netUp>>
    BY <1>4 DEF InitAdd, net
  <2>2. PICK l \in {"config", "returned"} : Goto("init", l)
    BY <1>4 DEF InitAdd
  <2>3. state["link"] = "none"
    BY <2>1 DEF Inv, PlaceInv
  <2>4. state' = [state EXCEPT !["link"] = "ready"] /\ Continue(Readied("link"))
    BY <2>1, PrioFacts DEF Wake
  <2>5. /\ KernelInv' /\ cur' = cur /\ ready'[1] = ready[1]
        /\ \A u \in Tasks \ {"link"} : state'[u] = state[u]
    <3>1. state["link"] # "ready" /\ Prio("link") <= Prio(cur) /\ Prio("link") # 1
      BY <2>1, <2>3, PrioFacts
    <3> QED
      BY <1>1, <2>4, <3>1, ReadiedKernel
  <2>6. /\ pc' \in [Tasks -> Labels] /\ pc'["init"] = l
        /\ \A u \in Tasks \ {"init"} : pc'[u] = pc[u]
    BY <1>1, <2>2, GotoFacts DEF Labels
  <2>7. DataInv'
    BY <2>1, <2>6 DEF Inv, DataInv
  <2>8. PlaceInv'
    BY <2>1, <2>2, <2>5, <2>6 DEF Inv, PlaceInv, Tasks
  <2>9. HandoverInv'
    BY <2>1, <2>5, <2>6 DEF Inv, HandoverInv, SockIsDhcps, Tasks
  <2>10. StartInv'
    BY <2>1, <2>5, <2>6 DEF Inv, StartInv, Tasks
  <2> QED
    BY <2>5, <2>7, <2>8, <2>9, <2>10 DEF Inv
<1>5. CASE InitConfig
  <2>1. /\ cur = "init" /\ pc["init"] = "config" /\ Stay /\ Goto("init", "delete")
        /\ netUp' = TRUE /\ UNCHANGED <<delay, frames, rx, sock, bound, tcpipUp>>
    BY <1>5 DEF InitConfig
  <2>2. KernelInv' /\ UNCHANGED <<ready, cur, state>>
    BY <1>1, <2>1, StayKernel
  <2>3. /\ pc' \in [Tasks -> Labels] /\ pc'["init"] = "delete"
        /\ \A u \in Tasks \ {"init"} : pc'[u] = pc[u]
    BY <1>1, <2>1, GotoFacts DEF Labels
  <2>4. DataInv'
    BY <2>1, <2>3 DEF Inv, DataInv
  <2>5. PlaceInv'
    BY <2>1, <2>2, <2>3 DEF Inv, PlaceInv, Tasks
  <2>6. HandoverInv'
    BY <2>1, <2>2, <2>3 DEF Inv, HandoverInv, SockIsDhcps, Tasks
  <2>7. StartInv'
    BY <2>1, <2>2, <2>3 DEF Inv, StartInv, Tasks
  <2> QED
    BY <2>2, <2>4, <2>5, <2>6, <2>7 DEF Inv
<1>6. CASE InitDelete
  <2>1. /\ cur = "init" /\ pc["init"] = "delete" /\ Leave("init", "deleted")
        /\ UNCHANGED <<pc, delay, frames, rx, sock, bound, tcpipUp, netUp>>
    BY <1>6 DEF InitDelete, net
  <2>2. /\ KernelInv' /\ Turned(ready) /\ state'["init"] = "deleted"
        /\ \A u \in Tasks \ {"init"} : state'[u] = state[u]
    BY <1>1, <2>1, LeaveKernel, PrioFacts DEF States
  <2>3. DataInv'
    BY <2>1 DEF Inv, DataInv
  <2>4. PlaceInv'
    BY <2>1, <2>2 DEF Inv, PlaceInv, Tasks
  <2>5. HandoverInv'
    BY <2>1, <2>2 DEF Inv, HandoverInv, SockIsDhcps, Tasks
  <2>6. StartInv'
    <3>1. CASE pc["http"] = "first"
      BY <2>1, <2>2, <2>4, <3>1, StartTurned DEF Inv
    <3>2. CASE pc["http"] # "first"
      BY <2>1, <3>2 DEF StartInv
    <3> QED
      BY <3>1, <3>2
  <2> QED
    BY <2>2, <2>3, <2>4, <2>5, <2>6 DEF Inv
<1> QED
  BY <1>2, <1>3, <1>4, <1>5, <1>6 DEF initTask

(* What a frame or a timeout does to the HTTP task.                        *)
LEMMA SignalKernel ==
    ASSUME Inv, cur = "tcpip", SignalHttp
    PROVE  /\ KernelInv' /\ cur' = cur
           /\ \A u \in Tasks \ {"http"} : state'[u] = state[u]
           /\ \/ state'["http"] = state["http"] /\ ready' = ready
              \/ state["http"] = "blocked" /\ state'["http"] = "ready"
<1>1. /\ KernelInv /\ state["idle"] = "ready" /\ "http" \in Tasks
      /\ Prio("http") <= Prio(cur) /\ ~(Prio("http") > Prio(cur))
  BY WhoRuns, PrioFacts DEF Inv, Tasks
<1>2. CASE Stay
  BY <1>1, <1>2, StayKernel
<1>3. CASE state["http"] = "blocked" /\ Wake("http")
  <2>1. state' = [state EXCEPT !["http"] = "ready"] /\ Continue(Readied("http"))
    BY <1>1, <1>3 DEF Wake
  <2>2. state["http"] # "ready"
    BY <1>3
  <2> QED
    BY <1>1, <1>3, <2>1, <2>2, ReadiedKernel
<1> QED
  BY <1>2, <1>3 DEF SignalHttp

(* tcpip_thread: it blocks only on an empty mailbox, and no datagram        *)
(* reaches a socket that is not bound.                                     *)
LEMMA TcpipInv ==
    ASSUME Inv, tcpip_thread
    PROVE  Inv'
<1> USE DEF At
<1>1. /\ pc \in [Tasks -> Labels] /\ "init" \in Tasks /\ "tcpip" \in Tasks \ {"idle"}
      /\ "dhcp" \in Tasks \ {"idle"} /\ "http" \in Tasks \ {"idle"} /\ KernelInv
      /\ state["idle"] = "ready" /\ state \in [Tasks -> States] /\ cur \in Tasks
      /\ cur \in {"xemac", "dhcp", "http"} =>
            /\ state["init"] = "deleted" /\ pc["init"] = "delete" /\ netUp
            /\ state["tcpip"] = "blocked" /\ frames = 0
  BY WhoRuns DEF Inv, DataInv, Tasks
<1>2. CASE TcpipStart
  <2>1. /\ cur = "tcpip" /\ Stay /\ Goto("tcpip", "fetch") /\ tcpipUp' = TRUE
        /\ UNCHANGED <<delay, frames, rx, sock, bound, netUp>>
    BY <1>2 DEF TcpipStart
  <2>2. KernelInv' /\ UNCHANGED <<ready, cur, state>> /\ ran' = TRUE
    BY <1>1, <2>1, StayKernel
  <2>3. /\ pc' \in [Tasks -> Labels] /\ pc'["tcpip"] = "fetch"
        /\ \A u \in Tasks \ {"tcpip"} : pc'[u] = pc[u]
    BY <1>1, <2>1, GotoFacts DEF Labels
  <2>4. DataInv'
    BY <2>1, <2>3 DEF Inv, DataInv
  <2>5. PlaceInv'
    BY <1>1, <2>1, <2>2, <2>3 DEF Inv, PlaceInv, Tasks
  <2>6. HandoverInv'
    BY <2>1, <2>2, <2>3 DEF Inv, HandoverInv, SockIsDhcps, Tasks
  <2>7. StartInv'
    BY <2>1, <2>2, <2>3 DEF Inv, StartInv, Tasks
  <2> QED
    BY <2>2, <2>4, <2>5, <2>6, <2>7 DEF Inv
<1>3. CASE TcpipFrame
  <2>1. /\ cur = "tcpip" /\ frames > 0 /\ frames' = frames - 1
        /\ \/ rx' = (IF bound /\ rx < MaxRx THEN rx + 1 ELSE rx) /\ Stay
           \/ rx' = rx /\ SignalHttp
        /\ UNCHANGED <<pc, delay, sock, bound, tcpipUp, netUp>>
    BY <1>3 DEF TcpipFrame
  <2>2. /\ KernelInv' /\ cur' = cur
        /\ \A u \in Tasks \ {"http"} : state'[u] = state[u]
        /\ \/ state'["http"] = state["http"] /\ ready' = ready
           \/ state["http"] = "blocked" /\ state'["http"] = "ready"
    BY <1>1, <2>1, StayKernel, SignalKernel
  <2>3. pc' = pc /\ pc \in [Tasks -> Labels]
    BY <1>1, <2>1
  <2>4. frames' \in 0..MaxFrames /\ rx' \in 0..MaxRx /\ (~bound => rx' = rx)
    BY <2>1, BoundsAssumption DEF Inv, DataInv
  <2>5. DataInv'
    BY <2>1, <2>3, <2>4 DEF Inv, DataInv
  <2>6. state["tcpip"] = "ready"
    BY <2>1, WhoRuns
  <2>7. PlaceInv'
    BY <1>1, <2>1, <2>2, <2>3, <2>6 DEF Inv, PlaceInv, Tasks
  <2>8. HandoverInv'
    BY <2>1, <2>2, <2>3 DEF Inv, HandoverInv, SockIsDhcps, PlaceInv, Tasks
  <2>9. StartInv'
    <3>1. ASSUME pc["http"] = "first" PROVE ready' = ready /\ state'["init"] = state["init"]
      BY <2>2, <3>1 DEF Inv, PlaceInv, Tasks
    <3> QED
      BY <2>1, <2>2, <2>3, <2>4, <3>1 DEF Inv, StartInv, Tasks
  <2> QED
    BY <2>2, <2>5, <2>7, <2>8, <2>9 DEF Inv
<1>4. CASE TcpipBlock
  <2>1. /\ cur = "tcpip" /\ frames = 0 /\ Leave("tcpip", "blocked") /\ Goto("tcpip", "woken")
        /\ UNCHANGED <<delay, frames, rx, sock, bound, tcpipUp, netUp>>
    BY <1>4 DEF TcpipBlock, net
  <2>2. /\ KernelInv' /\ Turned(ready) /\ state'["tcpip"] = "blocked"
        /\ \A u \in Tasks \ {"tcpip"} : state'[u] = state[u]
    BY <1>1, <2>1, LeaveKernel, PrioFacts DEF States
  <2>3. /\ pc' \in [Tasks -> Labels] /\ pc'["tcpip"] = "woken"
        /\ \A u \in Tasks \ {"tcpip"} : pc'[u] = pc[u]
    BY <1>1, <2>1, GotoFacts DEF Labels
  <2>4. state["tcpip"] = "ready"
    BY <2>1, WhoRuns
  <2>5. DataInv'
    BY <2>1, <2>3 DEF Inv, DataInv
  <2>6. PlaceInv'
    BY <1>1, <2>1, <2>2, <2>3, <2>4 DEF Inv, PlaceInv, Tasks
  <2>7. HandoverInv'
    BY <2>1, <2>2, <2>3 DEF Inv, HandoverInv, SockIsDhcps, Tasks
  <2>8. StartInv'
    <3>1. CASE pc["http"] = "first"
      BY <1>1, <2>1, <2>2, <2>3, <2>6, <3>1, StartTurned DEF Inv, Tasks
    <3>2. CASE pc["http"] # "first"
      BY <2>1, <2>3, <3>2 DEF StartInv, Tasks
    <3> QED
      BY <3>1, <3>2
  <2> QED
    BY <2>2, <2>5, <2>6, <2>7, <2>8 DEF Inv
<1>5. CASE TcpipWoken
  <2>1. /\ cur = "tcpip" /\ SignalHttp /\ Goto("tcpip", "fetch")
        /\ UNCHANGED <<delay, frames, rx, sock, bound, tcpipUp, netUp>>
    BY <1>5 DEF TcpipWoken, net
  <2>2. /\ KernelInv' /\ cur' = cur
        /\ \A u \in Tasks \ {"http"} : state'[u] = state[u]
        /\ \/ state'["http"] = state["http"] /\ ready' = ready
           \/ state["http"] = "blocked" /\ state'["http"] = "ready"
    BY <2>1, SignalKernel
  <2>3. /\ pc' \in [Tasks -> Labels] /\ pc'["tcpip"] = "fetch"
        /\ \A u \in Tasks \ {"tcpip"} : pc'[u] = pc[u]
    BY <1>1, <2>1, GotoFacts DEF Labels
  <2>4. DataInv'
    BY <2>1, <2>3 DEF Inv, DataInv
  <2>5. PlaceInv'
    BY <1>1, <2>1, <2>2, <2>3 DEF Inv, PlaceInv, Tasks
  <2>6. HandoverInv'
    BY <2>1, <2>2, <2>3 DEF Inv, HandoverInv, SockIsDhcps, PlaceInv, Tasks
  <2>7. StartInv'
    <3>1. ASSUME pc["http"] = "first" PROVE ready' = ready /\ state'["init"] = state["init"]
      BY <2>2, <3>1 DEF Inv, PlaceInv, Tasks
    <3> QED
      BY <2>1, <2>2, <2>3, <3>1 DEF Inv, StartInv, Tasks
  <2> QED
    BY <2>2, <2>4, <2>5, <2>6, <2>7 DEF Inv
<1> QED
  BY <1>2, <1>3, <1>4, <1>5 DEF tcpip_thread

(* xemacInputTask: the lwIP thread preempts it with the frame.             *)
LEMMA XemacInv ==
    ASSUME Inv, xemacInputTask
    PROVE  Inv'
<1> USE DEF At
<1>1. /\ pc \in [Tasks -> Labels] /\ "init" \in Tasks /\ "tcpip" \in Tasks \ {"idle"}
      /\ "dhcp" \in Tasks \ {"idle"} /\ "http" \in Tasks \ {"idle"} /\ KernelInv
      /\ state["idle"] = "ready" /\ state \in [Tasks -> States] /\ cur \in Tasks
      /\ cur \in {"xemac", "dhcp", "http"} =>
            /\ state["init"] = "deleted" /\ pc["init"] = "delete" /\ netUp
            /\ state["tcpip"] = "blocked" /\ frames = 0
  BY WhoRuns DEF Inv, DataInv, Tasks
<1>2. CASE PollFrame
  <2>1. /\ cur = "xemac" /\ frames < MaxFrames /\ frames' = frames + 1
        /\ state["tcpip"] = "blocked" => Wake("tcpip")
        /\ UNCHANGED <<pc, delay, rx, sock, bound, tcpipUp, netUp>>
    BY <1>2 DEF PollFrame
  <2>2. /\ KernelInv' /\ Turned(ready) /\ state'["tcpip"] = "ready"
        /\ \A u \in Tasks \ {"tcpip"} : state'[u] = state[u]
    <3>1. /\ Wake("tcpip") /\ state["tcpip"] # "ready" /\ Prio("tcpip") > Prio(cur)
          /\ Prio("tcpip") # 1
      BY <1>1, <2>1, PrioFacts
    <3>2. state' = [state EXCEPT !["tcpip"] = "ready"] /\ SwitchContext(Readied("tcpip"))
      BY <3>1 DEF Wake
    <3> QED
      BY <1>1, <3>1, <3>2, ReadiedKernel
  <2>3. pc' = pc /\ pc \in [Tasks -> Labels]
    BY <1>1, <2>1
  <2>4. frames' \in 0..MaxFrames
    BY <2>1, BoundsAssumption DEF Inv, DataInv
  <2>5. DataInv'
    BY <2>1, <2>3, <2>4 DEF Inv, DataInv
  <2>6. PlaceInv'
    BY <1>1, <2>1, <2>2, <2>3 DEF Inv, PlaceInv, Tasks
  <2>7. HandoverInv'
    BY <2>1, <2>2, <2>3 DEF Inv, HandoverInv, SockIsDhcps, Tasks
  <2>8. StartInv'
    <3>1. cur' = "tcpip" /\ ready'[1] = ready[1]
      <4>1. /\ cur' \in Tasks /\ state'[cur'] = "ready" /\ Prio("tcpip") <= Prio(cur')
        BY <2>2 DEF KernelInv, HighestRuns, Tasks
      <4>2. cur' \in {"init", "tcpip"} /\ Prio(cur') # 1
        BY <4>1, PrioFacts DEF Tasks
      <4>3. state'["init"] = "deleted"
        BY <1>1, <2>1, <2>2 DEF Tasks
      <4> QED
        BY <2>2, <4>1, <4>2, <4>3 DEF Turned
    <3>2. state'["init"] = state["init"]
      BY <2>2 DEF Tasks
    <3> QED
      BY <2>1, <2>3, <3>1, <3>2 DEF Inv, StartInv
  <2> QED
    BY <2>2, <2>5, <2>6, <2>7, <2>8 DEF Inv
<1>3. CASE PollNothing
  <2>1. /\ cur = "xemac" /\ Stay
        /\ UNCHANGED <<pc, delay, frames, rx, sock, bound, tcpipUp, netUp>>
    BY <1>3 DEF PollNothing, net
  <2>2. KernelInv' /\ UNCHANGED <<ready, cur, state>> /\ ran' = TRUE
    BY <1>1, <2>1, StayKernel
  <2>3. pc' = pc /\ pc \in [Tasks -> Labels]
    BY <1>1, <2>1
  <2>4. DataInv'
    BY <2>1, <2>3 DEF Inv, DataInv
  <2>5. PlaceInv'
    BY <1>1, <2>1, <2>2, <2>3 DEF Inv, PlaceInv, Tasks
  <2>6. HandoverInv'
    BY <2>1, <2>2, <2>3 DEF Inv, HandoverInv, SockIsDhcps, Tasks
  <2>7. StartInv'
    BY <2>1, <2>2, <2>3 DEF Inv, StartInv, Tasks
  <2> QED
    BY <2>2, <2>4, <2>5, <2>6, <2>7 DEF Inv
<1> QED
  BY <1>2, <1>3 DEF xemacInputTask

(* dhcpTask: a datagram comes only after the HTTP task has run, which the  *)
(* resumption then finds suspended.                                        *)
LEMMA DhcpInv ==
    ASSUME Inv, dhcpTask
    PROVE  Inv'
<1> USE DEF At
<1>1. /\ pc \in [Tasks -> Labels] /\ "init" \in Tasks /\ "tcpip" \in Tasks \ {"idle"}
      /\ "dhcp" \in Tasks \ {"idle"} /\ "http" \in Tasks \ {"idle"} /\ KernelInv
      /\ state["idle"] = "ready" /\ state \in [Tasks -> States] /\ cur \in Tasks
      /\ cur \in {"xemac", "dhcp", "http"} =>
            /\ state["init"] = "deleted" /\ pc["init"] = "delete" /\ netUp
            /\ state["tcpip"] = "blocked" /\ frames = 0
  BY WhoRuns DEF Inv, DataInv, Tasks
<1>2. CASE DhcpStart
  <2>1. /\ cur = "dhcp" /\ pc["dhcp"] = "start" /\ Stay /\ Goto("dhcp", "listen")
        /\ sock' \in {"none", "udp"}
        /\ UNCHANGED <<delay, frames, rx, tcpipUp, netUp>>
    BY <1>2 DEF DhcpStart
  <2>2. KernelInv' /\ UNCHANGED <<ready, cur, state>> /\ ran' = TRUE
    BY <1>1, <2>1, StayKernel
  <2>3. /\ pc' \in [Tasks -> Labels] /\ pc'["dhcp"] = "listen"
        /\ \A u \in Tasks \ {"dhcp"} : pc'[u] = pc[u]
    BY <1>1, <2>1, GotoFacts DEF Labels
  <2>4. bound' \in BOOLEAN
    BY <1>2 DEF DhcpStart, Inv, DataInv
  <2>5. DataInv'
    BY <2>1, <2>3, <2>4 DEF Inv, DataInv
  <2>6. PlaceInv'
    BY <1>1, <2>1, <2>2, <2>3 DEF Inv, PlaceInv, Tasks
  <2>7. HandoverInv'
    BY <2>1, <2>2, <2>3 DEF Inv, HandoverInv, SockIsDhcps, Tasks
  <2>8. StartInv'
    BY <2>1, <2>2, <2>3 DEF Inv, StartInv, Tasks
  <2> QED
    BY <2>2, <2>5, <2>6, <2>7, <2>8 DEF Inv
<1>3. CASE DhcpPoll
  <2>1. /\ cur = "dhcp" /\ Stay
        /\ UNCHANGED <<pc, delay, frames, rx, sock, bound, tcpipUp, netUp>>
    BY <1>3 DEF DhcpPoll, net
  <2>2. KernelInv' /\ UNCHANGED <<ready, cur, state>> /\ ran' = TRUE
    BY <1>1, <2>1, StayKernel
  <2>3. pc' = pc /\ pc \in [Tasks -> Labels]
    BY <1>1, <2>1
  <2>4. DataInv'
    BY <2>1, <2>3 DEF Inv, DataInv
  <2>5. PlaceInv'
    BY <1>1, <2>1, <2>2, <2>3 DEF Inv, PlaceInv, Tasks
  <2>6. HandoverInv'
    BY <2>1, <2>2, <2>3 DEF Inv, HandoverInv, SockIsDhcps, Tasks
  <2>7. StartInv'
    BY <2>1, <2>2, <2>3 DEF Inv, StartInv, Tasks
  <2> QED
    BY <2>2, <2>4, <2>5, <2>6, <2>7 DEF Inv
<1>4. CASE DhcpDatagram
  <2>1. /\ cur = "dhcp" /\ pc["dhcp"] = "listen" /\ rx > 0 /\ rx' = rx - 1 /\ Stay
        /\ UNCHANGED <<delay, frames, sock, bound, tcpipUp, netUp>>
        /\ Goto("dhcp", "close") \/ Goto("dhcp", "listen")
    BY <1>4 DEF DhcpDatagram
  <2>2. KernelInv' /\ UNCHANGED <<ready, cur, state>> /\ ran' = TRUE
    BY <1>1, <2>1, StayKernel
  <2>3. /\ pc' \in [Tasks -> Labels] /\ pc'["dhcp"] \in {"close", "listen"}
        /\ \A u \in Tasks \ {"dhcp"} : pc'[u] = pc[u]
    BY <1>1, <2>1, GotoFacts DEF Labels
  <2>4. rx' \in 0..MaxRx /\ rx # 0
    BY <2>1, BoundsAssumption DEF Inv, DataInv
  <2>5. DataInv'
    BY <2>1, <2>3, <2>4 DEF Inv, DataInv
  <2>6. PlaceInv'
    BY <1>1, <2>1, <2>2, <2>3 DEF Inv, PlaceInv, Tasks
  <2>7. HandoverInv'
    BY <2>1, <2>2, <2>3 DEF Inv, HandoverInv, SockIsDhcps, Tasks
  <2>8. StartInv'
    BY <2>1, <2>2, <2>3, <2>4 DEF Inv, StartInv, Tasks
  <2> QED
    BY <2>2, <2>5, <2>6, <2>7, <2>8 DEF Inv
<1>5. CASE DhcpClose
  <2>1. /\ cur = "dhcp" /\ pc["dhcp"] = "close" /\ Stay /\ Goto("dhcp", "resume")
        /\ \/ sock' = "closed" /\ bound' = FALSE /\ rx' = 0
           \/ UNCHANGED <<sock, bound, rx>>
        /\ UNCHANGED <<delay, frames, tcpipUp, netUp>>
    BY <1>5 DEF DhcpClose
  <2>2. KernelInv' /\ UNCHANGED <<ready, cur, state>> /\ ran' = TRUE
    BY <1>1, <2>1, StayKernel
  <2>3. /\ pc' \in [Tasks -> Labels] /\ pc'["dhcp"] = "resume"
        /\ \A u \in Tasks \ {"dhcp"} : pc'[u] = pc[u]
    BY <1>1, <2>1, GotoFacts DEF Labels
  <2>4. rx' \in 0..MaxRx /\ bound' \in BOOLEAN /\ sock' \in {"none", "udp", "tcp", "closed"}
    <3>1. rx \in 0..MaxRx /\ 0 \in 0..MaxRx
      BY BoundsAssumption DEF Inv, DataInv
    <3>2. bound' \in BOOLEAN
      BY <2>1 DEF Inv, DataInv
    <3> QED
      BY <2>1, <3>1, <3>2 DEF Inv, DataInv
  <2>5. DataInv'
    BY <2>1, <2>3, <2>4 DEF Inv, DataInv
  <2>6. PlaceInv'
    BY <1>1, <2>1, <2>2, <2>3 DEF Inv, PlaceInv, Tasks
  <2>7. HandoverInv'
    BY <2>1, <2>2, <2>3 DEF Inv, HandoverInv, SockIsDhcps, Tasks
  <2>8. StartInv'
    BY <2>1, <2>2, <2>3 DEF Inv, StartInv, Tasks
  <2> QED
    BY <2>2, <2>5, <2>6, <2>7, <2>8 DEF Inv
<1>6. CASE DhcpResume
  <2>1. /\ cur = "dhcp" /\ pc["dhcp"] = "resume" /\ vTaskResume("http") /\ Goto("dhcp", "suspend")
        /\ UNCHANGED <<delay, frames, rx, sock, bound, tcpipUp, netUp>>
    BY <1>6 DEF DhcpResume, net
  <2>2. /\ KernelInv' /\ state["http"] = "suspended" /\ state'["http"] = "ready"
        /\ pc["http"] = "post"
        /\ \A u \in Tasks \ {"http"} : state'[u] = state[u]
    <3>1. /\ state["http"] = "suspended" /\ pc["http"] = "post" /\ state["http"] # "ready"
          /\ Prio("http") >= Prio(cur)
      BY <2>1, PrioFacts DEF Inv, HandoverInv, StartInv
    <3>2. state' = [state EXCEPT !["http"] = "ready"] /\ SwitchContext(Readied("http"))
      BY <2>1, <3>1 DEF vTaskResume
    <3> QED
      BY <1>1, <3>1, <3>2, ReadiedKernel
  <2>3. /\ pc' \in [Tasks -> Labels] /\ pc'["dhcp"] = "suspend"
        /\ \A u \in Tasks \ {"dhcp"} : pc'[u] = pc[u]
    BY <1>1, <2>1, GotoFacts DEF Labels
  <2>4. DataInv'
    BY <2>1, <2>3 DEF Inv, DataInv
  <2>5. PlaceInv'
    BY <1>1, <2>1, <2>2, <2>3 DEF Inv, PlaceInv, Tasks
  <2>6. HandoverInv'
    BY <2>1, <2>2, <2>3 DEF Inv, HandoverInv, SockIsDhcps, Tasks
  <2>7. StartInv'
    BY <2>1, <2>2, <2>3 DEF Inv, StartInv, Tasks
  <2> QED
    BY <2>2, <2>4, <2>5, <2>6, <2>7 DEF Inv
<1>7. CASE DhcpSuspend
  <2>1. /\ cur = "dhcp" /\ pc["dhcp"] = "suspend" /\ Leave("dhcp", "suspended")
        /\ UNCHANGED <<pc, delay, frames, rx, sock, bound, tcpipUp, netUp>>
    BY <1>7 DEF DhcpSuspend, net
  <2>2. /\ KernelInv' /\ state'["dhcp"] = "suspended"
        /\ \A u \in Tasks \ {"dhcp"} : state'[u] = state[u]
    BY <1>1, <2>1, LeaveKernel DEF States
  <2>3. pc' = pc /\ pc \in [Tasks -> Labels]
    BY <1>1, <2>1
  <2>4. DataInv'
    BY <2>1, <2>3 DEF Inv, DataInv
  <2>5. PlaceInv'
    BY <1>1, <2>1, <2>2, <2>3 DEF Inv, PlaceInv, Tasks
  <2>6. HandoverInv'
    BY <2>1, <2>2, <2>3 DEF Inv, HandoverInv, SockIsDhcps, Tasks
  <2>7. StartInv'
    BY <2>1, <2>2, <2>3 DEF Inv, StartInv, Tasks
  <2> QED
    BY <2>2, <2>4, <2>5, <2>6, <2>7 DEF Inv
<1> QED
  BY <1>2, <1>3, <1>4, <1>5, <1>6, <1>7 DEF dhcpTask


(* httpPostTask: beyond its vTaskSuspend it runs only after dhcpTask has   *)
(* resumed it, and has sock to itself.                                     *)
LEMMA HttpInv ==
    ASSUME Inv, httpPostTask
    PROVE  Inv'
<1> USE DEF At
<1>1. /\ pc \in [Tasks -> Labels] /\ "init" \in Tasks /\ "tcpip" \in Tasks \ {"idle"}
      /\ "dhcp" \in Tasks \ {"idle"} /\ "http" \in Tasks \ {"idle"} /\ KernelInv
      /\ state["idle"] = "ready" /\ state \in [Tasks -> States] /\ cur \in Tasks
      /\ cur \in {"xemac", "dhcp", "http"} =>
            /\ state["init"] = "deleted" /\ pc["init"] = "delete" /\ netUp
            /\ state["tcpip"] = "blocked" /\ frames = 0
  BY WhoRuns DEF Inv, DataInv, Tasks
<1>2. CASE HttpSuspend
  <2>1. /\ cur = "http" /\ pc["http"] = "first" /\ Leave("http", "suspended") /\ Goto("http", "post")
        /\ UNCHANGED <<delay, frames, rx, sock, bound, tcpipUp, netUp>>
    BY <1>2 DEF HttpSuspend, net
  <2>2. /\ KernelInv' /\ state'["http"] = "suspended"
        /\ \A u \in Tasks \ {"http"} : state'[u] = state[u]
    BY <1>1, <2>1, LeaveKernel DEF States
  <2>3. /\ pc' \in [Tasks -> Labels] /\ pc'["http"] = "post"
        /\ \A u \in Tasks \ {"http"} : pc'[u] = pc[u]
    BY <1>1, <2>1, GotoFacts DEF Labels
  <2>4. pc["dhcp"] \in {"start", "listen"} /\ state["http"] = "ready"
    BY <2>1, WhoRuns DEF Inv, StartInv
  <2>5. DataInv'
    BY <2>1, <2>3 DEF Inv, DataInv
  <2>6. PlaceInv'
    BY <1>1, <2>1, <2>2, <2>3, <2>4 DEF Inv, PlaceInv, Tasks
  <2>7. HandoverInv'
    BY <2>1, <2>2, <2>3, <2>4 DEF Inv, HandoverInv, SockIsDhcps, Tasks
  <2>8. StartInv'
    BY <2>1, <2>2, <2>3 DEF Inv, StartInv, Tasks
  <2> QED
    BY <2>2, <2>5, <2>6, <2>7, <2>8 DEF Inv
<1>3. CASE HttpPost
  <2>1. /\ cur = "http" /\ pc["http"] = "post" /\ sock' \in {"none", "tcp"}
        /\ \/ Goto("http", "delay") /\ Stay
           \/ Goto("http", "wait") /\ Leave("http", "blocked")
        /\ UNCHANGED <<delay, frames, rx, bound, tcpipUp, netUp>>
    BY <1>3 DEF HttpPost
  <2>2. /\ KernelInv' /\ \A u \in Tasks \ {"http"} : state'[u] = state[u]
        /\ pc' \in [Tasks -> Labels] /\ \A u \in Tasks \ {"http"} : pc'[u] = pc[u]
        /\ \/ pc'["http"] = "delay" /\ state'["http"] = state["http"]
           \/ pc'["http"] = "wait" /\ state'["http"] = "blocked"
    <3>1. CASE Goto("http", "delay") /\ Stay
      BY <1>1, <3>1, StayKernel, GotoFacts DEF Labels
    <3>2. CASE Goto("http", "wait") /\ Leave("http", "blocked")
      BY <1>1, <2>1, <3>2, LeaveKernel, GotoFacts DEF Labels, States
    <3> QED
      BY <2>1, <3>1, <3>2
  <2>3. pc["dhcp"] = "suspend" /\ state["http"] = "ready" /\ delay = 0
    BY <2>1, WhoRuns DEF Inv, HandoverInv, PlaceInv, DataInv
  <2>4. DataInv'
    BY <2>1, <2>2 DEF Inv, DataInv
  <2>5. PlaceInv'
    BY <1>1, <2>1, <2>2, <2>3 DEF Inv, PlaceInv, Tasks
  <2>6. HandoverInv'
    BY <2>1, <2>2, <2>3 DEF Inv, HandoverInv, SockIsDhcps, Tasks
  <2>7. StartInv'
    BY <2>1, <2>2, <2>3 DEF Inv, StartInv, Tasks
  <2> QED
    BY <2>2, <2>4, <2>5, <2>6, <2>7 DEF Inv
<1>4. CASE HttpWoken
  <2>1. /\ cur = "http" /\ pc["http"] = "wait" /\ sock' \in {sock, "closed"}
        /\ \/ UNCHANGED pc /\ Leave("http", "blocked")
           \/ Goto("http", "delay") /\ Stay
        /\ UNCHANGED <<delay, frames, rx, bound, tcpipUp, netUp>>
    BY <1>4 DEF HttpWoken
  <2>2. /\ KernelInv' /\ \A u \in Tasks \ {"http"} : state'[u] = state[u]
        /\ pc' \in [Tasks -> Labels] /\ \A u \in Tasks \ {"http"} : pc'[u] = pc[u]
        /\ \/ pc'["http"] = "delay" /\ state'["http"] = state["http"]
           \/ pc'["http"] = "wait" /\ state'["http"] = "blocked"
    <3>1. CASE Goto("http", "delay") /\ Stay
      BY <1>1, <3>1, StayKernel, GotoFacts DEF Labels
    <3>2. CASE UNCHANGED pc /\ Leave("http", "blocked")
      BY <1>1, <2>1, <3>2, LeaveKernel DEF States
    <3> QED
      BY <2>1, <3>1, <3>2
  <2>3. pc["dhcp"] = "suspend" /\ state["http"] = "ready" /\ delay = 0
    BY <2>1, WhoRuns DEF Inv, HandoverInv, PlaceInv, DataInv
  <2>4. DataInv'
    BY <2>1, <2>2 DEF Inv, DataInv
  <2>5. PlaceInv'
    BY <1>1, <2>1, <2>2, <2>3 DEF Inv, PlaceInv, Tasks
  <2>6. HandoverInv'
    BY <2>1, <2>2, <2>3 DEF Inv, HandoverInv, SockIsDhcps, Tasks
  <2>7. StartInv'
    BY <2>1, <2>2, <2>3 DEF Inv, StartInv, Tasks
  <2> QED
    BY <2>2, <2>4, <2>5, <2>6, <2>7 DEF Inv
<1>5. CASE HttpDelay
  <2>1. /\ cur = "http" /\ pc["http"] = "delay" /\ Leave("http", "delayed") /\ Goto("http", "post")
        /\ delay' = DelayTicks
        /\ UNCHANGED <<frames, rx, sock, bound, tcpipUp, netUp>>
    BY <1>5 DEF HttpDelay, net
  <2>2. /\ KernelInv' /\ state'["http"] = "delayed"
        /\ \A u \in Tasks \ {"http"} : state'[u] = state[u]
    BY <1>1, <2>1, LeaveKernel DEF States
  <2>3. /\ pc' \in [Tasks -> Labels] /\ pc'["http"] = "post"
        /\ \A u \in Tasks \ {"http"} : pc'[u] = pc[u]
    BY <1>1, <2>1, GotoFacts DEF Labels
  <2>4. pc["dhcp"] = "suspend" /\ delay' \in 0..DelayTicks /\ delay' > 0
    BY <2>1, BoundsAssumption DEF Inv, HandoverInv, PlaceInv
  <2>5. DataInv'
    BY <2>1, <2>3, <2>4 DEF Inv, DataInv
  <2>6. PlaceInv'
    BY <1>1, <2>1, <2>2, <2>3, <2>4 DEF Inv, PlaceInv, Tasks
  <2>7. HandoverInv'
    BY <2>1, <2>2, <2>3, <2>4 DEF Inv, HandoverInv, SockIsDhcps, Tasks
  <2>8. StartInv'
    BY <2>1, <2>2, <2>3 DEF Inv, StartInv, Tasks
  <2> QED
    BY <2>2, <2>5, <2>6, <2>7, <2>8 DEF Inv
<1> QED
  BY <1>2, <1>3, <1>4, <1>5 DEF httpPostTask

(* xTaskIncrementTick.                                                     *)
LEMMA TickInv ==
    ASSUME Inv, xTaskIncrementTick
    PROVE  Inv'
<1>1. PICK timeout \in BOOLEAN :
        LET awake == (IF timeout /\ state["tcpip"] = "blocked" THEN {"tcpip"} ELSE {})
                     \union (IF delay = 1 THEN {"http"} ELSE {})
        IN  /\ state' = [t \in Tasks |-> IF t \in awake THEN "ready" ELSE state[t]]
            /\ IF \/ \E t \in awake : Prio(t) >= Prio(cur)
                  \/ Len(Woken(ready, awake)[Prio(cur)]) > 2
               THEN SwitchContext(Woken(ready, awake)) ELSE Continue(Woken(ready, awake))
  BY DEF xTaskIncrementTick
<1>1a. PICK woken \in SUBSET Tasks :
        /\ woken = (IF timeout /\ state["tcpip"] = "blocked" THEN {"tcpip"} ELSE {})
                   \union (IF delay = 1 THEN {"http"} ELSE {})
        /\ state' = [t \in Tasks |-> IF t \in woken THEN "ready" ELSE state[t]]
        /\ IF \/ \E t \in woken : Prio(t) >= Prio(cur)
              \/ Len(Woken(ready, woken)[Prio(cur)]) > 2
           THEN SwitchContext(Woken(ready, woken)) ELSE Continue(Woken(ready, woken))
  <2>1. (IF timeout /\ state["tcpip"] = "blocked" THEN {"tcpip"} ELSE {})
        \union (IF delay = 1 THEN {"http"} ELSE {}) \in SUBSET Tasks
    BY DEF Tasks
  <2> QED
    BY <1>1, <2>1
<1>2. /\ ran /\ delay' = (IF delay > 0 THEN delay - 1 ELSE 0) /\ delay \in 0..DelayTicks
      /\ UNCHANGED <<pc, frames, rx, sock, bound, tcpipUp, netUp>>
  BY DEF xTaskIncrementTick, net, Inv, DataInv
<1>3. /\ woken \in SUBSET {"tcpip", "http"} /\ ("http" \in woken <=> delay = 1)
      /\ "tcpip" \in woken => state["tcpip"] = "blocked"
  BY <1>1a
<1>4. delay = 1 => state["http"] = "delayed"
  BY DEF Inv, PlaceInv
<1>5. \A t \in woken : state[t] # "ready"
  BY <1>3, <1>4
<1>6. KernelInv' /\ ("http" \notin woken /\ Len(ready[1]) > 2 => Turned(ready))
  BY <1>1a, <1>3, <1>5, TickKernel, WhoRuns DEF Inv
<1>7. /\ \A t \in Tasks \ {"tcpip", "http"} : state'[t] = state[t]
      /\ state'["http"] = IF delay = 1 THEN "ready" ELSE state["http"]
      /\ state'["tcpip"] = state["tcpip"] \/ (state["tcpip"] = "blocked" /\ state'["tcpip"] = "ready")
  BY <1>1a, <1>3 DEF Tasks
<1>8. delay' \in 0..DelayTicks /\ (delay' > 0 <=> delay > 0 /\ delay # 1)
  BY <1>2, BoundsAssumption
<1>9. DataInv'
  BY <1>2, <1>8 DEF Inv, DataInv
<1>10. PlaceInv'
  BY <1>2, <1>4, <1>7, <1>8 DEF Inv, PlaceInv, Tasks
<1>11. HandoverInv'
  BY <1>2, <1>4, <1>7 DEF Inv, HandoverInv, SockIsDhcps
<1>12. StartInv'
  <2>1. CASE pc["http"] = "first"
    <3>1. "http" \notin woken
      BY <1>3, <1>4, <2>1 DEF Inv, PlaceInv
    <3>2. cur # "http" /\ Len(ready[1]) > 2
      <4>1. cur # "http" /\ (ready[1] = Turn1 \/ ready[1] = Turn2 \/ ready[1] = Turn3)
        BY <1>2, <2>1 DEF Inv, StartInv
      <4> QED
        BY <4>1, FirstTurn, SMTT(30)
    <3>3. state'["init"] = state["init"]
      BY <1>7 DEF Tasks
    <3> QED
      BY <1>2, <1>6, <1>10, <2>1, <3>1, <3>2, <3>3, StartTurned DEF Inv
  <2>2. CASE pc["http"] # "first"
    BY <1>2, <2>2 DEF StartInv
  <2> QED
    BY <2>1, <2>2
<1> QED
  BY <1>6, <1>9, <1>10, <1>11, <1>12 DEF Inv

-----------------------------------------------------------------------------
(* The ready lists before the scheduler starts: the applications' list is  *)
(* in the order in which main creates the tasks.                           *)
LEMMA CreatedListed ==
    /\ Listed(CreatedLists, {"xemac", "dhcp", "http", "init", "idle"})
    /\ CreatedLists[1] = Turn1
<1> DEFINE A == Tasks \union {End}
<1> HIDE DEF A
<1>1. "xemac" \in A /\ "dhcp" \in A /\ "http" \in A /\ End \in A
  BY DEF A, Tasks
<1>2. Listed(EmptyLists, {}) /\ EmptyLists[1] = <<End>>
  <2>1. EmptyLists = [p \in 0..2 |-> EmptyLists[p]] /\ \A p \in 0..2 : EmptyLists[p] = <<End>>
    BY DEF EmptyLists
  <2>2. IsRing(<<End>>, {})
    BY DEF IsRing
  <2>3. \A p \in 0..2 : AtPrio({}, p) = {}
    BY DEF AtPrio
  <2> QED
    BY <2>1, <2>2, <2>3 DEF Listed
<1>3. PICK l1 : l1 = AddTask(EmptyLists, "xemac")
  OBVIOUS
<1>4. Listed(l1, {"xemac"}) /\ l1[1] = Insert(<<End>>, "xemac")
  <2>1. Listed(l1, {} \union {"xemac"})
    BY <1>2, <1>3, AddTaskListed DEF Tasks
  <2>2. l1[1] = Insert(EmptyLists[1], "xemac")
    BY <1>3, PrioFacts DEF AddTask, EmptyLists
  <2> QED
    BY <1>2, <2>1, <2>2
<1>5. PICK l2 : l2 = AddTask(l1, "dhcp")
  OBVIOUS
<1>6. Listed(l2, {"xemac", "dhcp"}) /\ l2[1] = Insert(l1[1], "dhcp")
  <2>1. Listed(l2, {"xemac"} \union {"dhcp"}) /\ {"xemac"} \union {"dhcp"} = {"xemac", "dhcp"}
    BY <1>4, <1>5, AddTaskListed DEF Tasks
  <2>2. l2[1] = Insert(l1[1], "dhcp")
    BY <1>4, <1>5, PrioFacts DEF AddTask, Listed
  <2> QED
    BY <2>1, <2>2
<1>7. PICK l3 : l3 = AddTask(l2, "http")
  OBVIOUS
<1>8. Listed(l3, {"xemac", "dhcp", "http"}) /\ l3[1] = Insert(l2[1], "http")
  <2>1. /\ Listed(l3, {"xemac", "dhcp"} \union {"http"})
        /\ {"xemac", "dhcp"} \union {"http"} = {"xemac", "dhcp", "http"}
    BY <1>6, <1>7, AddTaskListed DEF Tasks
  <2>2. l3[1] = Insert(l2[1], "http")
    BY <1>6, <1>7, PrioFacts DEF AddTask, Listed
  <2> QED
    BY <2>1, <2>2
<1>9. PICK l4 : l4 = AddTask(l3, "init")
  OBVIOUS
<1>10. Listed(l4, {"xemac", "dhcp", "http", "init"}) /\ l4[1] = l3[1]
  <2>1. PICK T \in SUBSET Tasks : T = {"xemac", "dhcp", "http"} /\ "init" \in Tasks \ T
    BY DEF Tasks
  <2>2. /\ Listed(AddTask(l3, "init"), T \union {"init"})
        /\ \A p \in 0..2 : p # Prio("init") => AddTask(l3, "init")[p] = l3[p]
    BY <1>8, <2>1, AddTaskListed
  <2>3. T \union {"init"} = {"xemac", "dhcp", "http", "init"} /\ Prio("init") # 1
    BY <2>1, PrioFacts
  <2> QED
    BY <1>9, <2>2, <2>3
<1>11. PICK l5 : l5 = AddTask(l4, "idle")
  OBVIOUS
<1>12. Listed(l5, {"xemac", "dhcp", "http", "init", "idle"}) /\ l5[1] = l3[1]
  <2>1. PICK T \in SUBSET Tasks : T = {"xemac", "dhcp", "http", "init"} /\ "idle" \in Tasks \ T
    BY DEF Tasks
  <2>2. /\ Listed(AddTask(l4, "idle"), T \union {"idle"})
        /\ \A p \in 0..2 : p # Prio("idle") => AddTask(l4, "idle")[p] = l4[p]
    BY <1>10, <2>1, AddTaskListed
  <2>3. T \union {"idle"} = {"xemac", "dhcp", "http", "init", "idle"} /\ Prio("idle") # 1
    BY <2>1, PrioFacts
  <2> QED
    BY <1>10, <1>11, <2>2, <2>3
<1>13. l5 = CreatedLists
  BY <1>3, <1>5, <1>7, <1>9, <1>11 DEF CreatedLists, Applications
<1>14. l3[1] = Turn1
  <2>1. /\ l1[1] \in Seq(A) /\ Len(l1[1]) = 2 /\ l1[1][1] = "xemac" /\ l1[1][2] = End
    <3>1. PICK r : r = <<End>>
      OBVIOUS
    <3>2. r \in Seq(A) /\ Len(r) = 1 /\ r[1] = End
      BY <1>1, <3>1
    <3>3. /\ Insert(r, "xemac") \in Seq(A) /\ Len(Insert(r, "xemac")) = 2
          /\ Insert(r, "xemac")[1] = "xemac" /\ Insert(r, "xemac")[2] = End
      <4>1. PICK n \in Nat : n = 1 /\ n >= 1 /\ Len(r) = n
        BY <3>2
      <4>2. /\ Insert(r, "xemac") \in Seq(A) /\ Len(Insert(r, "xemac")) = n + 1
            /\ \A i \in 1..(n - 1) : Insert(r, "xemac")[i] = r[i]
            /\ Insert(r, "xemac")[n] = "xemac" /\ Insert(r, "xemac")[n + 1] = r[n]
        <5>1. r \in Seq(A) /\ "xemac" \in A /\ Len(r) >= 1
          BY <1>1, <3>2, <4>1
        <5>2. /\ Insert(r, "xemac") \in Seq(A) /\ Len(Insert(r, "xemac")) = Len(r) + 1
              /\ \A i \in 1..(Len(r) - 1) : Insert(r, "xemac")[i] = r[i]
              /\ Insert(r, "xemac")[Len(r)] = "xemac"
              /\ Insert(r, "xemac")[Len(r) + 1] = r[Len(r)]
          <6>1. PICK t \in A : t = "xemac"
            BY <5>1
          <6> QED
            BY <5>1, <6>1, InsertElements, ZenonT(30)
        <5> QED
          BY <4>1, <5>2, Zenon
      <4> QED
        BY <3>2, <4>1, <4>2
    <3> QED
      BY <1>4, <3>1, <3>3
  <2>2. /\ l2[1] \in Seq(A) /\ Len(l2[1]) = 3
        /\ l2[1][1] = "xemac" /\ l2[1][2] = "dhcp" /\ l2[1][3] = End
    <3>1. PICK r \in Seq(A) : r = l1[1] /\ Len(r) = 2 /\ r[1] = "xemac" /\ r[2] = End
      BY <2>1
    <3>2. /\ Insert(r, "dhcp") \in Seq(A) /\ Len(Insert(r, "dhcp")) = 3
          /\ \A i \in 1..1 : Insert(r, "dhcp")[i] = r[i]
          /\ Insert(r, "dhcp")[2] = "dhcp" /\ Insert(r, "dhcp")[3] = r[2]
      <4>1. PICK n \in Nat : n = 2 /\ n >= 1 /\ Len(r) = n
        BY <3>1
      <4>2. /\ Insert(r, "dhcp") \in Seq(A) /\ Len(Insert(r, "dhcp")) = n + 1
            /\ \A i \in 1..(n - 1) : Insert(r, "dhcp")[i] = r[i]
            /\ Insert(r, "dhcp")[n] = "dhcp" /\ Insert(r, "dhcp")[n + 1] = r[n]
        <5>1. r \in Seq(A) /\ "dhcp" \in A /\ Len(r) >= 1
          BY <1>1, <3>1, <4>1
        <5>2. /\ Insert(r, "dhcp") \in Seq(A) /\ Len(Insert(r, "dhcp")) = Len(r) + 1
              /\ \A i \in 1..(Len(r) - 1) : Insert(r, "dhcp")[i] = r[i]
              /\ Insert(r, "dhcp")[Len(r)] = "dhcp"
              /\ Insert(r, "dhcp")[Len(r) + 1] = r[Len(r)]
          <6>1. PICK t \in A : t = "dhcp"
            BY <5>1
          <6> QED
            BY <5>1, <6>1, InsertElements, ZenonT(30)
        <5> QED
          BY <4>1, <5>2, Zenon
      <4> QED
        BY <3>1, <4>1, <4>2
    <3> QED
      BY <1>6, <3>1, <3>2
  <2>3. /\ l3[1] \in Seq(A) /\ Len(l3[1]) = 4
        /\ l3[1][1] = "xemac" /\ l3[1][2] = "dhcp" /\ l3[1][3] = "http" /\ l3[1][4] = End
    <3>1. PICK r \in Seq(A) : /\ r = l2[1] /\ Len(r) = 3
                              /\ r[1] = "xemac" /\ r[2] = "dhcp" /\ r[3] = End
      BY <2>2
    <3>2. /\ Insert(r, "http") \in Seq(A) /\ Len(Insert(r, "http")) = 4
          /\ \A i \in 1..2 : Insert(r, "http")[i] = r[i]
          /\ Insert(r, "http")[3] = "http" /\ Insert(r, "http")[4] = r[3]
      <4>1. PICK n \in Nat : n = 3 /\ n >= 1 /\ Len(r) = n
        BY <3>1
      <4>2. /\ Insert(r, "http") \in Seq(A) /\ Len(Insert(r, "http")) = n + 1
            /\ \A i \in 1..(n - 1) : Insert(r, "http")[i] = r[i]
            /\ Insert(r, "http")[n] = "http" /\ Insert(r, "http")[n + 1] = r[n]
        <5>1. r \in Seq(A) /\ "http" \in A /\ Len(r) >= 1
          BY <1>1, <3>1, <4>1
        <5>2. /\ Insert(r, "http") \in Seq(A) /\ Len(Insert(r, "http")) = Len(r) + 1
              /\ \A i \in 1..(Len(r) - 1) : Insert(r, "http")[i] = r[i]
              /\ Insert(r, "http")[Len(r)] = "http"
              /\ Insert(r, "http")[Len(r) + 1] = r[Len(r)]
          <6>1. PICK t \in A : t = "http"
            BY <5>1
          <6> QED
            BY <5>1, <6>1, InsertElements, ZenonT(30)
        <5> QED
          BY <4>1, <5>2, Zenon
      <4> QED
        BY <3>1, <4>1, <4>2
    <3> QED
      BY <1>8, <3>1, <3>2
  <2>4. /\ Turn1 \in Seq(A) /\ Len(Turn1) = 4
        /\ Turn1[1] = "xemac" /\ Turn1[2] = "dhcp" /\ Turn1[3] = "http" /\ Turn1[4] = End
    BY <1>1 DEF Turn1
  <2>5. \A i \in 1..4 : l3[1][i] = Turn1[i]
    BY <2>3, <2>4
  <2> QED
    BY <2>3, <2>4, <2>5, SeqEqual
<1> QED
  BY <1>12, <1>13, <1>14

(* The initial state satisfies the invariant.                              *)
LEMMA InitInv == Init => Inv
<1> SUFFICES ASSUME Init PROVE Inv
  OBVIOUS
<1>1. PICK S \in SUBSET Tasks : S = {"xemac", "dhcp", "http", "init", "idle"} /\ S # {}
  <2>1. {"xemac", "dhcp", "http", "init", "idle"} \in SUBSET Tasks
    BY DEF Tasks
  <2> QED
    BY <2>1
<1>2. \A t \in Tasks : state[t] = IF t \in {"tcpip", "link"} THEN "none" ELSE "ready"
  BY DEF Init
<1>3. ReadyTasks = S
  BY <1>1, <1>2 DEF ReadyTasks, Tasks
<1>4. PICK new, c, lists : new = ready /\ c = cur /\ lists = CreatedLists
  OBVIOUS
<1>5. Switched(lists, new, c) /\ Listed(lists, S) /\ lists[1] = Turn1
  <2>1. DOMAIN CreatedLists = 0..2
    BY CreatedListed DEF Listed
  <2>2. Listed(lists, S) /\ lists[1] = Turn1
    BY <1>1, <1>4, CreatedListed
  <2>3. PICK top : top = Top(lists)
    OBVIOUS
  <2>4. new = [lists EXCEPT ![top] = Advance(lists[top])] /\ c = Current(new[top])
    BY <1>4, <2>3 DEF Init
  <2>5. top \in 0..2
    <3>1. Occupied(lists) \in SUBSET (0..2)
      BY <1>4, <2>1 DEF Occupied
    <3>2. 2 \in Occupied(lists)
      <4>1. IsRing(lists[2], AtPrio(S, 2)) /\ AtPrio(S, 2) \in SUBSET Tasks /\ "init" \in AtPrio(S, 2)
        BY <1>1, <2>2, PrioFacts DEF Listed, AtPrio
      <4>2. Len(lists[2]) > 1
        BY <4>1, OccupiedRing
      <4> QED
        BY <1>4, <2>1, <4>2 DEF Occupied
    <3>3. \E p \in Occupied(lists) : \A q \in Occupied(lists) : q <= p
      BY <3>1, <3>2
    <3>4. Top(lists) \in Occupied(lists)
      BY <3>3 DEF Top
    <3> QED
      BY <2>3, <3>1, <3>4
  <2>6. new[top] = Advance(lists[top])
    BY <1>4, <2>1, <2>4, <2>5
  <2> QED
    BY <2>2, <2>3, <2>4, <2>6 DEF Switched
<1>6. /\ Listed(new, S) /\ c \in S /\ \A t \in S : Prio(t) <= Prio(c)
      /\ \A p \in 0..2 : p # Prio(c) => new[p] = lists[p]
  BY <1>1, <1>5, SwitchListed
<1>7. c = "init"
  BY <1>1, <1>6, PrioFacts
<1>8. ready[1] = Turn1 /\ cur = "init"
  BY <1>4, <1>5, <1>6, <1>7, PrioFacts
<1>9. HighestRuns
  <2>1. \A t \in Tasks : state[t] = "ready" => t \in S
    BY <1>3 DEF ReadyTasks
  <2>2. state["init"] = "ready"
    BY <1>2 DEF Tasks
  <2> QED
    BY <1>4, <1>6, <1>8, <2>1, <2>2 DEF HighestRuns
<1>10. KernelInv
  <2>1. state \in [Tasks -> States] /\ cur \in Tasks /\ ran \in BOOLEAN
    BY <1>8 DEF Init, States, Tasks
  <2>2. Listed(ready, ReadyTasks)
    BY <1>3, <1>4, <1>6
  <2> QED
    BY <1>9, <2>1, <2>2 DEF KernelInv
<1>11. pc \in [Tasks -> Labels] /\ pc["init"] = "lwip" /\ pc["http"] = "first" /\ pc["dhcp"] = "start"
  BY DEF Init, Labels, Tasks
<1>12. DataInv
  <2>1. delay \in 0..DelayTicks /\ frames \in 0..MaxFrames /\ rx \in 0..MaxRx
    BY BoundsAssumption DEF Init
  <2>2. bound \in BOOLEAN /\ tcpipUp \in BOOLEAN /\ netUp \in BOOLEAN
    BY DEF Init
  <2> QED
    BY <1>11, <2>1, <2>2 DEF Init, DataInv
<1>13. PlaceInv
  BY <1>2, <1>11 DEF Init, PlaceInv, Tasks
<1>14. HandoverInv /\ StartInv
  BY <1>8, <1>11 DEF Init, HandoverInv, SockIsDhcps, StartInv
<1> QED
  BY <1>10, <1>12, <1>13, <1>14 DEF Inv

(* Every step keeps the invariant.                                         *)
LEMMA NextInv ==
    ASSUME Inv, [Next]_vars
    PROVE  Inv'
<1>1. CASE UNCHANGED vars
  <2>1. UNCHANGED <<ready, cur, state, ran, delay, pc, frames, rx, sock, bound, tcpipUp, netUp>>
    BY <1>1 DEF vars, kernel, net
  <2>2. KernelInv'
    BY <2>1 DEF Inv, KernelInv, Listed, ReadyTasks, HighestRuns
  <2>3. DataInv' /\ PlaceInv' /\ HandoverInv' /\ StartInv'
    BY <2>1 DEF Inv, DataInv, PlaceInv, HandoverInv, SockIsDhcps, StartInv
  <2> QED
    BY <2>2, <2>3 DEF Inv
<1>2. CASE Step
  BY <1>2, InitTaskInv, TcpipInv, XemacInv, DhcpInv, HttpInv DEF Step
<1>3. CASE xTaskIncrementTick
  BY <1>3, TickInv
<1>4. CASE Returned
  BY <1>1, <1>4 DEF Returned
<1> QED
  BY <1>1, <1>2, <1>3, <1>4 DEF Next

-----------------------------------------------------------------------------
(* The inductive invariant: the ready lists and the place of each task,    *)
(* the hand-over of sock and the first turn of the applications' ring.     *)
THEOREM TasksInvariance == Spec => []Inv
BY InitInv, NextInv, PTL DEF Spec

(* vTaskSwitchContext, vTaskSuspend, vTaskResume, vTaskDelay and the tick  *)
(* keep the ready lists: they hold exactly the ready tasks, each once, the *)
(* running task is one of the highest priority, and the receive task finds *)
(* the mailbox of the lwIP thread empty.                                   *)
THEOREM ReadyListsConsistent == Spec => []KernelConsistent
<1>1. Inv => KernelConsistent
  <2> SUFFICES ASSUME Inv PROVE KernelConsistent
    OBVIOUS
  <2>1. ready \in [0..2 -> Seq(Tasks \union {End})]
    <3>1. ASSUME NEW p \in 0..2 PROVE ready[p] \in Seq(Tasks \union {End})
      <4>1. ready[p] \in Seq(AtPrio(ReadyTasks, p) \union {End})
        BY DEF Inv, KernelInv, Listed, IsRing
      <4>2. \A i \in 1..Len(ready[p]) : ready[p][i] \in Tasks \union {End}
        BY <4>1 DEF AtPrio, ReadyTasks
      <4> QED
        BY <4>1, <4>2
    <3> QED
      BY <3>1 DEF Inv, KernelInv, Listed
  <2>2. TypeOK
    BY <2>1 DEF Inv, KernelInv, DataInv, TypeOK, States, Labels
  <2>3. ListsMatchStates
    <3> DEFINE Places(p, t) == {i \in DOMAIN ready[p] : ready[p][i] = t}
    <3> SUFFICES ASSUME NEW p \in 0..2, NEW t \in Tasks \union {End}
                 PROVE  IF t = End \/ (state[t] = "ready" /\ Prio(t) = p)
                        THEN \E i \in Places(p, t) : Places(p, t) = {i} ELSE Places(p, t) = {}
      BY Zenon DEF ListsMatchStates
    <3>0. PICK places : places = Places(p, t)
      OBVIOUS
    <3>1. IsRing(ready[p], AtPrio(ReadyTasks, p)) /\ DOMAIN ready[p] = 1..Len(ready[p])
      <4>1. IsRing(ready[p], AtPrio(ReadyTasks, p))
        BY DEF Inv, KernelInv, Listed
      <4> QED
        BY <4>1 DEF IsRing
    <3>2. t \in AtPrio(ReadyTasks, p) \union {End} <=> t = End \/ (state[t] = "ready" /\ Prio(t) = p)
      BY PrioFacts DEF AtPrio, ReadyTasks
    <3>3. CASE t \in AtPrio(ReadyTasks, p) \union {End}
      <4>1. PICK i \in 1..Len(ready[p]) : ready[p][i] = t
        BY <3>1, <3>3 DEF IsRing
      <4>2. places = {i}
        BY <3>0, <3>1, <4>1 DEF IsRing
      <4> QED
        BY <3>0, <3>2, <3>3, <4>2
    <3>4. CASE t \notin AtPrio(ReadyTasks, p) \union {End}
      <4>1. \A i \in 1..Len(ready[p]) : ready[p][i] # t
        BY <3>1, <3>4 DEF IsRing
      <4> QED
        BY <3>0, <3>1, <3>2, <3>4, <4>1
    <3> QED
      BY <3>3, <3>4
  <2>4. HighestRuns
    BY DEF Inv, KernelInv
  <2>5. FramesTakenAtOnce
    BY WhoRuns DEF FramesTakenAtOnce
  <2> QED
    BY <2>2, <2>3, <2>4, <2>5 DEF KernelConsistent
<1> QED
  BY <1>1, TasksInvariance, PTL

(* main creates the applications before the task that runs networkInit:    *)
(* none of them ever runs before the interface is there.                   *)
THEOREM NetworkBeforeApplications == Spec => []NetworkUpBeforeUse
<1>1. Inv => NetworkUpBeforeUse
  BY WhoRuns DEF NetworkUpBeforeUse
<1> QED
  BY <1>1, TasksInvariance, PTL

(* vTaskResume(httpPostHandler) is never lost: by the order of creation    *)
(* and the turns of the ready list httpPostTask has suspended itself       *)
(* before a DHCPREQUEST can reach dhcpTask.                                *)
THEOREM ResumptionNotLost == Spec => []ResumeFindsSuspended
<1>1. Inv => ResumeFindsSuspended
  BY DEF Inv, ResumeFindsSuspended, HandoverInv, StartInv
<1> QED
  BY <1>1, TasksInvariance, PTL

(* The variable sock that dhcpServer.c and httpApplication.c share never   *)
(* holds the socket of the HTTP client while dhcpTask still uses it.       *)
THEOREM SockHandedOver == Spec => []SockIsDhcps
<1>1. Inv => SockIsDhcps
  BY DEF Inv, HandoverInv
<1> QED
  BY <1>1, TasksInvariance, PTL
=============================================================================
