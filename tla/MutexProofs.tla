---------------------------- MODULE MutexProofs ----------------------------
(***************************************************************************)
(* Theorems about Mutex for any number of tasks and any priorities: what a *)
(* run of MCMutex checks for the tasks of this program.                    *)
(***************************************************************************)
EXTENDS Mutex, FiniteSetTheorems, SequenceTheorems, WellFoundedInduction, TLAPS

InCall(t) == pc[t] \in {"try", "block", "wait"}

(* Who runs, waits and sleeps, as ready, waiting and pc tell it.           *)
PlaceInv ==
    /\ \A t \in Tasks : t \in ready <=> pc[t] \notin {"wait", "sleep"}
    /\ \A t \in Pollers : pc[t] = "run" /\ own[t] = {}
    /\ \A m \in Mutexes : \A i \in DOMAIN waiting[m] :
          pc[waiting[m][i]] = "wait" /\ want[waiting[m][i]] = m

(* What a task holds, as holder and count tell it; Heap is taken alone     *)
(* or inside Core, never the other way round.                              *)
OwnInv ==
    /\ \A t \in Tasks : \A m \in own[t] : holder[m] = t
    /\ \A m \in Mutexes : holder[m] # Nobody => m \in own[holder[m]]
    /\ \A m \in Mutexes : count[m] = 0 <=> holder[m] # Nobody
    /\ \A t \in Tasks : heldCount[t] = Cardinality(own[t])
    /\ \A t \in Tasks : InCall(t) =>
          \/ own[t] = {} /\ (want[t] = Core \/ t \in Lone)
          \/ own[t] = {Core} /\ want[t] = Heap
    /\ \A t \in Tasks : own[t] = {Heap} => t \in Lone

(* A list of waiting tasks is sorted as far as base priorities go: items   *)
(* may be raised where they stand.                                         *)
SortedInv ==
    /\ \A t \in Tasks : item[t] = prio[t] /\ prio[t] >= BasePrio[t]
    /\ \A m \in Mutexes : \A i, j \in DOMAIN waiting[m] :
          i < j => prio[waiting[m][i]] >= BasePrio[waiting[m][j]]

(* A task runs above its own priority only while the first task that waits *)
(* for the mutex it gives back last has that priority too.                 *)
LastGiven(t) == IF Core \in own[t] THEN Core ELSE Heap
LentInv ==
    \A t \in Tasks : prio[t] # BasePrio[t] =>
        /\ LastGiven(t) \in own[t]
        /\ waiting[LastGiven(t)] # <<>>
        /\ prio[waiting[LastGiven(t)][1]] >= prio[t]

(* A mutex that is free while a task waits for it is about to be tried, by *)
(* a task of at least that priority.                                       *)
TriedInv ==
    \A m \in Mutexes : \A i \in DOMAIN waiting[m] : count[m] = 1 =>
        \E t \in ready : /\ pc[t] \in {"try", "block"} /\ want[t] = m
                         /\ prio[t] >= BasePrio[waiting[m][i]]

Inv == /\ TypeOK /\ PlaceInv /\ OwnInv /\ SortedInv /\ LentInv /\ TriedInv
       /\ HolderOutranksWaiters /\ HighestRuns

-----------------------------------------------------------------------------
(* Facts about numbers, sets and lists.                                    *)

(* A set of natural numbers has a least one.                               *)
LEMMA LeastNatural ==
    ASSUME NEW S \in SUBSET Nat, S # {}
    PROVE  \E x \in S : \A y \in S : x <= y
<1>1. PICK x \in S : \A y \in S : ~(<<y, x>> \in OpToRel(<, Nat))
  BY WFMin, NatLessThanWellFounded
<1>2. OpToRel(<, Nat) = {p \in Nat \X Nat : p[1] < p[2]}
  BY DEF OpToRel
<1>3. ASSUME NEW y \in S PROVE x <= y
  <2>1. x \in Nat /\ y \in Nat
    OBVIOUS
  <2>2. y < x => <<y, x>> \in {p \in Nat \X Nat : p[1] < p[2]}
    BY <2>1
  <2>3. ~(y < x)
    BY <1>1, <1>2, <2>2
  <2> QED
    BY <2>1, <2>3
<1> QED
  BY <1>3

(* The sets of mutexes a task may hold, by size.                           *)
LEMMA MutexSets ==
    /\ Core # Heap
    /\ Cardinality({}) = 0
    /\ Cardinality({Core}) = 1 /\ Cardinality({Heap}) = 1
    /\ Cardinality({Core, Heap}) = 2
<1>1. Core # Heap
  BY MutexAssumption
<1>2. Cardinality({}) = 0 /\ Cardinality({Core}) = 1 /\ Cardinality({Heap}) = 1
  BY FS_EmptySet, FS_Singleton
<1>3. Cardinality({Core, Heap}) = 2
  <2>1. IsFiniteSet({Core}) /\ Cardinality({Core}) = 1
    BY FS_Singleton
  <2>2. {Core, Heap} = {Core} \union {Heap} /\ Heap \notin {Core}
    BY <1>1
  <2> QED
    BY <2>1, <2>2, FS_AddElement
<1> QED
  BY <1>1, <1>2, <1>3

(* The tasks and mutexes, as the proofs below use them.                    *)
LEMMA Parameters ==
    /\ \A t \in Users : t \in Tasks /\ t \notin Pollers
    /\ \A t \in Pollers : t \in Tasks /\ t \notin Users
    /\ \A t \in Tasks : t \in Users \/ t \in Pollers
    /\ \A t \in Tasks : t # Nobody /\ BasePrio[t] \in Nat
    /\ \A t \in Lone, u \in Users : BasePrio[t] <= BasePrio[u]
    /\ Lone \subseteq Users
    /\ BasePrio \in [Tasks -> Nat]
    /\ Core \in Mutexes /\ Heap \in Mutexes /\ Core # Heap
    /\ \A m \in Mutexes : m = Core \/ m = Heap
  BY MutexAssumption DEF Tasks, Mutexes

(* vListInsert: where a task goes in a list of waiting tasks.              *)
LEMMA QueuedShape ==
    ASSUME NEW list \in Seq(Users), NEW t \in Users, item \in [Tasks -> Nat]
    PROVE  /\ Queued(list, t) \in Seq(Users)
           /\ Len(Queued(list, t)) = Len(list) + 1
           /\ \E n \in 0..Len(list) :
                /\ \A i \in 1..(Len(list) + 1) :
                     Queued(list, t)[i] = IF i <= n THEN list[i]
                                          ELSE IF i = n + 1 THEN t ELSE list[i - 1]
                /\ \A i \in 1..n : item[list[i]] >= item[t]
                /\ n < Len(list) => item[list[n + 1]] < item[t]
<1> DEFINE Ahead == {i \in DOMAIN list : \A j \in 1..i : item[list[j]] >= item[t]}
           Behind == {i \in DOMAIN list : item[list[i]] < item[t]}
<1>0. \A i \in 1..Len(list) : list[i] \in Tasks /\ item[list[i]] \in Nat
  BY DEF Tasks
<1>0a. item[t] \in Nat
  BY DEF Tasks
<1>1. \E n \in 0..Len(list) :
         /\ Ahead = 1..n
         /\ \A i \in 1..n : item[list[i]] >= item[t]
         /\ n < Len(list) => item[list[n + 1]] < item[t]
  <2>1. CASE Behind = {}
    <3>1. Ahead = 1..Len(list)
      BY <2>1, <1>0, <1>0a
    <3> QED
      BY <3>1, <2>1, <1>0, <1>0a
  <2>2. CASE Behind # {}
    <3>1. Behind \in SUBSET Nat
      OBVIOUS
    <3>2. PICK k \in Behind : \A y \in Behind : k <= y
      BY <2>2, <3>1, LeastNatural
    <3>3. k \in 1..Len(list) /\ item[list[k]] < item[t]
      BY <3>2
    <3>4. \A i \in 1..(k - 1) : item[list[i]] >= item[t]
      BY <3>2, <3>3, <1>0, <1>0a, SMTT(30)
    <3>5. Ahead = 1..(k - 1)
      BY <3>3, <3>4, <1>0, <1>0a
    <3> WITNESS k - 1 \in 0..Len(list)
    <3> QED
      BY <3>3, <3>4, <3>5
  <2> QED
    BY <2>1, <2>2
<1>2. PICK n \in 0..Len(list) :
         /\ Ahead = 1..n
         /\ \A i \in 1..n : item[list[i]] >= item[t]
         /\ n < Len(list) => item[list[n + 1]] < item[t]
  BY <1>1
<1>3. Cardinality(Ahead) = n
  <2>1. Cardinality(1..n) = n
    BY FS_Interval
  <2> QED
    BY <2>1, <1>2
<1>4. Queued(list, t) = SubSeq(list, 1, n) \o <<t>> \o SubSeq(list, n + 1, Len(list))
  BY <1>3 DEF Queued
<1> DEFINE front == SubSeq(list, 1, n)
           back  == SubSeq(list, n + 1, Len(list))
<1>5. /\ front \in Seq(Users) /\ Len(front) = n
      /\ \A i \in 1..n : front[i] = list[i]
  <2>1. \A i \in 1..n : list[i] \in Users
    OBVIOUS
  <2> QED
    BY <2>1, SubSeqProperties
<1>6. /\ back \in Seq(Users) /\ Len(back) = Len(list) - n
      /\ \A i \in 1..(Len(list) - n) : back[i] = list[n + i]
  OBVIOUS
<1>7. /\ front \o <<t>> \in Seq(Users) /\ Len(front \o <<t>>) = n + 1
      /\ \A i \in 1..(n + 1) : (front \o <<t>>)[i] = IF i <= n THEN list[i] ELSE t
  BY <1>5
<1> HIDE DEF front, back
<1> DEFINE q == front \o <<t>> \o back
<1>8. /\ q \in Seq(Users) /\ Len(q) = Len(list) + 1
      /\ \A i \in 1..(Len(list) + 1) :
           q[i] = IF i <= n + 1 THEN (front \o <<t>>)[i] ELSE back[i - (n + 1)]
  <2>1. PICK a \in Seq(Users) : a = front \o <<t>> /\ Len(a) = n + 1
    BY <1>7
  <2>2. PICK b \in Seq(Users) : b = back /\ Len(b) = Len(list) - n
    BY <1>6
  <2>3. /\ a \o b \in Seq(Users) /\ Len(a \o b) = Len(a) + Len(b)
        /\ \A i \in 1..(Len(a) + Len(b)) :
             (a \o b)[i] = IF i <= Len(a) THEN a[i] ELSE b[i - Len(a)]
    BY ConcatProperties
  <2>3a. q = a \o b
    BY <2>1, <2>2, Zenon
  <2>3b. n \in Int /\ Len(list) \in Nat
    OBVIOUS
  <2> HIDE DEF q
  <2>4. Len(a) + Len(b) = Len(list) + 1 /\ q = a \o b
    <3>1. PICK x \in Nat : x = Len(list)
      BY <2>3b
    <3>2. (n + 1) + (x - n) = x + 1
      BY <2>3b
    <3>3. Len(a) + Len(b) = (n + 1) + (x - n)
      BY <3>1, <2>1, <2>2, Zenon
    <3> QED
      BY <3>1, <3>2, <3>3, <2>3a, Zenon
  <2>5. q \in Seq(Users) /\ Len(q) = Len(list) + 1
    BY <2>3, <2>4
  <2>6. \A i \in 1..(Len(list) + 1) : q[i] = IF i <= n + 1 THEN a[i] ELSE b[i - (n + 1)]
    BY <2>1, <2>3, <2>4
  <2> QED
    BY <2>1, <2>2, <2>5, <2>6
<1> HIDE DEF q
<1>9. ASSUME NEW i \in 1..(Len(list) + 1)
      PROVE  q[i] = IF i <= n THEN list[i] ELSE IF i = n + 1 THEN t ELSE list[i - 1]
  <2>1. CASE i <= n + 1
    BY <2>1, <1>7, <1>8
  <2>2. CASE i > n + 1
    <3>1. i - (n + 1) \in 1..(Len(list) - n) /\ n + (i - (n + 1)) = i - 1
      BY <2>2
    <3> QED
      BY <2>2, <3>1, <1>6, <1>8
  <2> QED
    BY <2>1, <2>2
<1>10. Queued(list, t) = q
  BY <1>4 DEF front, back, q
<1> QED
  BY <1>2, <1>8, <1>9, <1>10

-----------------------------------------------------------------------------
(* The initial states.                                                     *)
LEMMA InitInv == Init => Inv
<1> SUFFICES ASSUME Init PROVE Inv
  OBVIOUS
<1> USE Parameters DEF Init
<1>1. TypeOK
  <2>1. \A m \in Mutexes : waiting[m] = <<>> /\ IsInjective(<<>>)
    BY DEF IsInjective
  <2> QED
    BY <2>1 DEF TypeOK
<1>2. PlaceInv
  BY DEF PlaceInv
<1>3. OwnInv
  <2>1. \A t \in Tasks : own[t] = {} /\ heldCount[t] = 0 /\ pc[t] = "run"
    OBVIOUS
  <2>2. \A t \in Tasks : heldCount[t] = Cardinality(own[t])
    BY <2>1, MutexSets
  <2>3. {} # {Heap}
    OBVIOUS
  <2> QED
    BY <2>1, <2>2, <2>3 DEF OwnInv, InCall
<1>4. SortedInv /\ LentInv /\ TriedInv /\ HolderOutranksWaiters
  BY DEF SortedInv, LentInv, TriedInv, HolderOutranksWaiters
<1>5. HighestRuns
  BY DEF HighestRuns
<1> QED
  BY <1>1, <1>2, <1>3, <1>4, <1>5 DEF Inv

(* A step that leaves every list, mutex and priority alone, and lets no    *)
(* task that tries to take a mutex stop doing so, keeps TriedInv.          *)
LEMMA TriedKept ==
    ASSUME Inv, UNCHANGED <<waiting, count, prio>>,
           \A t \in ready : pc[t] \in {"try", "block"} =>
               t \in ready' /\ pc'[t] \in {"try", "block"} /\ want'[t] = want[t]
    PROVE  TriedInv'
<1> SUFFICES ASSUME NEW m \in Mutexes, NEW i \in DOMAIN waiting[m], count[m] = 1
             PROVE  \E t \in ready' : /\ pc'[t] \in {"try", "block"} /\ want'[t] = m
                                      /\ prio[t] >= BasePrio[waiting[m][i]]
  BY DEF TriedInv
<1>1. PICK w \in ready : /\ pc[w] \in {"try", "block"} /\ want[w] = m
                         /\ prio[w] >= BasePrio[waiting[m][i]]
  BY DEF Inv, TriedInv
<1> QED
  BY <1>1

(* A time slice ends: only cur changes.                                    *)
LEMMA SliceStep ==
    ASSUME Inv, NEW t \in Tasks, Slice(t)
    PROVE  Inv'
<1> USE DEF Inv, Slice
<1>1. TypeOK' /\ PlaceInv' /\ OwnInv'
  BY DEF TypeOK, PlaceInv, OwnInv, InCall, Highest
<1>2. SortedInv' /\ LentInv' /\ TriedInv' /\ HolderOutranksWaiters'
  BY DEF SortedInv, LentInv, LastGiven, TriedInv, HolderOutranksWaiters
<1>3. HighestRuns'
  BY DEF HighestRuns, Highest
<1> QED
  BY <1>1, <1>2, <1>3

(* A call of sys_mutex_lock begins: pc and want of the running task.       *)
LEMMA LockStep ==
    ASSUME Inv, NEW t \in Users, NEW m \in Mutexes, sys_mutex_lock(t, m)
    PROVE  Inv'
<1> USE Parameters DEF Inv, sys_mutex_lock
<1>1. TypeOK'
  BY DEF TypeOK
<1>2. PlaceInv'
  BY DEF PlaceInv, TypeOK
<1>3. OwnInv'
  <2>1. \A u \in Tasks : u # t => pc'[u] = pc[u] /\ want'[u] = want[u]
    BY DEF TypeOK
  <2>2. want'[t] = m
    BY DEF TypeOK
  <2> QED
    BY <2>1, <2>2 DEF OwnInv, InCall
<1>4. SortedInv' /\ LentInv' /\ HolderOutranksWaiters' /\ HighestRuns'
  BY DEF SortedInv, LentInv, LastGiven, HolderOutranksWaiters, HighestRuns
<1>5. TriedInv'
  BY TriedKept DEF TypeOK
<1> QED
  BY <1>1, <1>2, <1>3, <1>4, <1>5

(* A task sleeps elsewhere, and is woken.                                  *)
LEMMA SleepStep ==
    ASSUME Inv, NEW t \in Users, Sleep(t)
    PROVE  Inv'
<1> USE Parameters DEF Inv, Sleep, SwitchContext
<1>1. TypeOK'
  BY DEF TypeOK, Highest
<1>2. PlaceInv'
  BY DEF PlaceInv, TypeOK
<1>3. OwnInv'
  BY DEF OwnInv, InCall, TypeOK
<1>4. SortedInv' /\ LentInv' /\ HolderOutranksWaiters'
  BY DEF SortedInv, LentInv, LastGiven, HolderOutranksWaiters
<1>5. TriedInv'
  BY TriedKept DEF TypeOK
<1>6. HighestRuns'
  BY DEF HighestRuns, Highest
<1> QED
  BY <1>1, <1>2, <1>3, <1>4, <1>5, <1>6

(* WakeUp of a sleeping task keeps the invariant.                          *)
LEMMA WakeUpStep ==
    ASSUME Inv, NEW t \in Users, WakeUp(t)
    PROVE  Inv'
<1> USE Parameters DEF Inv, WakeUp, SwitchContext
<1>1. TypeOK'
  BY DEF TypeOK, Highest
<1>2. PlaceInv'
  BY DEF PlaceInv, TypeOK
<1>3. OwnInv'
  BY DEF OwnInv, InCall, TypeOK
<1>4. SortedInv' /\ LentInv' /\ HolderOutranksWaiters'
  BY DEF SortedInv, LentInv, LastGiven, HolderOutranksWaiters
<1>5. TriedInv'
  BY TriedKept DEF TypeOK
<1>6. HighestRuns'
  BY DEF HighestRuns, Highest, TypeOK
<1> QED
  BY <1>1, <1>2, <1>3, <1>4, <1>5, <1>6

(* The critical section of xQueueSemaphoreTake.  A free mutex is taken by  *)
(* the running task, which outranks the task that was woken for it.        *)
LEMMA TakeTryStep ==
    ASSUME Inv, NEW t \in Users, TakeTry(t)
    PROVE  Inv'
<1>0. PICK m \in Mutexes : m = want[t]
  BY Parameters DEF Inv, TypeOK
<1>1. t \in Tasks /\ pc[t] = "try" /\ cur = t /\ t \in ready
  BY Parameters DEF Inv, TypeOK, TakeTry
<1>2. \/ own[t] = {} /\ (m = Core \/ t \in Lone)
      \/ own[t] = {Core} /\ m = Heap
  BY <1>0, <1>1 DEF Inv, OwnInv, InCall
<1>3. UNCHANGED <<prio, item, waiting, ready, cur, want>>
  BY DEF TakeTry
<1>4. CASE count[m] > 0
  <2>1. /\ count' = [count EXCEPT ![m] = @ - 1]
        /\ holder' = [holder EXCEPT ![m] = t]
        /\ heldCount' = [heldCount EXCEPT ![t] = @ + 1]
        /\ own' = [own EXCEPT ![t] = @ \union {m}]
        /\ pc' = [pc EXCEPT ![t] = "run"]
    BY <1>0, <1>4 DEF TakeTry
  <2>2. count[m] = 1 /\ count'[m] = 0 /\ holder[m] = Nobody
    BY <1>4, <2>1 DEF Inv, OwnInv, TypeOK
  <2>3. \A u \in Tasks : m \notin own[u]
    BY <2>2, Parameters DEF Inv, OwnInv
  <2>4a. /\ own'[t] = own[t] \union {m} /\ heldCount'[t] = heldCount[t] + 1
         /\ heldCount[t] = Cardinality(own[t])
    BY <1>1, <2>1 DEF Inv, TypeOK, OwnInv
  <2>4. /\ heldCount'[t] = Cardinality(own'[t])
        /\ own'[t] = {m} \/ (own'[t] = {Core, Heap} /\ m = Heap)
        /\ heldCount'[t] \in 0..2
    <3>1. CASE own[t] = {}
      <4>1. own'[t] = {m}
        BY <2>4a, <3>1
      <4>2. heldCount[t] = 0
        BY <2>4a, <3>1, MutexSets
      <4>3. Cardinality({m}) = 1
        BY FS_Singleton
      <4>4. heldCount'[t] = 1
        BY <4>2, <2>4a
      <4>5. heldCount'[t] = Cardinality(own'[t])
        BY <4>1, <4>3, <4>4
      <4>6. heldCount'[t] \in 0..2
        BY <4>4
      <4> QED
        BY <4>1, <4>5, <4>6, Zenon
    <3>2. CASE own[t] = {Core} /\ m = Heap
      <4>1. own'[t] = {Core, Heap}
        BY <2>4a, <3>2
      <4>2. heldCount[t] = 1
        BY <2>4a, <3>2, MutexSets
      <4> QED
        BY <4>1, <4>2, <3>2, <2>4a, MutexSets
    <3> QED
      BY <3>1, <3>2, <1>2
  <2>5. TypeOK'
    <3>1. heldCount' \in [Tasks -> 0..2]
      BY <2>1, <2>4 DEF Inv, TypeOK
    <3>2. count' \in [Mutexes -> {0, 1}]
      BY <2>1, <2>2 DEF Inv, TypeOK
    <3>3. own' \in [Tasks -> SUBSET Mutexes]
      BY <2>1 DEF Inv, TypeOK
    <3> QED
      BY <1>1, <1>3, <2>1, <3>1, <3>2, <3>3 DEF Inv, TypeOK
  <2>6. PlaceInv'
    BY <1>1, <1>3, <2>1, Parameters DEF Inv, PlaceInv, TypeOK
  <2>7. OwnInv'
    <3>1. \A u \in Tasks : u # t =>
             own'[u] = own[u] /\ heldCount'[u] = heldCount[u] /\ pc'[u] = pc[u]
      BY <2>1 DEF Inv, TypeOK
    <3>2. \A k \in Mutexes : k # m => holder'[k] = holder[k] /\ count'[k] = count[k]
      BY <2>1 DEF Inv, TypeOK
    <3>3. own'[t] = own[t] \union {m} /\ holder'[m] = t /\ pc'[t] = "run"
      BY <1>1, <2>1 DEF Inv, TypeOK
    <3>4. own'[t] = {Heap} => t \in Lone
      BY <3>3, <1>2, MutexSets, Zenon
    <3>5. (\A u \in Tasks : \A k \in own[u] : holder[k] = u)'
      <4> SUFFICES ASSUME NEW u \in Tasks, NEW k \in own'[u] PROVE holder'[k] = u
        OBVIOUS
      <4>1. CASE k = m
        BY <4>1, <2>3, <3>1, <3>3
      <4>2. CASE k # m
        <5>1. k \in own[u]
          BY <4>2, <3>1, <3>3
        <5>2. k \in Mutexes
          BY <5>1 DEF Inv, TypeOK
        <5> QED
          BY <4>2, <5>1, <5>2, <3>2 DEF Inv, OwnInv
      <4> QED
        BY <4>1, <4>2
    <3>6. (\A k \in Mutexes : holder[k] # Nobody => k \in own[holder[k]])'
      <4> SUFFICES ASSUME NEW k \in Mutexes, holder'[k] # Nobody
                   PROVE  k \in own'[holder'[k]]
        OBVIOUS
      <4>1. CASE k = m
        BY <4>1, <3>3
      <4>2. CASE k # m
        <5>1. holder[k] \in Tasks /\ k \in own[holder[k]] /\ holder'[k] = holder[k]
          BY <4>2, <3>2 DEF Inv, OwnInv, TypeOK
        <5> QED
          BY <5>1, <3>1, <3>3
      <4> QED
        BY <4>1, <4>2
    <3>7. (\A k \in Mutexes : count[k] = 0 <=> holder[k] # Nobody)'
      BY <2>2, <3>2, <3>3, <1>1, Parameters DEF Inv, OwnInv
    <3>8. (\A u \in Tasks : heldCount[u] = Cardinality(own[u]))'
      BY <3>1, <2>4 DEF Inv, OwnInv
    <3>9. (\A u \in Tasks : InCall(u) =>
             \/ own[u] = {} /\ (want[u] = Core \/ u \in Lone)
             \/ own[u] = {Core} /\ want[u] = Heap)'
      <4> SUFFICES ASSUME NEW u \in Tasks, InCall(u)'
                   PROVE  (\/ own[u] = {} /\ (want[u] = Core \/ u \in Lone)
                           \/ own[u] = {Core} /\ want[u] = Heap)'
        OBVIOUS
      <4>1. u # t /\ InCall(u)
        BY <3>1, <3>3 DEF InCall
      <4> QED
        BY <4>1, <3>1, <1>3 DEF Inv, OwnInv
    <3>10. (\A u \in Tasks : own[u] = {Heap} => u \in Lone)'
      BY <3>1, <3>4 DEF Inv, OwnInv
    <3> QED
      BY <3>5, <3>6, <3>7, <3>8, <3>9, <3>10 DEF OwnInv
  <2>8. SortedInv' /\ HighestRuns'
    BY <1>3 DEF Inv, SortedInv, HighestRuns
  <2>9. LentInv'
    <3> SUFFICES ASSUME NEW u \in Tasks, prio[u] # BasePrio[u]
                 PROVE  /\ LastGiven(u)' = LastGiven(u)
                        /\ LastGiven(u) \in own'[u]
      BY <1>3 DEF Inv, LentInv
    <3>1. LastGiven(u) \in own[u]
      BY DEF Inv, LentInv
    <3>2. CASE u # t
      <4>1. own'[u] = own[u]
        BY <3>2, <2>1 DEF Inv, TypeOK
      <4> QED
        BY <3>1, <4>1 DEF LastGiven
    <3>3. CASE u = t
      <4>1. own[u] = {Core} /\ Core \in own'[u]
        BY <3>1, <3>3, <1>1, <1>2, <2>1 DEF Inv, TypeOK
      <4> QED
        BY <4>1 DEF LastGiven
    <3> QED
      BY <3>2, <3>3
  <2>10. TriedInv'
    <3> SUFFICES ASSUME NEW k \in Mutexes, NEW i \in DOMAIN waiting[k], count'[k] = 1
                 PROVE  \E u \in ready : /\ pc'[u] \in {"try", "block"} /\ want[u] = k
                                          /\ prio[u] >= BasePrio[waiting[k][i]]
      BY <1>3 DEF TriedInv
    <3>1. k # m /\ count[k] = 1
      BY <2>1, <2>2 DEF Inv, TypeOK
    <3>2. PICK u \in ready : /\ pc[u] \in {"try", "block"} /\ want[u] = k
                             /\ prio[u] >= BasePrio[waiting[k][i]]
      BY <3>1 DEF Inv, TriedInv
    <3>3. pc'[u] = pc[u]
      BY <3>1, <3>2, <1>0, <2>1 DEF Inv, TypeOK
    <3> QED
      BY <3>2, <3>3
  <2>11. HolderOutranksWaiters'
    <3> SUFFICES ASSUME NEW k \in Mutexes, NEW i \in DOMAIN waiting[k],
                        holder'[k] # Nobody
                 PROVE  prio[holder'[k]] >= BasePrio[waiting[k][i]]
      BY <1>3 DEF HolderOutranksWaiters
    <3>1. CASE k # m
      <4>1. holder'[k] = holder[k]
        BY <3>1, <2>1 DEF Inv, TypeOK
      <4> QED
        BY <4>1 DEF Inv, HolderOutranksWaiters
    <3>2. CASE k = m
      <4>1. PICK w \in ready : prio[w] >= BasePrio[waiting[k][i]]
        BY <2>2, <3>2 DEF Inv, TriedInv
      <4>2. prio[w] <= prio[t]
        BY <1>1 DEF Inv, HighestRuns
      <4>3. prio[w] \in Nat /\ prio[t] \in Nat
        BY <1>1 DEF Inv, TypeOK
      <4>4. BasePrio[waiting[k][i]] \in Nat
        BY Parameters DEF Inv, TypeOK
      <4>5. holder'[k] = t
        BY <3>2, <2>1 DEF Inv, TypeOK
      <4> QED
        BY <4>1, <4>2, <4>3, <4>4, <4>5
    <3> QED
      BY <3>1, <3>2
  <2> QED
    BY <2>5, <2>6, <2>7, <2>8, <2>9, <2>10, <2>11 DEF Inv
<1>5. CASE ~(count[m] > 0)
  <2>1. pc' = [pc EXCEPT ![t] = "block"] /\ UNCHANGED <<count, holder, heldCount, own>>
    BY <1>0, <1>5 DEF TakeTry
  <2>2. TypeOK'
    BY <1>3, <2>1 DEF Inv, TypeOK
  <2>3. PlaceInv'
    BY <1>1, <1>3, <2>1, Parameters DEF Inv, PlaceInv, TypeOK
  <2>4. OwnInv'
    <3>1. \A u \in Tasks : InCall(u)' => InCall(u)
      BY <1>1, <2>1 DEF Inv, TypeOK, InCall
    <3> QED
      BY <1>3, <2>1, <3>1 DEF Inv, OwnInv
  <2>5. SortedInv' /\ LentInv' /\ HolderOutranksWaiters' /\ HighestRuns'
    BY <1>3, <2>1 DEF Inv, SortedInv, LentInv, LastGiven, HolderOutranksWaiters, HighestRuns
  <2>6. TriedInv'
    BY <1>1, <1>3, <2>1, TriedKept DEF Inv, TypeOK
  <2> QED
    BY <2>2, <2>3, <2>4, <2>5, <2>6 DEF Inv
<1> QED
  BY <1>4, <1>5

(* A mutex that is taken stays so while the running task blocks for it, at *)
(* its place in the list of waiting tasks.  The holder takes the priority  *)
(* of the running task over, if that is higher.                            *)
LEMMA BlockStep ==
    ASSUME Inv, NEW t \in Users, NEW m \in Mutexes, m = want[t], TakeBlock(t), StillTaken(m)
    PROVE  Inv'
<1> DEFINE h == holder[m]
           list == waiting[m]
           q == Queued(list, t)
<1>1. t \in Tasks /\ pc[t] = "block" /\ cur = t /\ t \in ready /\ t \notin Pollers
  BY Parameters DEF Inv, TypeOK, TakeBlock
<1>2. /\ \/ own[t] = {} /\ (m = Core \/ t \in Lone)
         \/ own[t] = {Core} /\ m = Heap
      /\ m \notin own[t]
  <2>1. \/ own[t] = {} /\ (m = Core \/ t \in Lone)
        \/ own[t] = {Core} /\ m = Heap
    BY <1>1 DEF Inv, OwnInv, InCall
  <2> QED
    BY <2>1, Parameters
<1>3. /\ xTaskPriorityInherit(h, t)
      /\ waiting' = [waiting EXCEPT ![m] = q]
      /\ ready' = ready \ {t}
      /\ pc' = [pc EXCEPT ![t] = "wait"]
      /\ cur' \in Highest(ready', prio')
      /\ UNCHANGED <<heldCount, holder, count, want, own>>
  BY DEF TakeBlock, SwitchContext
<1>4. count[m] = 0 /\ h \in Tasks /\ h # Nobody /\ m \in own[h] /\ h # t /\ h \in Users
  <2>1. count[m] = 0 /\ h # Nobody /\ m \in own[h]
    BY DEF Inv, OwnInv, StillTaken
  <2>2. h \in Tasks
    BY <2>1 DEF Inv, TypeOK
  <2>3. h \notin Pollers
    BY <2>1 DEF Inv, PlaceInv
  <2> QED
    BY <2>1, <2>2, <2>3, <1>2, Parameters
<1>5. /\ list \in Seq(Users)
      /\ \A u \in Tasks : prio[u] \in Nat /\ item[u] = prio[u] /\ prio[u] >= BasePrio[u]
      /\ \A i \in 1..Len(list) : list[i] \in Users /\ list[i] \in Tasks /\ pc[list[i]] = "wait"
  <2>1. list \in Seq(Users) /\ DOMAIN list = 1..Len(list)
    BY DEF Inv, TypeOK
  <2>2. \A u \in Tasks : prio[u] \in Nat /\ item[u] = prio[u] /\ prio[u] >= BasePrio[u]
    BY DEF Inv, TypeOK, SortedInv
  <2>3. \A i \in 1..Len(list) : list[i] \in Users
    BY <2>1
  <2>4. \A i \in 1..Len(list) : pc[list[i]] = "wait"
    BY <2>1 DEF Inv, PlaceInv
  <2> QED
    BY <2>1, <2>2, <2>3, <2>4, Parameters
<1>6. /\ q \in Seq(Users)
      /\ Len(q) = Len(list) + 1
      /\ DOMAIN q = 1..(Len(list) + 1)
  <2>1. item \in [Tasks -> Nat]
    BY DEF Inv, TypeOK
  <2>2. q \in Seq(Users) /\ Len(q) = Len(list) + 1
    BY <1>5, <2>1, QueuedShape
  <2> QED
    BY <2>2
<1>7. PICK n \in 0..Len(list) :
         /\ \A i \in 1..(Len(list) + 1) :
              q[i] = IF i <= n THEN list[i] ELSE IF i = n + 1 THEN t ELSE list[i - 1]
         /\ \A i \in 1..n : item[list[i]] >= item[t]
         /\ n < Len(list) => item[list[n + 1]] < item[t]
  <2>1. item \in [Tasks -> Nat]
    BY DEF Inv, TypeOK
  <2> QED
    BY <1>5, <2>1, QueuedShape
<1> HIDE DEF h, q, list
<1>8. /\ waiting'[m] = q
      /\ \A k \in Mutexes : k # m => waiting'[k] = waiting[k]
      /\ waiting[m] = list /\ holder[m] = h
  BY <1>3 DEF Inv, TypeOK, list, h
<1>9. /\ \A u \in Tasks : prio'[u] \in Nat /\ prio'[u] >= prio[u] /\ item'[u] = prio'[u]
      /\ \A u \in Tasks : u # h => prio'[u] = prio[u]
      /\ prio'[h] >= prio[t]
      /\ prio'[h] # prio[h] => prio[h] < prio[t] /\ prio'[h] = prio[t]
      /\ prio' \in [Tasks -> Nat] /\ item' \in [Tasks -> Nat]
  <2>0. prio \in [Tasks -> Nat] /\ item \in [Tasks -> Nat]
    BY DEF Inv, TypeOK
  <2>1. CASE prio[h] < prio[t]
    <3>1. prio' = [prio EXCEPT ![h] = prio[t]] /\ item' = [item EXCEPT ![h] = prio[t]]
      BY <2>1, <1>3, <1>4 DEF xTaskPriorityInherit
    <3> QED
      BY <2>0, <2>1, <3>1, <1>1, <1>4, <1>5
  <2>2. CASE ~(prio[h] < prio[t])
    <3>1. prio' = prio /\ item' = item
      BY <2>2, <1>3 DEF xTaskPriorityInherit
    <3> QED
      BY <2>0, <2>2, <3>1, <1>1, <1>4, <1>5
  <2> QED
    BY <2>1, <2>2
<1>10. /\ pc'[t] = "wait" /\ \A u \in Tasks : u # t => pc'[u] = pc[u]
  BY <1>1, <1>3 DEF Inv, TypeOK
<1>11. \A i \in 1..Len(list) : list[i] # t
  BY <1>1, <1>5
<1>12. \A i \in 1..(Len(list) + 1) :
          /\ q[i] = t \/ \E j \in 1..Len(list) : q[i] = list[j]
          /\ q[i] \in Tasks
  <2> SUFFICES ASSUME NEW i \in 1..(Len(list) + 1)
               PROVE  q[i] = t \/ \E j \in 1..Len(list) : q[i] = list[j]
    BY <1>1, <1>5
  <2>1. CASE i <= n
    BY <1>7, <2>1
  <2>2. CASE i = n + 1
    BY <1>7, <2>2
  <2>3. CASE i > n + 1
    <3>1. i - 1 \in 1..Len(list) /\ q[i] = list[i - 1]
      BY <1>7, <2>3
    <3> QED
      BY <3>1
  <2> QED
    BY <2>1, <2>2, <2>3
<1>13. TypeOK'
  <2>1. waiting' \in [Mutexes -> Seq(Users)]
    BY <1>3, <1>6 DEF Inv, TypeOK
  <2>2. IsInjective(q)
    <3>1. \A i, j \in 1..Len(list) : list[i] = list[j] => i = j
      BY <1>5, <1>8 DEF Inv, TypeOK, IsInjective
    <3>2. ASSUME NEW i \in 1..(Len(list) + 1), NEW j \in 1..(Len(list) + 1), q[i] = q[j]
          PROVE  i = j
      <4>1. q[i] = IF i <= n THEN list[i] ELSE IF i = n + 1 THEN t ELSE list[i - 1]
        BY <1>7
      <4>2. q[j] = IF j <= n THEN list[j] ELSE IF j = n + 1 THEN t ELSE list[j - 1]
        BY <1>7
      <4>3. CASE i = n + 1
        <5>1. j # n + 1 => \E k \in 1..Len(list) : q[j] = list[k]
          BY <4>2
        <5> QED
          BY <5>1, <4>1, <4>3, <3>2, <1>11
      <4>4. CASE j = n + 1
        <5>1. i # n + 1 => \E k \in 1..Len(list) : q[i] = list[k]
          BY <4>1
        <5> QED
          BY <5>1, <4>2, <4>4, <3>2, <1>11
      <4>5. CASE i # n + 1 /\ j # n + 1
        <5> DEFINE a == IF i <= n THEN i ELSE i - 1
                   b == IF j <= n THEN j ELSE j - 1
        <5>1. a \in 1..Len(list) /\ b \in 1..Len(list) /\ q[i] = list[a] /\ q[j] = list[b]
          BY <4>1, <4>2, <4>5
        <5>2. a = b
          BY <5>1, <3>1, <3>2
        <5> QED
          BY <5>2, <4>5
      <4> QED
        BY <4>3, <4>4, <4>5
    <3> QED
      BY <3>2, <1>6 DEF IsInjective
  <2>3. \A k \in Mutexes : IsInjective(waiting'[k])
    BY <2>2, <1>8 DEF Inv, TypeOK
  <2>4. ready' \subseteq Tasks /\ cur' \in ready'
    BY <1>3 DEF Inv, TypeOK, Highest
  <2>5. pc' \in [Tasks -> {"run", "try", "block", "wait", "sleep"}]
    BY <1>3 DEF Inv, TypeOK
  <2> QED
    BY <1>3, <1>9, <2>1, <2>3, <2>4, <2>5 DEF Inv, TypeOK
<1>14. PlaceInv'
  <2>1. \A u \in Tasks : u \in ready' <=> pc'[u] \notin {"wait", "sleep"}
    BY <1>1, <1>3, <1>10 DEF Inv, PlaceInv
  <2>2. \A u \in Pollers : pc'[u] = "run" /\ own'[u] = {}
    BY <1>1, <1>3, <1>10, Parameters DEF Inv, PlaceInv
  <2>3. ASSUME NEW k \in Mutexes, NEW i \in DOMAIN waiting'[k]
        PROVE  pc'[waiting'[k][i]] = "wait" /\ want'[waiting'[k][i]] = k
    <3>1. CASE k # m
      <4>1. waiting'[k] = waiting[k] /\ pc[waiting[k][i]] = "wait" /\ want[waiting[k][i]] = k
        BY <3>1, <1>8 DEF Inv, PlaceInv
      <4>2. waiting[k][i] \in Tasks
        <5>1. waiting[k][i] \in Users
          BY <4>1 DEF Inv, TypeOK
        <5> QED
          BY <5>1, Parameters
      <4> QED
        BY <4>1, <4>2, <1>1, <1>3, <1>10
    <3>2. CASE k = m
      <4>1. i \in 1..(Len(list) + 1) /\ waiting'[k] = q
        BY <3>2, <1>6, <1>8
      <4>2. CASE q[i] = t
        BY <4>1, <4>2, <3>2, <1>3, <1>10
      <4>3. CASE \E j \in 1..Len(list) : q[i] = list[j]
        <5>1. PICK j \in 1..Len(list) : q[i] = list[j]
          BY <4>3
        <5>2. list[j] \in Tasks /\ pc[list[j]] = "wait" /\ list[j] # t
          BY <1>5, <1>11
        <5>3. want[list[j]] = m
          BY <1>5, <1>8 DEF Inv, PlaceInv
        <5> QED
          BY <4>1, <5>1, <5>2, <5>3, <3>2, <1>3, <1>10
      <4> QED
        BY <4>1, <4>2, <4>3, <1>12
    <3> QED
      BY <3>1, <3>2
  <2> QED
    BY <2>1, <2>2, <2>3 DEF PlaceInv
<1>15. OwnInv'
  <2>1. \A u \in Tasks : InCall(u)' => InCall(u)
    BY <1>1, <1>10 DEF InCall
  <2> QED
    BY <1>3, <2>1 DEF Inv, OwnInv
<1>16. SortedInv'
  <2>1. \A u \in Tasks : item'[u] = prio'[u] /\ prio'[u] >= BasePrio[u]
    <3>1. \A u \in Tasks : BasePrio[u] \in Nat
      BY Parameters
    <3> QED
      BY <3>1, <1>5, <1>9
  <2>2. ASSUME NEW k \in Mutexes, NEW i \in DOMAIN waiting'[k], NEW j \in DOMAIN waiting'[k],
               i < j
        PROVE  prio'[waiting'[k][i]] >= BasePrio[waiting'[k][j]]
    <3>1. CASE k # m
      <4>1. waiting'[k] = waiting[k] /\ prio[waiting[k][i]] >= BasePrio[waiting[k][j]]
        BY <2>2, <3>1, <1>8 DEF Inv, SortedInv
      <4>2. waiting[k][i] \in Users /\ waiting[k][j] \in Users
        BY <4>1 DEF Inv, TypeOK
      <4> QED
        BY <4>1, <4>2, <1>5, <1>9, Parameters
    <3>2. CASE k = m
      <4>0. \A a, b \in 1..Len(list) : a < b => prio[list[a]] >= BasePrio[list[b]]
        BY <1>5, <1>8 DEF Inv, SortedInv
      <4>1. i \in 1..(Len(list) + 1) /\ j \in 1..(Len(list) + 1) /\ waiting'[k] = q
        BY <3>2, <1>6, <1>8
      <4>2. q[i] = IF i <= n THEN list[i] ELSE IF i = n + 1 THEN t ELSE list[i - 1]
        BY <1>7, <4>1
      <4>3. q[j] = IF j <= n THEN list[j] ELSE IF j = n + 1 THEN t ELSE list[j - 1]
        BY <1>7, <4>1
      <4>4. prio[q[i]] >= BasePrio[q[j]]
        <5>1. CASE j = n + 1
          <6>1. q[j] = t /\ q[i] = list[i] /\ i \in 1..n
            BY <5>1, <4>1, <4>2, <4>3, <2>2
          <6>2. prio[list[i]] >= prio[t]
            BY <6>1, <1>1, <1>5, <1>7
          <6> QED
            BY <6>1, <6>2, <1>1, <1>5, Parameters
        <5>2. CASE i = n + 1
          <6>1. q[i] = t /\ q[j] = list[j - 1] /\ j - 1 \in (n + 1)..Len(list)
            BY <5>2, <4>1, <4>2, <4>3, <2>2
          <6>2. n + 1 \in 1..Len(list) /\ j - 1 \in 1..Len(list)
            BY <6>1
          <6>3. prio[list[n + 1]] < prio[t]
            BY <6>1, <6>2, <1>1, <1>5, <1>7
          <6>4. prio[list[n + 1]] >= BasePrio[list[j - 1]]
            BY <6>1, <6>2, <4>0, <1>5
          <6> QED
            BY <6>1, <6>2, <6>3, <6>4, <1>1, <1>5, Parameters
        <5>3. CASE i # n + 1 /\ j # n + 1
          <6> DEFINE a == IF i <= n THEN i ELSE i - 1
                     b == IF j <= n THEN j ELSE j - 1
          <6>1. a \in 1..Len(list) /\ b \in 1..Len(list) /\ a < b
            BY <5>3, <4>1, <2>2
          <6>2. q[i] = list[a] /\ q[j] = list[b]
            BY <5>3, <4>2, <4>3
          <6> HIDE DEF a, b
          <6> QED
            BY <6>1, <6>2, <4>0
        <5> QED
          BY <5>1, <5>2, <5>3
      <4>5. q[i] \in Tasks /\ q[j] \in Tasks
        BY <4>1, <1>12
      <4> QED
        BY <4>1, <4>4, <4>5, <1>5, <1>9, Parameters
    <3> QED
      BY <3>1, <3>2
  <2> QED
    BY <2>1, <2>2 DEF SortedInv
<1>17. LentInv'
  <2> SUFFICES ASSUME NEW u \in Tasks, prio'[u] # BasePrio[u]
               PROVE  /\ LastGiven(u) \in own[u]
                      /\ waiting'[LastGiven(u)] # <<>>
                      /\ prio'[waiting'[LastGiven(u)][1]] >= prio'[u]
    <3>1. \A u \in Tasks : LastGiven(u)' = LastGiven(u) /\ own'[u] = own[u]
      BY <1>3 DEF LastGiven
    <3> QED
      BY <3>1 DEF LentInv
  <2>1. q # <<>> /\ 1 \in 1..(Len(list) + 1)
    BY <1>5, <1>6
  <2>2. q[1] \in Tasks /\ prio[q[1]] >= prio[t] /\ prio[q[1]] \in Nat
    <3>1. CASE n = 0
      BY <3>1, <2>1, <1>1, <1>5, <1>7
    <3>2. CASE n > 0
      <4>1. q[1] = list[1] /\ 1 \in 1..n /\ 1 \in 1..Len(list)
        BY <3>2, <2>1, <1>7
      <4> QED
        BY <4>1, <1>1, <1>5, <1>7
    <3> QED
      BY <3>1, <3>2
  <2>3. CASE prio'[u] # prio[u]
    <3>1. u = h /\ prio[h] < prio[t] /\ prio'[u] = prio[t]
      BY <2>3, <1>9
    <3>2. ~(m = Heap /\ Core \in own[h])
      <4> SUFFICES ASSUME m = Heap, Core \in own[h] PROVE FALSE
        OBVIOUS
      <4>1. holder[Core] = h
        BY <1>4 DEF Inv, OwnInv
      <4>2. Core \notin own[t]
        BY <4>1, <1>1, <1>4 DEF Inv, OwnInv
      <4>3. own[t] = {} /\ t \in Lone
        BY <4>2, <1>2, Parameters
      <4>4. BasePrio[t] <= BasePrio[h] /\ BasePrio[t] \in Nat /\ BasePrio[h] \in Nat
        BY <4>3, <1>1, <1>4, Parameters
      <4>5. prio[t] # BasePrio[t]
        BY <4>4, <3>1, <1>1, <1>4, <1>5
      <4> QED
        BY <4>3, <4>5, <1>1 DEF Inv, LentInv
    <3>3. LastGiven(h) = m
      BY <3>2, <1>4, Parameters DEF LastGiven
    <3> QED
      BY <3>1, <3>3, <2>1, <2>2, <1>1, <1>4, <1>5, <1>8, <1>9
  <2>4. CASE prio'[u] = prio[u]
    <3> DEFINE l == LastGiven(u)
    <3>1. l \in own[u] /\ waiting[l] # <<>> /\ prio[waiting[l][1]] >= prio[u]
      BY <2>4 DEF Inv, LentInv
    <3>2. l \in Mutexes
      BY Parameters DEF LastGiven
    <3> HIDE DEF l
    <3>3. waiting[l] \in Seq(Users) /\ waiting[l][1] \in Tasks
      <4>1. waiting[l] \in Seq(Users)
        BY <3>2 DEF Inv, TypeOK
      <4>2. waiting[l][1] \in Users
        BY <4>1, <3>1
      <4> QED
        BY <4>1, <4>2, Parameters
    <3>4. CASE l # m
      <4>1. waiting'[l] = waiting[l]
        BY <3>2, <3>4, <1>8
      <4> QED
        BY <4>1, <3>1, <3>3, <2>4, <1>5, <1>9 DEF l
    <3>5. CASE l = m
      <4>1. list # <<>> /\ prio[list[1]] >= prio[u] /\ 1 \in 1..Len(list)
        BY <3>1, <3>5, <1>5, <1>8
      <4>2. prio[q[1]] >= prio[u]
        <5>1. CASE n = 0
          <6>1. q[1] = t /\ prio[list[1]] < prio[t]
            BY <5>1, <4>1, <2>1, <1>1, <1>5, <1>7
          <6> QED
            BY <6>1, <4>1, <1>1, <1>5
        <5>2. CASE n > 0
          <6>1. q[1] = list[1]
            BY <5>2, <2>1, <1>7
          <6> QED
            BY <6>1, <4>1
        <5> QED
          BY <5>1, <5>2
      <4>3. prio'[q[1]] >= prio'[u]
        BY <4>2, <2>2, <2>4, <1>5, <1>9
      <4> QED
        BY <4>3, <3>1, <3>5, <2>1, <1>8 DEF l
    <3> QED
      BY <3>4, <3>5
  <2> QED
    BY <2>3, <2>4
<1>18. TriedInv'
  <2> SUFFICES ASSUME NEW k \in Mutexes, NEW i \in DOMAIN waiting'[k], count[k] = 1
               PROVE  \E w \in ready' : /\ pc'[w] \in {"try", "block"} /\ want[w] = k
                                        /\ prio'[w] >= BasePrio[waiting'[k][i]]
    BY <1>3 DEF TriedInv
  <2>1. k # m /\ waiting'[k] = waiting[k]
    BY <1>4, <1>8
  <2>2. PICK w \in ready : /\ pc[w] \in {"try", "block"} /\ want[w] = k
                           /\ prio[w] >= BasePrio[waiting[k][i]]
    BY <2>1 DEF Inv, TriedInv
  <2>3. w # t /\ w \in Tasks /\ w \in ready'
    BY <2>1, <2>2, <1>3 DEF Inv, TypeOK
  <2>4. BasePrio[waiting[k][i]] \in Nat
    <3>1. waiting[k][i] \in Users
      BY <2>1 DEF Inv, TypeOK
    <3> QED
      BY <3>1, Parameters
  <2>5. prio'[w] >= BasePrio[waiting[k][i]]
    BY <2>2, <2>3, <2>4, <1>5, <1>9
  <2> QED
    BY <2>1, <2>2, <2>3, <2>5, <1>10
<1>19. HolderOutranksWaiters'
  <2> SUFFICES ASSUME NEW k \in Mutexes, NEW i \in DOMAIN waiting'[k], holder[k] # Nobody
               PROVE  prio'[holder[k]] >= BasePrio[waiting'[k][i]]
    BY <1>3 DEF HolderOutranksWaiters
  <2>1. holder[k] \in Tasks
    BY DEF Inv, TypeOK
  <2>2. CASE k # m
    <3>1. waiting'[k] = waiting[k] /\ prio[holder[k]] >= BasePrio[waiting[k][i]]
      BY <2>2, <1>8 DEF Inv, HolderOutranksWaiters
    <3>2. waiting[k][i] \in Users
      BY <3>1 DEF Inv, TypeOK
    <3> QED
      BY <2>1, <3>1, <3>2, <1>5, <1>9, Parameters
  <2>3. CASE k = m
    <3>1. i \in 1..(Len(list) + 1) /\ waiting'[k] = q /\ holder[k] = h
      BY <2>3, <1>6, <1>8
    <3>2. CASE q[i] = t
      BY <3>1, <3>2, <1>1, <1>4, <1>5, <1>9, Parameters
    <3>3. CASE \E j \in 1..Len(list) : q[i] = list[j]
      <4>1. PICK j \in 1..Len(list) : q[i] = list[j]
        BY <3>3
      <4>2. prio[h] >= BasePrio[list[j]]
        BY <1>4, <1>5, <1>8 DEF Inv, HolderOutranksWaiters
      <4> QED
        BY <4>1, <4>2, <3>1, <1>4, <1>5, <1>9, Parameters, SMTT(30)
    <3> QED
      BY <3>1, <3>2, <3>3, <1>12
  <2> QED
    BY <2>2, <2>3
<1>20. HighestRuns'
  BY <1>3 DEF HighestRuns, Highest
<1> QED
  BY <1>13, <1>14, <1>15, <1>16, <1>17, <1>18, <1>19, <1>20 DEF Inv

(* A mutex given between the test and the wait is tried again.             *)
LEMMA TakeBlockStep ==
    ASSUME Inv, NEW t \in Users, TakeBlock(t)
    PROVE  Inv'
<1>0. PICK m \in Mutexes : m = want[t]
  BY Parameters DEF Inv, TypeOK
<1>1. t \in Tasks /\ pc[t] = "block" /\ cur = t /\ t \in ready
  BY Parameters DEF Inv, TypeOK, TakeBlock
<1>2. CASE StillTaken(m)
  BY <1>0, <1>2, BlockStep
<1>3. CASE ~StillTaken(m)
  <2>1. /\ pc' = [pc EXCEPT ![t] = "try"]
        /\ UNCHANGED <<prio, item, waiting, ready, cur, heldCount, holder, count, want, own>>
    BY <1>0, <1>3 DEF TakeBlock
  <2>2. TypeOK'
    BY <2>1 DEF Inv, TypeOK
  <2>3. PlaceInv'
    BY <1>1, <2>1, Parameters DEF Inv, PlaceInv, TypeOK
  <2>4. OwnInv'
    <3>1. \A u \in Tasks : InCall(u)' => InCall(u)
      BY <1>1, <2>1 DEF Inv, TypeOK, InCall
    <3> QED
      BY <2>1, <3>1 DEF Inv, OwnInv
  <2>5. SortedInv' /\ LentInv' /\ HolderOutranksWaiters' /\ HighestRuns'
    BY <2>1 DEF Inv, SortedInv, LentInv, LastGiven, HolderOutranksWaiters, HighestRuns
  <2>6. TriedInv'
    BY <1>1, <2>1, TriedKept DEF Inv, TypeOK
  <2> QED
    BY <2>2, <2>3, <2>4, <2>5, <2>6 DEF Inv
<1> QED
  BY <1>2, <1>3

(* sys_mutex_unlock: the first task that waits is made ready, and with the *)
(* last mutex a priority that was lent goes back.                          *)
LEMMA UnlockStep ==
    ASSUME Inv, NEW t \in Users, NEW m \in Mutexes, sys_mutex_unlock(t, m)
    PROVE  Inv'
<1> DEFINE list == waiting[m]
           woken == IF list = <<>> THEN {} ELSE {Head(list)}
<1>1. t \in Tasks /\ pc[t] = "run" /\ cur = t /\ t \in ready /\ m \in own[t]
  BY Parameters DEF Inv, TypeOK, sys_mutex_unlock
<1>2. own[t] = {m} \/ (own[t] = {Core, Heap} /\ m = Heap)
  <2>1. own[t] \subseteq {Core, Heap}
    BY <1>1 DEF Inv, TypeOK, Mutexes
  <2>2. m = Core => own[t] = {Core}
    BY DEF sys_mutex_unlock
  <2> QED
    BY <1>1, <2>1, <2>2, Parameters
<1>3. /\ heldCount' = [heldCount EXCEPT ![t] = @ - 1]
      /\ holder' = [holder EXCEPT ![m] = Nobody]
      /\ count' = [count EXCEPT ![m] = 1]
      /\ waiting' = [waiting EXCEPT ![m] = IF woken = {} THEN @ ELSE Tail(@)]
      /\ ready' = ready \union woken
      /\ pc' = [u \in Tasks |-> IF u \in woken THEN "try" ELSE pc[u]]
      /\ want' = want
      /\ IF Yields(t, woken) THEN cur' \in Highest(ready', prio') ELSE cur' = cur
  BY DEF sys_mutex_unlock, Unqueued, WokenOwns, SwitchContext
<1>4. /\ own'[t] = own[t] \ {m}
      /\ \A u \in Tasks : u # t => own'[u] = own[u]
      /\ own' \in [Tasks -> SUBSET Mutexes]
  <2>1. own' = [u \in Tasks |-> [own EXCEPT ![t] = @ \ {m}][u]
                                 \union (IF u \in woken THEN {} ELSE {})]
    BY DEF sys_mutex_unlock, WokenOwns
  <2>2. own \in [Tasks -> SUBSET Mutexes]
    BY DEF Inv, TypeOK
  <2> QED
    BY <1>1, <2>1, <2>2
<1>5. /\ list \in Seq(Users) /\ DOMAIN list = 1..Len(list)
      /\ \A i \in 1..Len(list) : /\ list[i] \in Users /\ list[i] \in Tasks
                                 /\ pc[list[i]] = "wait" /\ want[list[i]] = m
      /\ \A i, j \in 1..Len(list) : list[i] = list[j] => i = j
  <2>1. list \in Seq(Users) /\ DOMAIN list = 1..Len(list)
    BY DEF Inv, TypeOK
  <2>2. \A i \in 1..Len(list) : list[i] \in Users
    BY <2>1
  <2>3. \A i \in 1..Len(list) : pc[list[i]] = "wait" /\ want[list[i]] = m
    BY <2>1 DEF Inv, PlaceInv
  <2>4. \A i, j \in 1..Len(list) : list[i] = list[j] => i = j
    BY <2>1 DEF Inv, TypeOK, IsInjective
  <2> QED
    BY <2>1, <2>2, <2>3, <2>4, Parameters
<1>6. /\ woken = {} <=> list = <<>>
      /\ \A w \in woken : list # <<>> /\ w = list[1] /\ w \in Tasks /\ pc[w] = "wait"
                         /\ want[w] = m /\ w # t
      /\ list # <<>> => woken = {list[1]} /\ 1 \in 1..Len(list)
  BY <1>1, <1>5
<1>7. /\ \A k \in Mutexes : k # m => /\ waiting'[k] = waiting[k] /\ count'[k] = count[k]
                                     /\ holder'[k] = holder[k]
      /\ count'[m] = 1 /\ holder'[m] = Nobody
      /\ waiting'[m] = IF list = <<>> THEN list ELSE Tail(list)
      /\ waiting[m] = list
  BY <1>3, <1>6 DEF Inv, TypeOK
<1>8. /\ waiting'[m] \in Seq(Users)
      /\ DOMAIN waiting'[m] = 1..Len(waiting'[m])
      /\ \A i \in 1..Len(waiting'[m]) : i + 1 \in 1..Len(list) /\ waiting'[m][i] = list[i + 1]
  BY <1>5, <1>7
<1> HIDE DEF list, woken
<1>9. /\ \A u \in Tasks : prio[u] \in Nat /\ prio[u] >= BasePrio[u] /\ BasePrio[u] \in Nat
                          /\ item[u] = prio[u]
      /\ prio \in [Tasks -> Nat] /\ item \in [Tasks -> Nat]
  <2>1. \A u \in Tasks : BasePrio[u] \in Nat
    BY Parameters
  <2> QED
    BY <2>1 DEF Inv, TypeOK, SortedInv
<1>10. /\ heldCount[t] = 1 <=> own[t] = {m}
       /\ heldCount'[t] = Cardinality(own'[t])
       /\ heldCount' \in [Tasks -> 0..2]
       /\ \A u \in Tasks : u # t => heldCount'[u] = heldCount[u]
  <2>0. /\ heldCount \in [Tasks -> 0..2] /\ heldCount'[t] = heldCount[t] - 1
        /\ heldCount[t] = Cardinality(own[t])
    BY <1>1, <1>3 DEF Inv, TypeOK, OwnInv
  <2>1. CASE own[t] = {m}
    <3>1. heldCount[t] = 1
      BY <2>0, <2>1, FS_Singleton
    <3>2. own'[t] = {} /\ heldCount'[t] = 0
      BY <1>4, <2>0, <2>1, <3>1
    <3>3. heldCount'[t] = Cardinality(own'[t])
      BY <3>2, MutexSets
    <3>4. heldCount' \in [Tasks -> 0..2]
      BY <2>0, <3>1, <1>3
    <3> QED
      BY <2>0, <2>1, <3>1, <3>3, <3>4, <1>3
  <2>2. CASE own[t] = {Core, Heap} /\ m = Heap
    <3>1. heldCount[t] = 2
      BY <2>0, <2>2, MutexSets
    <3>2. own'[t] = {Core} /\ heldCount'[t] = 1
      BY <1>4, <2>0, <2>2, <3>1, MutexSets
    <3>3. heldCount'[t] = Cardinality(own'[t])
      BY <3>2, MutexSets
    <3>4. heldCount' \in [Tasks -> 0..2]
      BY <2>0, <3>1, <1>3
    <3>5. own[t] # {m}
      BY <2>2, MutexSets
    <3> QED
      BY <2>0, <3>1, <3>3, <3>4, <3>5, <1>3
  <2> QED
    BY <2>1, <2>2, <1>2
<1>11. /\ prio' \in [Tasks -> Nat] /\ item' \in [Tasks -> Nat]
       /\ \A u \in Tasks : u # t => prio'[u] = prio[u]
       /\ \A u \in Tasks : item'[u] = prio'[u] /\ prio'[u] >= BasePrio[u]
       /\ Disinherits(t) => prio'[t] = BasePrio[t]
       /\ ~Disinherits(t) => prio'[t] = prio[t]
       /\ prio'[t] # BasePrio[t] \/ own[t] # {m} => prio'[t] = prio[t]
       /\ Disinherits(t) => prio[t] # BasePrio[t] /\ own[t] = {m}
       /\ prio'[t] # BasePrio[t] => own[t] # {m}
  <2>1. CASE Disinherits(t)
    <3>1. /\ prio' = [prio EXCEPT ![t] = BasePrio[t]] /\ item' = [item EXCEPT ![t] = BasePrio[t]]
      BY <2>1 DEF sys_mutex_unlock
    <3>2. prio[t] # BasePrio[t] /\ own[t] = {m}
      BY <2>1, <1>10 DEF Disinherits
    <3> QED
      BY <2>1, <3>1, <3>2, <1>1, <1>9
  <2>2. CASE ~Disinherits(t)
    <3>1. prio' = prio /\ item' = item
      BY <2>2 DEF sys_mutex_unlock
    <3>2. prio[t] # BasePrio[t] => own[t] # {m}
      BY <2>2, <1>10 DEF Disinherits
    <3> QED
      BY <2>2, <3>1, <3>2, <1>1, <1>9
  <2> QED
    BY <2>1, <2>2
<1>12. /\ pc' \in [Tasks -> {"run", "try", "block", "wait", "sleep"}]
       /\ \A u \in Tasks : pc'[u] = IF u \in woken THEN "try" ELSE pc[u]
       /\ pc'[t] = "run"
  <2>1. pc \in [Tasks -> {"run", "try", "block", "wait", "sleep"}]
    BY DEF Inv, TypeOK
  <2> QED
    BY <2>1, <1>1, <1>3, <1>6
<1>13. \A k \in Mutexes : \A i \in DOMAIN waiting[k] :
          /\ waiting[k][i] \in Tasks /\ waiting[k][i] # t
          /\ prio'[waiting[k][i]] = prio[waiting[k][i]]
  <2> SUFFICES ASSUME NEW k \in Mutexes, NEW i \in DOMAIN waiting[k]
               PROVE  waiting[k][i] \in Tasks /\ waiting[k][i] # t
    BY <1>11
  <2>1. waiting[k][i] \in Users /\ pc[waiting[k][i]] = "wait"
    BY DEF Inv, TypeOK, PlaceInv
  <2> QED
    BY <2>1, <1>1, Parameters
<1>14. TypeOK'
  <2>1. waiting' \in [Mutexes -> Seq(Users)]
    BY <1>3, <1>7, <1>8 DEF Inv, TypeOK
  <2>2. IsInjective(waiting'[m])
    BY <1>5, <1>8 DEF IsInjective
  <2>3. \A k \in Mutexes : IsInjective(waiting'[k])
    BY <2>2, <1>7 DEF Inv, TypeOK
  <2>4. holder' \in [Mutexes -> Tasks \union {Nobody}] /\ count' \in [Mutexes -> {0, 1}]
    BY <1>3 DEF Inv, TypeOK
  <2>5. ready' \subseteq Tasks
    BY <1>3, <1>6 DEF Inv, TypeOK
  <2>6. cur' \in ready'
    BY <1>1, <1>3 DEF Highest
  <2>7. want' \in [Tasks -> Mutexes]
    BY <1>3 DEF Inv, TypeOK
  <2> QED
    BY <1>4, <1>10, <1>11, <1>12, <2>1, <2>3, <2>4, <2>5, <2>6, <2>7 DEF TypeOK
<1>15. PlaceInv'
  <2>1. \A u \in Tasks : u \in ready' <=> pc'[u] \notin {"wait", "sleep"}
    BY <1>3, <1>12 DEF Inv, PlaceInv
  <2>2. \A u \in Pollers : pc'[u] = "run" /\ own'[u] = {}
    <3> SUFFICES ASSUME NEW u \in Pollers PROVE pc'[u] = "run" /\ own'[u] = {}
      OBVIOUS
    <3>1. u \in Tasks /\ u # t /\ pc[u] = "run" /\ own[u] = {}
      BY Parameters DEF Inv, PlaceInv
    <3> QED
      BY <3>1, <1>4, <1>6, <1>12
  <2>3. ASSUME NEW k \in Mutexes, NEW i \in DOMAIN waiting'[k]
        PROVE  pc'[waiting'[k][i]] = "wait" /\ want'[waiting'[k][i]] = k
    <3>1. CASE k # m
      <4>1. waiting'[k] = waiting[k] /\ pc[waiting[k][i]] = "wait" /\ want[waiting[k][i]] = k
        BY <3>1, <1>7 DEF Inv, PlaceInv
      <4>2. waiting[k][i] \notin woken /\ waiting[k][i] \in Tasks
        BY <3>1, <4>1, <1>6, <1>13
      <4> QED
        BY <4>1, <4>2, <1>3, <1>12
    <3>2. CASE k = m
      <4>1. /\ i \in 1..Len(waiting'[m]) /\ i + 1 \in 1..Len(list)
            /\ waiting'[m][i] = list[i + 1]
        BY <3>2, <1>8
      <4>2. list[i + 1] # list[1] /\ 1 \in 1..Len(list)
        BY <4>1, <1>5
      <4>3. list[i + 1] \notin woken
        BY <4>2, <1>6
      <4> QED
        BY <4>1, <4>3, <3>2, <1>3, <1>5, <1>12
    <3> QED
      BY <3>1, <3>2
  <2> QED
    BY <2>1, <2>2, <2>3 DEF PlaceInv
<1>16. OwnInv'
  <2>1. (\A u \in Tasks : \A k \in own[u] : holder[k] = u)'
    <3> SUFFICES ASSUME NEW u \in Tasks, NEW k \in own'[u] PROVE holder'[k] = u
      OBVIOUS
    <3>1. k \in own[u] /\ k \in Mutexes /\ holder[k] = u
      <4>1. k \in own[u]
        BY <1>4
      <4> QED
        BY <4>1 DEF Inv, OwnInv, TypeOK
    <3>2. k # m
      BY <3>1, <1>1, <1>4 DEF Inv, OwnInv
    <3> QED
      BY <3>1, <3>2, <1>7
  <2>2. (\A k \in Mutexes : holder[k] # Nobody => k \in own[holder[k]])'
    <3> SUFFICES ASSUME NEW k \in Mutexes, holder'[k] # Nobody
                 PROVE  k \in own'[holder'[k]]
      OBVIOUS
    <3>1. k # m /\ holder'[k] = holder[k]
      BY <1>7
    <3>2. holder[k] \in Tasks /\ k \in own[holder[k]]
      BY <3>1 DEF Inv, OwnInv, TypeOK
    <3> QED
      BY <3>1, <3>2, <1>4
  <2>3. (\A k \in Mutexes : count[k] = 0 <=> holder[k] # Nobody)'
    BY <1>7 DEF Inv, OwnInv
  <2>4. (\A u \in Tasks : heldCount[u] = Cardinality(own[u]))'
    BY <1>4, <1>10 DEF Inv, OwnInv
  <2>5. (\A u \in Tasks : InCall(u) =>
           \/ own[u] = {} /\ (want[u] = Core \/ u \in Lone)
           \/ own[u] = {Core} /\ want[u] = Heap)'
    <3> SUFFICES ASSUME NEW u \in Tasks, InCall(u)'
                 PROVE  (\/ own[u] = {} /\ (want[u] = Core \/ u \in Lone)
                         \/ own[u] = {Core} /\ want[u] = Heap)'
      OBVIOUS
    <3>1. u # t /\ InCall(u)
      BY <1>6, <1>12 DEF InCall
    <3> QED
      BY <3>1, <1>3, <1>4 DEF Inv, OwnInv
  <2>6. (\A u \in Tasks : own[u] = {Heap} => u \in Lone)'
    <3>1. own'[t] # {Heap}
      BY <1>2, <1>4, MutexSets
    <3> QED
      BY <3>1, <1>4 DEF Inv, OwnInv
  <2> QED
    BY <2>1, <2>2, <2>3, <2>4, <2>5, <2>6 DEF OwnInv
<1>17. SortedInv'
  <2>1. ASSUME NEW k \in Mutexes, NEW i \in DOMAIN waiting'[k], NEW j \in DOMAIN waiting'[k],
               i < j
        PROVE  prio'[waiting'[k][i]] >= BasePrio[waiting'[k][j]]
    <3>1. CASE k # m
      BY <2>1, <3>1, <1>7, <1>13 DEF Inv, SortedInv
    <3>2. CASE k = m
      <4>1. /\ i + 1 \in 1..Len(list) /\ waiting'[k][i] = list[i + 1]
            /\ j + 1 \in 1..Len(list) /\ waiting'[k][j] = list[j + 1]
            /\ i + 1 < j + 1
        BY <2>1, <3>2, <1>8
      <4>2. prio[list[i + 1]] >= BasePrio[list[j + 1]]
        BY <4>1, <1>5, <1>7 DEF Inv, SortedInv
      <4>3. prio'[list[i + 1]] = prio[list[i + 1]]
        BY <4>1, <1>5, <1>7, <1>13
      <4> QED
        BY <4>1, <4>2, <4>3
    <3> QED
      BY <3>1, <3>2
  <2> QED
    BY <2>1, <1>11 DEF SortedInv
<1>18. LentInv'
  <2> SUFFICES ASSUME NEW u \in Tasks, prio'[u] # BasePrio[u]
               PROVE  /\ LastGiven(u)' \in own'[u]
                      /\ waiting'[LastGiven(u)'] # <<>>
                      /\ prio'[waiting'[LastGiven(u)'][1]] >= prio'[u]
    BY DEF LentInv
  <2>1. prio'[u] = prio[u]
    BY <1>11
  <2>2. /\ LastGiven(u) \in own[u] /\ LastGiven(u) \in Mutexes
        /\ waiting[LastGiven(u)] # <<>>
        /\ prio[waiting[LastGiven(u)][1]] >= prio[u]
    BY <2>1, Parameters DEF Inv, LentInv, LastGiven
  <2>3. /\ LastGiven(u)' = LastGiven(u) /\ LastGiven(u) \in own'[u] /\ LastGiven(u) # m
    <3>1. CASE u = t
      <4>1. own[t] = {Core, Heap} /\ m = Heap
        BY <3>1, <1>2, <1>11
      <4>2. Core \in own[t] /\ Core \in own'[t] /\ Core # m
        BY <4>1, <1>4, Parameters
      <4> QED
        BY <3>1, <4>2 DEF LastGiven
    <3>2. CASE u # t
      <4>1. own'[u] = own[u] /\ m \notin own[u]
        BY <3>2, <1>1, <1>4 DEF Inv, OwnInv
      <4> QED
        BY <4>1, <2>2 DEF LastGiven
    <3> QED
      BY <3>1, <3>2
  <2>4. 1 \in DOMAIN waiting[LastGiven(u)]
    <3>1. waiting[LastGiven(u)] \in Seq(Users)
      BY <2>2 DEF Inv, TypeOK
    <3> QED
      BY <2>2, <3>1
  <2>5. waiting'[LastGiven(u)] = waiting[LastGiven(u)]
    BY <2>2, <2>3, <1>7
  <2>6. prio'[waiting[LastGiven(u)][1]] = prio[waiting[LastGiven(u)][1]]
    BY <2>2, <2>4, <1>13
  <2> QED
    BY <2>1, <2>2, <2>3, <2>5, <2>6
<1>19. TriedInv'
  <2> SUFFICES ASSUME NEW k \in Mutexes, NEW i \in DOMAIN waiting'[k], count'[k] = 1
               PROVE  \E w \in ready' : /\ pc'[w] \in {"try", "block"} /\ want[w] = k
                                        /\ prio'[w] >= BasePrio[waiting'[k][i]]
    BY <1>3 DEF TriedInv
  <2>1. CASE k # m
    <3>1. waiting'[k] = waiting[k] /\ count[k] = 1
      BY <2>1, <1>7
    <3>2. PICK w \in ready : /\ pc[w] \in {"try", "block"} /\ want[w] = k
                             /\ prio[w] >= BasePrio[waiting[k][i]]
      BY <3>1 DEF Inv, TriedInv
    <3>3. w # t /\ w \in Tasks /\ w \notin woken /\ w \in ready'
      BY <3>2, <1>1, <1>3, <1>6 DEF Inv, TypeOK
    <3> QED
      BY <3>1, <3>2, <3>3, <1>11, <1>12
  <2>2. CASE k = m
    <3>1. i + 1 \in 1..Len(list) /\ waiting'[k][i] = list[i + 1] /\ 1 \in 1..Len(list)
          /\ i \in Nat /\ i >= 1
      BY <2>2, <1>5, <1>8
    <3>2. list[1] \in woken /\ list[1] \in Tasks /\ list[1] # t
      <4>1. list # <<>>
        BY <3>1, <1>5
      <4> QED
        BY <4>1, <1>6
    <3>3. prio[list[1]] >= BasePrio[list[i + 1]]
      BY <3>1, <1>5, <1>7 DEF Inv, SortedInv
    <3>4. list[1] \in ready'
      BY <3>2, <1>3
    <3> QED
      BY <2>2, <3>1, <3>2, <3>3, <3>4, <1>6, <1>11, <1>12
  <2> QED
    BY <2>1, <2>2
<1>20. HolderOutranksWaiters'
  <2> SUFFICES ASSUME NEW k \in Mutexes, NEW i \in DOMAIN waiting'[k], holder'[k] # Nobody
               PROVE  prio'[holder'[k]] >= BasePrio[waiting'[k][i]]
    BY DEF HolderOutranksWaiters
  <2>1. k # m /\ waiting'[k] = waiting[k] /\ holder'[k] = holder[k]
    BY <1>7
  <2>2. prio[holder[k]] >= BasePrio[waiting[k][i]] /\ holder[k] \in Tasks /\ k \in own[holder[k]]
    BY <2>1 DEF Inv, HolderOutranksWaiters, TypeOK, OwnInv
  <2>3. prio'[holder[k]] = prio[holder[k]]
    <3>1. CASE holder[k] = t
      <4>1. own[t] # {m}
        BY <3>1, <2>1, <2>2
      <4> QED
        BY <3>1, <4>1, <1>11
    <3>2. CASE holder[k] # t
      BY <3>2, <2>2, <1>11
    <3> QED
      BY <3>1, <3>2
  <2> QED
    BY <2>1, <2>2, <2>3
<1>21. HighestRuns'
  <2>1. CASE Yields(t, woken)
    BY <2>1, <1>3 DEF HighestRuns, Highest
  <2>2. CASE ~Yields(t, woken)
    <3>0. cur' = t
      BY <2>2, <1>1, <1>3
    <3>1. ~Disinherits(t)
      <4> SUFFICES ASSUME Disinherits(t), woken # {} PROVE FALSE
        BY <2>2 DEF Yields
      <4>1. own[t] = {m} /\ prio[t] # BasePrio[t] /\ prio'[t] = BasePrio[t]
        BY <1>11
      <4>2. LastGiven(t) \in own[t] /\ prio[waiting[LastGiven(t)][1]] >= prio[t]
        BY <4>1, <1>1 DEF Inv, LentInv
      <4>3. LastGiven(t) = m
        BY <4>1, <4>2
      <4>4. PICK w \in woken : w = list[1] /\ w \in Tasks /\ w # t
        BY <1>6
      <4>5. prio'[w] = prio[w] /\ prio[w] >= prio[t]
        BY <4>2, <4>3, <4>4, <1>7, <1>11
      <4>6. ~(prio'[w] > prio'[t])
        BY <2>2, <4>4 DEF Yields
      <4> QED
        BY <4>1, <4>4, <4>5, <4>6, <1>1, <1>9
    <3>2. \A u \in Tasks : prio'[u] = prio[u]
      BY <3>1, <1>11
    <3>3. ASSUME NEW u \in ready' PROVE prio'[u] <= prio'[t]
      <4>1. CASE u \in ready
        BY <4>1, <3>2, <1>1 DEF Inv, HighestRuns, TypeOK
      <4>2. CASE u \in woken
        <5>1. ~(prio'[u] > prio'[t])
          BY <2>2, <4>2 DEF Yields
        <5>2. u \in Tasks
          BY <4>2, <1>6
        <5> QED
          BY <5>1, <5>2, <3>2, <1>1, <1>9
      <4> QED
        BY <4>1, <4>2, <1>3
    <3> QED
      BY <3>0, <3>3 DEF HighestRuns
  <2> QED
    BY <2>1, <2>2
<1> QED
  BY <1>14, <1>15, <1>16, <1>17, <1>18, <1>19, <1>20, <1>21 DEF Inv

-----------------------------------------------------------------------------
(* Every step keeps the invariant.                                         *)
LEMMA NextInv == Inv /\ [Next]_vars => Inv'
<1> SUFFICES ASSUME Inv, [Next]_vars PROVE Inv'
  OBVIOUS
<1>1. CASE UNCHANGED vars
  <2>1. TypeOK' /\ PlaceInv' /\ OwnInv' /\ SortedInv'
    BY <1>1 DEF vars, Inv, TypeOK, PlaceInv, OwnInv, InCall, SortedInv
  <2>2. LentInv' /\ TriedInv' /\ HolderOutranksWaiters' /\ HighestRuns'
    BY <1>1 DEF vars, Inv, LentInv, LastGiven, TriedInv, HolderOutranksWaiters, HighestRuns
  <2> QED
    BY <2>1, <2>2 DEF Inv
<1>2. CASE Next
  BY <1>2, LockStep, UnlockStep, TakeTryStep, TakeBlockStep, SleepStep, WakeUpStep, SliceStep
  DEF Next
<1> QED
  BY <1>1, <1>2

(* The inductive invariant, in every state of every behaviour.             *)
THEOREM MutexInvariance == Spec => []Inv
  BY InitInv, NextInv, PTL DEF Spec

(* The mutexes of lwIP exclude, lose no wake-up, and leave no priority     *)
(* with a task that gave them back (xQueueSemaphoreTake,                   *)
(* xQueueGenericSend), whatever tasks use them.                            *)
THEOREM MutexesConsistent == Spec => []MutexConsistent
<1>1. Inv => MutexConsistent
  <2> SUFFICES ASSUME Inv PROVE MutexConsistent
    OBVIOUS
  <2>1. MutualExclusion
    BY Parameters DEF Inv, OwnInv, TypeOK, MutualExclusion
  <2>2. LentWhileHolding
    BY DEF Inv, OwnInv, LentInv, LentWhileHolding
  <2>3. NoLostWakeUp
    <3> SUFFICES ASSUME NEW m \in Mutexes, waiting[m] # <<>>, count[m] = 1
                 PROVE  \E t \in ready : pc[t] \in {"try", "block"} /\ want[t] = m
      BY DEF NoLostWakeUp
    <3>1. waiting[m] \in Seq(Users)
      BY DEF Inv, TypeOK
    <3>2. 1 \in DOMAIN waiting[m]
      BY <3>1
    <3> QED
      BY <3>2 DEF Inv, TriedInv
  <2> QED
    BY <2>1, <2>2, <2>3 DEF Inv, MutexConsistent
<1> QED
  BY <1>1, MutexInvariance, PTL

(* Priority inheritance (xTaskPriorityInherit, xTaskPriorityDisinherit)    *)
(* keeps a holder above the tasks that wait for it, and after every loan   *)
(* and return the running task is one of the highest priority.             *)
THEOREM NoPriorityInversion == Spec => []PrioritiesServe
<1>1. Inv => PrioritiesServe
  BY DEF Inv, PrioritiesServe
<1> QED
  BY <1>1, MutexInvariance, PTL
=============================================================================
