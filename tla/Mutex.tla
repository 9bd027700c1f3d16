------------------------------- MODULE Mutex -------------------------------
(***************************************************************************)
(* The mutexes that lwIP is protected with: sys_mutex_lock and _unlock of  *)
(* sys_arch.c, that is xQueueSemaphoreTake and xQueueGenericSend on a      *)
(* queue of type queueQUEUE_IS_MUTEX (queue.c), with the priority          *)
(* inheritance of tasks.c.                                                 *)
(*                                                                         *)
(* Two mutexes are used: lock_tcpip_core (Core) and mem_mutex (Heap).      *)
(* mem_malloc takes Heap, as a rule inside Core, and nothing takes Core    *)
(* while it has Heap.  Both wait for ever, so no wait times out.  A        *)
(* critical section, and one with the scheduler suspended, is one step.    *)
(***************************************************************************)
EXTENDS Integers, Sequences, FiniteSets, SequencesExt

CONSTANTS
    Users,      \* tasks that call lwIP
    Lone,       \* those that allocate from lwIP's heap without the core lock:
                \* applications, of the lowest priority among the users
    Pollers,    \* tasks that are always ready and never take a mutex
    Core, Heap, \* the mutexes
    BasePrio,   \* uxBasePriority
    Nobody      \* pxMutexHolder = NULL

Tasks == Users \union Pollers
Mutexes == {Core, Heap}

ASSUME MutexAssumption ==
    /\ Core # Heap /\ Lone \subseteq Users
    /\ Users \intersect Pollers = {} /\ Pollers # {} /\ Nobody \notin Tasks
    /\ BasePrio \in [Tasks -> Nat]
    /\ \A t \in Lone, u \in Users : BasePrio[t] <= BasePrio[u]

VARIABLES
    prio,       \* uxPriority
    item,       \* the priority that xEventListItem is sorted by
    heldCount,  \* uxMutexesHeld
    holder,     \* pxMutexHolder
    count,      \* uxMessagesWaiting: 1 if the mutex is free
    waiting,    \* xTasksWaitingToReceive
    ready,      \* the ready lists
    cur,        \* pxCurrentTCB
    pc,         \* "run"; in the calls "try", "block", "wait"; "sleep" elsewhere
    want,       \* the mutex a task is taking
    own         \* history: the mutexes a task took and did not give

vars == <<prio, item, heldCount, holder, count, waiting, ready, cur, pc, want, own>>

Init ==
    /\ prio = BasePrio /\ item = BasePrio
    /\ heldCount = [t \in Tasks |-> 0]
    /\ holder = [m \in Mutexes |-> Nobody]
    /\ count = [m \in Mutexes |-> 1]
    /\ waiting = [m \in Mutexes |-> <<>>]
    /\ ready = Tasks
    /\ cur \in {t \in Tasks : \A u \in Tasks : BasePrio[u] <= BasePrio[t]}
    /\ pc = [t \in Tasks |-> "run"]
    /\ want = [t \in Tasks |-> Core]
    /\ own = [t \in Tasks |-> {}]

(* vTaskSwitchContext: a ready task of the highest priority.               *)
Highest(tasks, p) == {t \in tasks : \A u \in tasks : p[u] <= p[t]}
SwitchContext == cur' \in Highest(ready', prio')

-----------------------------------------------------------------------------
(* The running task calls sys_mutex_lock(m).                               *)
sys_mutex_lock(t, m) ==
    /\ cur = t /\ pc[t] = "run"
    /\ \/ own[t] = {} /\ (m = Core \/ t \in Lone)
       \/ own[t] = {Core} /\ m = Heap
    /\ pc' = [pc EXCEPT ![t] = "try"]
    /\ want' = [want EXCEPT ![t] = m]
    /\ UNCHANGED <<prio, item, heldCount, holder, count, waiting, ready, cur, own>>

(* xQueueSemaphoreTake, its critical section: the mutex is taken if it is  *)
(* free.                                                                   *)
TakeTry(t) ==
    LET m == want[t] IN
    /\ cur = t /\ pc[t] = "try"
    /\ IF count[m] > 0
       THEN /\ count' = [count EXCEPT ![m] = @ - 1]
            /\ holder' = [holder EXCEPT ![m] = t]
            /\ heldCount' = [heldCount EXCEPT ![t] = @ + 1]
            /\ own' = [own EXCEPT ![t] = @ \union {m}]
            /\ pc' = [pc EXCEPT ![t] = "run"]
       ELSE /\ pc' = [pc EXCEPT ![t] = "block"]
            /\ UNCHANGED <<count, holder, heldCount, own>>
    /\ UNCHANGED <<prio, item, waiting, ready, cur, want>>

(* xTaskPriorityInherit.                                                   *)
xTaskPriorityInherit(h, t) ==
    IF h # Nobody /\ prio[h] < prio[t]
    THEN prio' = [prio EXCEPT ![h] = prio[t]] /\ item' = [item EXCEPT ![h] = prio[t]]
    ELSE UNCHANGED <<prio, item>>

(* vListInsert into an event list: behind all of at least its priority.    *)
Queued(list, t) ==
    LET n == Cardinality({i \in DOMAIN list : \A j \in 1..i : item[list[j]] >= item[t]})
    IN  SubSeq(list, 1, n) \o <<t>> \o SubSeq(list, n + 1, Len(list))

(* The rest of a round, with the scheduler suspended.  A mutex given since *)
(* is tried again.  (Fault variant: that is not tested again.)             *)
StillTakenAlways(m) == TRUE
StillTaken(m) == count[m] = 0
TakeBlock(t) ==
    LET m == want[t] IN
    /\ cur = t /\ pc[t] = "block"
    /\ IF StillTaken(m)
       THEN /\ xTaskPriorityInherit(holder[m], t)
            /\ waiting' = [waiting EXCEPT ![m] = Queued(@, t)]
            /\ ready' = ready \ {t}
            /\ pc' = [pc EXCEPT ![t] = "wait"]
            /\ SwitchContext
       ELSE /\ pc' = [pc EXCEPT ![t] = "try"]
            /\ UNCHANGED <<prio, item, waiting, ready, cur>>
    /\ UNCHANGED <<heldCount, holder, count, want, own>>

-----------------------------------------------------------------------------
(* xTaskPriorityDisinherit: only with the last mutex.                      *)
(* (Fault variant: with any.)                                              *)
DisinheritsAtOnce(t) == prio[t] # BasePrio[t]
Disinherits(t) == prio[t] # BasePrio[t] /\ heldCount[t] = 1

(* xQueueGenericSend yields to a task of higher priority that it wakes, or *)
(* when the priority was given back.                                       *)
Yields(t, woken) ==
    IF woken # {} THEN \E w \in woken : prio'[w] > prio'[t] ELSE Disinherits(t)

(* What a woken task does: it tries again, nothing was handed to it.       *)
(* (Fault variant: it takes the mutex for its own.)                        *)
WokenHas(w, m) == {m}
WokenOwns(w, m) == {}

(* xTaskRemoveFromEventList takes the first.                               *)
Unqueued(list) == Tail(list)

(* sys_mutex_unlock(m) by the task that holds it: prvCopyDataToQueue, then *)
(* the first task that waits is made ready.                                *)
sys_mutex_unlock(t, m) ==
    LET woken == IF waiting[m] = <<>> THEN {} ELSE {Head(waiting[m])}
        owned == [own EXCEPT ![t] = @ \ {m}]
    IN
    /\ cur = t /\ pc[t] = "run"
    /\ m \in own[t] /\ (m = Core => own[t] = {Core})
    /\ heldCount' = [heldCount EXCEPT ![t] = @ - 1]
    /\ IF Disinherits(t)
       THEN prio' = [prio EXCEPT ![t] = BasePrio[t]] /\ item' = [item EXCEPT ![t] = BasePrio[t]]
       ELSE UNCHANGED <<prio, item>>
    /\ holder' = [holder EXCEPT ![m] = Nobody]
    /\ count' = [count EXCEPT ![m] = 1]
    /\ waiting' = [waiting EXCEPT ![m] = IF woken = {} THEN @ ELSE Unqueued(@)]
    /\ ready' = ready \union woken
    /\ pc' = [u \in Tasks |-> IF u \in woken
                              THEN IF WokenOwns(u, m) = {} THEN "try" ELSE "run"
                              ELSE pc[u]]
    /\ own' = [u \in Tasks |-> owned[u] \union (IF u \in woken THEN WokenOwns(u, m) ELSE {})]
    /\ IF Yields(t, woken) THEN SwitchContext ELSE UNCHANGED cur
    /\ UNCHANGED want

-----------------------------------------------------------------------------
(* A task that holds nothing blocks elsewhere (a mailbox, a semaphore, a   *)
(* delay), and is woken by an interrupt or another task.                   *)
Sleep(t) ==
    /\ cur = t /\ pc[t] = "run" /\ own[t] = {} /\ t \in Users
    /\ pc' = [pc EXCEPT ![t] = "sleep"]
    /\ ready' = ready \ {t}
    /\ UNCHANGED <<prio, item, heldCount, holder, count, waiting, want, own>>
    /\ SwitchContext
WakeUp(t) ==
    /\ pc[t] = "sleep"
    /\ pc' = [pc EXCEPT ![t] = "run"]
    /\ ready' = ready \union {t}
    /\ UNCHANGED <<prio, item, heldCount, holder, count, waiting, want, own>>
    /\ IF prio[t] > prio[cur] THEN SwitchContext ELSE UNCHANGED cur

(* The tick interrupt ends a time slice.                                   *)
Slice(t) ==
    /\ t \in Highest(ready, prio)
    /\ cur' = t
    /\ UNCHANGED <<prio, item, heldCount, holder, count, waiting, ready, pc, want, own>>

Next ==
    \/ \E t \in Users, m \in Mutexes : sys_mutex_lock(t, m) \/ sys_mutex_unlock(t, m)
    \/ \E t \in Users : TakeTry(t) \/ TakeBlock(t) \/ Sleep(t) \/ WakeUp(t)
    \/ \E t \in Tasks : Slice(t)

Spec == Init /\ [][Next]_vars

(* Equals share the processor, a running task gets on, and no task stays   *)
(* in a critical section for ever.                                         *)
Takes(t) == TakeTry(t) \/ TakeBlock(t)
Gives(t) == \E m \in Mutexes : sys_mutex_unlock(t, m)
FairSpec ==
    /\ Spec
    /\ \A t \in Users : /\ SF_vars(Slice(t))
                        /\ SF_vars(Takes(t) \/ Gives(t))
                        /\ SF_vars(sys_mutex_unlock(t, Core))

-----------------------------------------------------------------------------
(* Type invariant.                                                         *)
TypeOK ==
    /\ prio \in [Tasks -> Nat] /\ item \in [Tasks -> Nat]
    /\ heldCount \in [Tasks -> 0..2]
    /\ holder \in [Mutexes -> Tasks \union {Nobody}]
    /\ count \in [Mutexes -> {0, 1}]
    /\ waiting \in [Mutexes -> Seq(Users)]
    /\ \A m \in Mutexes : IsInjective(waiting[m])
    /\ ready \subseteq Tasks /\ cur \in ready
    /\ pc \in [Tasks -> {"run", "try", "block", "wait", "sleep"}]
    /\ want \in [Tasks -> Mutexes]
    /\ own \in [Tasks -> SUBSET Mutexes]

(* Mutual exclusion, although a mutex is not handed to the task that is    *)
(* woken for it and others may take it first: what a task took and did not *)
(* give is recorded as its own, and is nobody else's.                      *)
MutualExclusion ==
    \A t \in Tasks : \A m \in own[t] :
        /\ holder[m] = t /\ count[m] = 0
        /\ \A u \in Tasks \ {t} : m \notin own[u]

(* A priority that was lent goes back with the last mutex.                 *)
LentWhileHolding ==
    \A t \in Tasks : heldCount[t] = Cardinality(own[t])
                     /\ (own[t] = {} => prio[t] = BasePrio[t])

(* No holder is kept from running by tasks between it and one that waits:  *)
(* it has at least the priority of every task that waits for its mutex.    *)
(* (The base priority: what a waiting task inherits later is not passed    *)
(* on.)                                                                    *)
HolderOutranksWaiters ==
    \A m \in Mutexes : \A i \in DOMAIN waiting[m] :
        holder[m] # Nobody => prio[holder[m]] >= BasePrio[waiting[m][i]]

(* No wake-up is lost between the test of a mutex and the wait for it: a   *)
(* mutex that is free while tasks wait for it is about to be tried.        *)
NoLostWakeUp ==
    \A m \in Mutexes : waiting[m] # <<>> /\ count[m] = 1 =>
        \E t \in ready : pc[t] \in {"try", "block"} /\ want[t] = m

(* The running task has the highest priority of all that are ready, after  *)
(* every loan and return of a priority.                                    *)
HighestRuns == \A t \in ready : prio[t] <= prio[cur]

(* A mutex is one task's, it is never free with all that want it asleep,   *)
(* and it leaves no trace on a task that has given it back.                *)
MutexConsistent == TypeOK /\ MutualExclusion /\ LentWhileHolding /\ NoLostWakeUp

(* No inversion: a task is kept waiting by its betters, or by the holder   *)
(* of a mutex it wants, and that one runs as if it were the waiting task.  *)
PrioritiesServe == HolderOutranksWaiters /\ HighestRuns

(* The task of the highest priority gets every mutex it asks for, although *)
(* others take and give it all the time.                                   *)
Urgent == {t \in Users : \A u \in Tasks \ {t} : BasePrio[u] < BasePrio[t]}
UrgentGetsMutex ==
    \A t \in Urgent : pc[t] \in {"try", "block", "wait"} ~> pc[t] = "run"
=============================================================================
