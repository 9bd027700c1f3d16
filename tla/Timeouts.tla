------------------------------ MODULE Timeouts ------------------------------
(***************************************************************************)
(* The timers of lwIP on this board: the list of timeouts.c, the wait of   *)
(* the lwIP thread in sys_timeouts_mbox_fetch, and an application thread   *)
(* of lower priority that starts the TCP timer by connecting.              *)
(*                                                                         *)
(* Time is the tick interrupt.  sys_now returns ticks, which timeouts.c    *)
(* takes for milliseconds; sys_arch_mbox_fetch divides what it is asked to *)
(* wait by portTICK_RATE_MS all the same.  All other numbers are in units  *)
(* of sys_now.  The u32_t now and timeouts_last_time are only ever         *)
(* subtracted from each other, so their difference is the state.           *)
(*                                                                         *)
(* On the single core, the application runs only while the lwIP thread is  *)
(* blocked; the tick may give the core back to the lwIP thread in the      *)
(* middle of sys_timeout, because only the handlers run under the core     *)
(* lock.  What two threads inside the list do to it is undefined, and so   *)
(* is everything after it here.                                            *)
(***************************************************************************)
EXTENDS Integers, Sequences, FiniteSets, FiniteSetsExt

CONSTANTS
    Cyclic,     \* lwip_cyclic_timers behind tcp_tmr, in order
    Interval,   \* interval_ms of each timer, of "tcp" too
    TickMs,     \* portTICK_RATE_MS
    Pool,       \* MEMP_NUM_SYS_TIMEOUT
    MaxBusy,    \* ticks that may go by in one round of the lwIP thread
    MaxMsgs     \* bound of the mailbox of the lwIP thread

Tcp == "tcp"
Timers == {Cyclic[i] : i \in DOMAIN Cyclic} \union {Tcp}

(* lwipopts.h has IP reassembly, ARP and DHCP, so that there are several   *)
(* cyclic timers; init.c:139 refuses a pool too small for all of them.     *)
ASSUME TimeoutsAssumption ==
    /\ Cyclic \in Seq(STRING)
    /\ \A i \in DOMAIN Cyclic : Cyclic[i] \notin {Tcp, "none"}
    /\ \A i, j \in DOMAIN Cyclic : Cyclic[i] = Cyclic[j] => i = j
    /\ 2 <= Len(Cyclic) /\ Len(Cyclic) + 1 <= Pool
    /\ Interval \in [Timers -> Nat \ {0}]
    /\ {TickMs, Pool, MaxMsgs} \subseteq Nat \ {0}
    /\ MaxBusy \in Nat

VARIABLES
    since,      \* sys_now() - timeouts_last_time
    list,       \* next_timeout: the timeouts, each with its time after the one before
    tcpActive,  \* tcpip_tcp_timer_active
    pcbs,       \* tcp_active_pcbs || tcp_tw_pcbs
    pc,         \* what the lwIP thread does next
    wait,       \* ticks it still waits in xQueueReceive
    diff,       \* diff of sys_check_timeouts
    handler,    \* the handler it calls next
    busy,       \* ticks in this round of the thread, not counting its sleep
    mbox,       \* messages in its mailbox
    app,        \* the application: "none", or holding the core lock, "locked"
                \* before sys_timeout and "inside" it
    age         \* history: ticks since each timer was started, up to its interval,
                \* with those the first of the list was overdue then

timeo  == <<since, list, tcpActive, age>>
thread == <<pc, wait, diff, handler, busy>>
vars   == <<timeo, thread, pcbs, mbox, app>>

Forever == -1
Capped(n, h) == IF n < Interval[h] THEN n ELSE Interval[h]

-----------------------------------------------------------------------------
(* When each timeout of a list is due, counted from timeouts_last_time.    *)
DueTimes(l) ==
    LET due[i \in 0..Len(l)] == IF i = 0 THEN 0 ELSE due[i - 1] + l[i].time
    IN  due
Due(l, i) == DueTimes(l)[i]

(* sys_timeout for a list that is not empty, d ticks after last.  A timeout *)
(* shorter than the first goes before it, and d is not taken off that one. *)
(* Otherwise it goes behind all that are due before it; at the end, one    *)
(* that is later than asked for is taken for a sign that d is too big.     *)
Entry(h, t) == [h |-> h, time |-> t]
Link(l, pos, new, off) ==
    LET next == Entry(l[pos + 1].h, l[pos + 1].time - off)
    IN  SubSeq(l, 1, pos) \o <<new, next>> \o SubSeq(l, pos + 2, Len(l))
Before(l, h, msecs, d) == Link(l, 0, Entry(h, msecs + d), msecs)
Behind(l, h, msecs, d) ==
    LET Rest(i) == msecs + d - Due(l, i)
        n   == Len(l)
        pos == Min({i \in 1..n : i = n \/ l[i + 1].time > Rest(i)})
    IN  IF pos = n
        THEN Append(l, Entry(h, IF Rest(n) > msecs THEN msecs + l[1].time ELSE Rest(n)))
        ELSE Link(l, pos, Entry(h, Rest(pos)), Rest(pos))

(* (Fault variants: the first timeout keeps its time although another one  *)
(* is put before it; the ticks since last are forgotten.)                  *)
InsertUnshifted(l, h, msecs, d) ==
    IF l = <<>> THEN <<Entry(h, msecs)>>
    ELSE IF l[1].time > msecs THEN <<Entry(h, msecs + d)>> \o l
    ELSE Behind(l, h, msecs, d)
InsertFromLast(l, h, msecs, d) ==
    IF l = <<>> THEN <<Entry(h, msecs)>>
    ELSE IF l[1].time > msecs THEN Before(l, h, msecs, 0)
    ELSE Behind(l, h, msecs, 0)
Insert(l, h, msecs, d) ==
    IF l = <<>> THEN <<Entry(h, msecs)>>
    ELSE IF l[1].time > msecs THEN Before(l, h, msecs, d)
    ELSE Behind(l, h, msecs, d)

(* By how many ticks the first timeout is overdue.                         *)
Overdue == IF list = <<>> \/ since < list[1].time THEN 0 ELSE since - list[1].time

(* sys_timeout: without memory nothing is started.                         *)
sys_timeout(h) ==
    IF Len(list) < Pool
    THEN /\ list' = Insert(list, h, Interval[h], since)
         /\ since' = IF list = <<>> THEN 0 ELSE since
         /\ age' = [age EXCEPT ![h] = Capped(Overdue, h)]
    ELSE UNCHANGED <<list, since, age>>

(* sys_timeouts_init starts the cyclic timers one after the other.         *)
Started ==
    LET started[i \in 0..Len(Cyclic)] ==
            IF i = 0 THEN <<>> ELSE Insert(started[i - 1], Cyclic[i], Interval[Cyclic[i]], 0)
    IN  started

Init ==
    /\ since = 0
    /\ list = Started[Len(Cyclic)]
    /\ tcpActive = FALSE /\ pcbs = FALSE
    /\ pc = "again" /\ wait = 0 /\ diff = 0 /\ handler = "none" /\ busy = 0
    /\ mbox = 0 /\ app = "none"
    /\ age = [h \in Timers |-> 0]

-----------------------------------------------------------------------------
(* The lwIP thread.                                                        *)

(* sys_timeouts_sleeptime.                                                 *)
sys_timeouts_sleeptime ==
    IF since > list[1].time THEN 0 ELSE list[1].time - since

(* sys_arch_mbox_fetch waits so many ticks.                                *)
(* (Fault variant: the time is taken for microseconds.)                    *)
TicksOfMicros(msecs) == msecs \div (1000 * TickMs)
Ticks(msecs) == msecs \div TickMs

(* sys_timeouts_mbox_fetch up to the wait.  A sleep time of 0 is no wait;  *)
(* sys_arch_mbox_fetch would take it for ever.                             *)
Fetch ==
    /\ pc = "again"
    /\ IF app = "inside" THEN pc' = "undefined" /\ UNCHANGED wait
       ELSE IF list = <<>> THEN pc' = "fetch" /\ wait' = Forever
       ELSE /\ pc' = IF sys_timeouts_sleeptime = 0 THEN "check" ELSE "fetch"
            /\ wait' = Ticks(sys_timeouts_sleeptime)
    /\ busy' = 0
    /\ UNCHANGED <<timeo, diff, handler, pcbs, mbox, app>>

(* xQueueReceive ends with a message, which is handled under the lock (a   *)
(* segment may close the last connection) ...                              *)
Message ==
    /\ pc = "fetch" /\ mbox > 0 /\ app = "none"
    /\ mbox' = mbox - 1
    /\ pcbs' \in {pcbs, FALSE}
    /\ pc' = "again"
    /\ UNCHANGED <<timeo, wait, diff, handler, busy, app>>

(* ... or without.                                                         *)
FetchTimeout ==
    /\ pc = "fetch" /\ mbox = 0 /\ wait = 0
    /\ pc' = "check"
    /\ UNCHANGED <<timeo, wait, diff, handler, busy, pcbs, mbox, app>>

(* sys_check_timeouts.  diff is taken once.                                *)
sys_check_timeouts ==
    /\ pc = "check"
    /\ IF list = <<>> THEN pc' = "again" /\ UNCHANGED diff
       ELSE pc' = "expire" /\ diff' = since
    /\ UNCHANGED <<timeo, wait, handler, busy, pcbs, mbox, app>>

(* One round of its loop: the first timeout is taken off if it is due.     *)
Expire ==
    /\ pc = "expire"
    /\ IF app = "inside"
       THEN pc' = "undefined" /\ UNCHANGED <<list, since, diff, handler>>
       ELSE IF list # <<>> /\ Head(list).time <= diff
       THEN /\ since' = since - Head(list).time
            /\ diff' = diff - Head(list).time
            /\ list' = Tail(list)
            /\ handler' = Head(list).h
            /\ pc' = "handler"
       ELSE pc' = "again" /\ UNCHANGED <<list, since, diff, handler>>
    /\ UNCHANGED <<tcpActive, age, wait, busy, pcbs, mbox, app>>

(* The handler, under the lock: cyclic_timer, or tcpip_tcp_timer, which    *)
(* goes on while there are connections (tcp_tmr may remove the last one).  *)
cyclic_timer ==
    /\ handler # Tcp
    /\ sys_timeout(handler)
    /\ UNCHANGED <<tcpActive, pcbs>>
(* (Fault variant: the flag stays set.)                                    *)
TcpTimerOffKept == tcpActive
TcpTimerOff == FALSE
tcpip_tcp_timer ==
    /\ handler = Tcp
    /\ \/ /\ pcbs
          /\ sys_timeout(Tcp)
          /\ UNCHANGED <<tcpActive, pcbs>>
       \/ /\ pcbs' = FALSE
          /\ tcpActive' = TcpTimerOff
          /\ UNCHANGED <<list, since, age>>
Handler ==
    /\ pc = "handler" /\ app = "none"
    /\ cyclic_timer \/ tcpip_tcp_timer
    /\ pc' = "expire" /\ handler' = "none"
    /\ UNCHANGED <<wait, diff, busy, mbox, app>>

LwipThread == Fetch \/ Message \/ FetchTimeout \/ sys_check_timeouts \/ Expire \/ Handler

-----------------------------------------------------------------------------
(* The lwIP thread waits: for a message, for the time, or for the lock.    *)
Sleeping == pc = "fetch" /\ mbox = 0 /\ wait # 0
Blocked ==
    \/ Sleeping
    \/ app # "none" /\ (pc = "handler" \/ (pc = "fetch" /\ mbox > 0))

(* An application thread: a call takes the core lock and registers a pcb;  *)
(* tcp_timer_needed enters sys_timeout if the TCP timer is off.            *)
AppLock ==
    /\ Blocked /\ app = "none"
    /\ app' = "locked" /\ pcbs' = TRUE
    /\ UNCHANGED <<timeo, thread, mbox>>

tcp_timer_needed ==
    /\ Blocked /\ app = "locked"
    /\ IF tcpActive THEN app' = "none" /\ UNCHANGED tcpActive
       ELSE app' = "inside" /\ tcpActive' = TRUE
    /\ UNCHANGED <<since, list, age, thread, pcbs, mbox>>

AppTimeout ==
    /\ Blocked /\ app = "inside"
    /\ sys_timeout(Tcp)
    /\ app' = "none"
    /\ UNCHANGED <<tcpActive, thread, pcbs, mbox>>

(* tcpip_inpkt, by the thread that polls the adapter; sys_mbox_trypost     *)
(* refuses the frame when the mailbox is full.                             *)
HasRoom == mbox < MaxMsgs
tcpip_inpkt ==
    /\ Blocked /\ HasRoom
    /\ mbox' = mbox + 1
    /\ UNCHANGED <<timeo, thread, pcbs, app>>

(* The tick interrupt.                                                     *)
Tick ==
    /\ pc # "undefined"
    /\ Sleeping \/ busy < MaxBusy
    /\ since' = since + 1
    /\ age' = [h \in Timers |-> Capped(age[h] + 1, h)]
    /\ wait' = IF Sleeping /\ wait > 0 THEN wait - 1 ELSE wait
    /\ busy' = IF Sleeping THEN busy ELSE busy + 1
    /\ UNCHANGED <<list, tcpActive, pc, diff, handler, pcbs, mbox, app>>

Undefined == pc = "undefined" /\ UNCHANGED vars

Next == \/ LwipThread \/ AppLock \/ tcp_timer_needed \/ AppTimeout
        \/ tcpip_inpkt \/ Tick \/ Undefined

Spec == Init /\ [][Next]_vars

(* The clock runs; the lwIP thread has the highest priority; a thread that *)
(* holds the lock goes on when the lwIP thread waits for it (the mutex     *)
(* lends it the priority).                                                 *)
FairSpec ==
    /\ Spec /\ WF_vars(Tick) /\ WF_vars(LwipThread)
    /\ WF_vars(tcp_timer_needed) /\ WF_vars(AppTimeout)

-----------------------------------------------------------------------------
(* Type invariant.                                                         *)
TypeOK ==
    /\ since \in Nat
    /\ list \in Seq([h : Timers, time : Nat]) /\ Len(list) <= Pool
    /\ tcpActive \in BOOLEAN /\ pcbs \in BOOLEAN
    /\ pc \in {"again", "fetch", "check", "expire", "handler", "undefined"}
    /\ wait \in Nat \union {Forever} /\ diff \in Nat
    /\ handler \in Timers \union {"none"}
    /\ busy \in 0..MaxBusy /\ mbox \in 0..MaxMsgs /\ app \in {"none", "locked", "inside"}
    /\ age \in [Timers -> Nat]

(* No handler is called before the interval it was started for is over,    *)
(* but for the ticks that the first timeout was overdue then, whatever was *)
(* started or expired in between and however late the thread came to look. *)
EarlyByLatenessOnly == pc = "handler" => age[handler] = Interval[handler]

(* No timer is ever lost or started twice: each cyclic one is in the list  *)
(* once or is the one being handled, the TCP timer exactly while its flag  *)
(* says so, and the flag is set whenever there are connections.            *)
Copies(h) == Cardinality({i \in DOMAIN list : list[i].h = h}) + (IF handler = h THEN 1 ELSE 0)
NoTimerLost ==
    pc # "undefined" =>
        /\ \A h \in Timers \ {Tcp} : Copies(h) = 1
        /\ Copies(Tcp) = IF tcpActive /\ app # "inside" THEN 1 ELSE 0
        /\ pcbs /\ app # "locked" => tcpActive

(* The list of timeouts, the flag of the TCP timer and the connections     *)
(* agree, over starts by two threads and expiries.                         *)
TimersConsistent == TypeOK /\ NoTimerLost

(* Starting a timer brings no other one forward, and postpones it at most  *)
(* by the time since the list was last looked at.                          *)
DueOf(l, h) == Due(l, CHOOSE i \in DOMAIN l : l[i].h = h)
OthersKeepTime ==
    [][AppTimeout => \A i \in DOMAIN list :
          LET old == Due(list, i)  new == DueOf(list', list[i].h)
          IN  old <= new /\ new <= old + since]_vars

(* Every cyclic timer runs again and again, although each connection may   *)
(* postpone it and messages keep coming.                                   *)
TimersKeepRunning ==
    \A h \in Timers \ {Tcp} : []<>(handler = h \/ pc = "undefined")

(* Timers are started while others are pending, overdue or due, and        *)
(* neither one start nor many of them take the others' time.               *)
StartingHarmsNone == OthersKeepTime /\ TimersKeepRunning

(* The lwIP thread polls without blocking when the next timer is less than *)
(* TickMs away; yet it blocks again and again, so the threads below it run. *)
OthersRun == []<>(Blocked \/ pc = "undefined")

-----------------------------------------------------------------------------
(* opt.h:178 "Creates a global mutex that is held during TCPIP thread      *)
(* operations": the list of an application thread that holds the mutex is  *)
(* not touched by the lwIP thread.                                         *)
ListUnderLock == pc # "undefined"
=============================================================================
