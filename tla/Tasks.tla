------------------------------- MODULE Tasks -------------------------------
(***************************************************************************)
(* The FreeRTOS tasks of the board (main.c), the start-up of the network   *)
(* (networkInit.c), and the part of the kernel and of lwIP they rely on:   *)
(* priorities with time slicing, suspension, delays, the wake-up of the    *)
(* lwIP thread.  An operation of a task is one step; the tick interrupt    *)
(* and every call of the kernel decide who takes the next step.            *)
(*                                                                         *)
(* What dhcpListener does with a datagram is the matter of DhcpServer: here *)
(* it returns 2 or it does not.  The timer service task blocks for ever    *)
(* right at the start and is left out.                                     *)
(***************************************************************************)
EXTENDS Integers, Sequences

CONSTANTS
    MaxFrames,   \* bound of the mailbox of the lwIP thread (TCPIP_MBOX_SIZE)
    MaxRx,       \* bound of the mailbox of the DHCP socket
    DelayTicks   \* the 500 ticks of httpPostTask

ASSUME BoundsAssumption == {MaxFrames, MaxRx, DelayTicks} \subseteq Nat \ {0}

Tasks == {"init", "tcpip", "xemac", "dhcp", "http", "link", "idle"}
End   == "xListEnd"   \* the marker of a List_t

(* The priorities that main, tcpip_init and xemac_add create the tasks with. *)
(* (Fault variants: the HTTP task at idle priority, the start-up task or   *)
(* the lwIP thread at the priority of the applications.)                   *)
PrioHttpLow(t)  == CASE t \in {"init", "tcpip"} -> 2
                     [] t \in {"xemac", "dhcp"} -> 1
                     [] OTHER -> 0
PrioInitLow(t)  == CASE t = "tcpip" -> 2
                     [] t \in {"init", "xemac", "dhcp", "http"} -> 1
                     [] OTHER -> 0
PrioTcpipLow(t) == CASE t = "init" -> 2
                     [] t \in {"tcpip", "xemac", "dhcp", "http"} -> 1
                     [] OTHER -> 0
Prio(t) == CASE t \in {"init", "tcpip"} -> 2
             [] t \in {"xemac", "dhcp", "http"} -> 1
             [] OTHER -> 0

VARIABLES
    ready,    \* pxReadyTasksLists: per priority, the ring from the item after
              \* pxIndex round to the item pxIndex points to
    cur,      \* pxCurrentTCB
    state,    \* the list a task is in: "none" before it is created
    pc,       \* what each task executes next
    ran,      \* cur took a step since it was switched in
    delay,    \* ticks until the HTTP task is woken
    frames,   \* number of messages in the mailbox of the lwIP thread
    rx,       \* number of datagrams in the mailbox of the DHCP socket
    sock,     \* the int sock that dhcpServer.c and httpApplication.c share
    bound,    \* the DHCP socket exists and is bound to its port
    tcpipUp,  \* tcpip_init_done_signal
    netUp     \* server_netif was added and configured

kernel == <<ready, cur, state, ran, delay>>
net    == <<frames, rx, sock, bound, tcpipUp, netUp>>
vars   == <<kernel, pc, net>>

-----------------------------------------------------------------------------
(* list.c.  vListInsertEnd puts the item before the one pxIndex points to; *)
(* a removed item that pxIndex points to leaves it on the previous one;    *)
(* listGET_OWNER_OF_NEXT_ENTRY advances pxIndex past the end marker.       *)
Current(ring) == ring[Len(ring)]
Rotate(ring)  == Append(Tail(ring), Head(ring))

Insert(ring, t) == SubSeq(ring, 1, Len(ring) - 1) \o <<t, Current(ring)>>
Remove(ring, t) ==
    LET i == CHOOSE i \in DOMAIN ring : ring[i] = t
    IN  SubSeq(ring, 1, i - 1) \o SubSeq(ring, i + 1, Len(ring))

(* (Fault variant: the ring never turns.)                                  *)
AdvanceNever(ring) == IF Current(ring) = End THEN Rotate(ring) ELSE ring
Advance(ring) ==
    LET next == Rotate(ring) IN IF Current(next) = End THEN Rotate(next) ELSE next

Occupied(lists) == {p \in DOMAIN lists : Len(lists[p]) > 1}
Top(lists) == CHOOSE p \in Occupied(lists) : \A q \in Occupied(lists) : q <= p

(* vTaskSwitchContext.                                                     *)
SwitchContext(lists) ==
    LET top == Top(lists) IN
    /\ ready' = [lists EXCEPT ![top] = Advance(@)]
    /\ cur' = Current(Advance(lists[top]))
    /\ ran' = FALSE

(* A kernel call that does not yield.                                      *)
Continue(lists) == ready' = lists /\ ran' = TRUE /\ UNCHANGED cur

(* prvAddTaskToReadyList, and its converse for the running task.           *)
AddTask(lists, t) == [lists EXCEPT ![Prio(t)] = Insert(@, t)]
Readied(t) == AddTask(ready, t)
Without(t) == [ready EXCEPT ![Prio(t)] = Remove(@, t)]

(* The running task t leaves the ready list for another one.  (Fault       *)
(* variant: it is not removed from the ready list.)                        *)
LeaveLinked(t, where) ==
    state' = [state EXCEPT ![t] = where] /\ SwitchContext(ready)
Leave(t, where) ==
    state' = [state EXCEPT ![t] = where] /\ SwitchContext(Without(t))

(* Task t is woken from a queue or a semaphore, or is new: the caller yields *)
(* to a higher priority.                                                   *)
Wake(t) ==
    /\ state' = [state EXCEPT ![t] = "ready"]
    /\ IF Prio(t) > Prio(cur) THEN SwitchContext(Readied(t)) ELSE Continue(Readied(t))

Stay == UNCHANGED state /\ Continue(ready)

At(t, label) == cur = t /\ pc[t] = label
Goto(t, label) == pc' = [pc EXCEPT ![t] = label]

-----------------------------------------------------------------------------
(* main creates four tasks and the scheduler the idle task, in this order; *)
(* then a task of the highest priority is switched in.                     *)
EmptyLists == [p \in 0..2 |-> <<End>>]
Applications == AddTask(AddTask(AddTask(EmptyLists, "xemac"), "dhcp"), "http")
CreatedLists == AddTask(AddTask(Applications, "init"), "idle")

Init ==
    /\ ready = [CreatedLists EXCEPT ![Top(CreatedLists)] = Advance(@)]
    /\ cur = Current(ready[Top(CreatedLists)])
    /\ state = [t \in Tasks |-> IF t \in {"tcpip", "link"} THEN "none" ELSE "ready"]
    /\ pc = [t \in Tasks |-> CASE t = "init" -> "lwip"
                               [] t = "http" -> "first"
                               [] t \in {"dhcp", "tcpip"} -> "start"
                               [] OTHER -> "run"]
    /\ ran = FALSE /\ delay = 0
    /\ frames = 0 /\ rx = 0 /\ sock = "none" /\ bound = FALSE
    /\ tcpipUp = FALSE /\ netUp = FALSE

(* initTask.  lwip_init creates the lwIP thread ...                        *)
InitLwip ==
    /\ At("init", "lwip")
    /\ Wake("tcpip")
    /\ Goto("init", "wait")
    /\ UNCHANGED <<delay, net>>

(* ... and spins until that thread has run.                                *)
InitWait ==
    /\ At("init", "wait")
    /\ IF tcpipUp THEN Goto("init", "add") ELSE UNCHANGED pc
    /\ Stay
    /\ UNCHANGED <<delay, net>>

(* xemac_add creates the link thread, then adds the interface.  When that  *)
(* fails initTask returns, which a FreeRTOS task must not do: its return   *)
(* address is 0, and nothing is said of the board after it.                *)
InitAdd ==
    /\ At("init", "add")
    /\ Wake("link")
    /\ \E ok \in BOOLEAN : Goto("init", IF ok THEN "config" ELSE "returned")
    /\ UNCHANGED <<delay, net>>

InitConfig ==
    /\ At("init", "config")
    /\ netUp' = TRUE
    /\ Goto("init", "delete")
    /\ Stay
    /\ UNCHANGED <<delay, frames, rx, sock, bound, tcpipUp>>

InitDelete ==
    /\ At("init", "delete")
    /\ Leave("init", "deleted")
    /\ UNCHANGED <<pc, delay, net>>

initTask == InitLwip \/ InitWait \/ InitAdd \/ InitConfig \/ InitDelete

-----------------------------------------------------------------------------
(* tcpip_thread.                                                           *)
TcpipStart ==
    /\ At("tcpip", "start")
    /\ tcpipUp' = TRUE
    /\ Goto("tcpip", "fetch")
    /\ Stay
    /\ UNCHANGED <<delay, frames, rx, sock, bound, netUp>>

(* What the thread does while it processes a frame or a timeout: it may    *)
(* wake the HTTP task, which waits for its connection.                     *)
SignalHttp == IF state["http"] = "blocked" THEN Wake("http") \/ Stay ELSE Stay

(* A frame for UDP port 67 goes to the DHCP socket while that is bound and *)
(* has room; other frames may be what the HTTP connection waits for.       *)
TcpipFrame ==
    /\ At("tcpip", "fetch")
    /\ frames > 0
    /\ frames' = frames - 1
    /\ \/ /\ rx' = IF bound /\ rx < MaxRx THEN rx + 1 ELSE rx
          /\ Stay
       \/ /\ UNCHANGED rx
          /\ SignalHttp
    /\ UNCHANGED <<pc, delay, sock, bound, tcpipUp, netUp>>

(* Nothing in the mailbox: wait for a message or for the next timeout.     *)
TcpipBlock ==
    /\ At("tcpip", "fetch")
    /\ frames = 0
    /\ Leave("tcpip", "blocked")
    /\ Goto("tcpip", "woken")
    /\ UNCHANGED <<delay, net>>

(* Woken by a message or by a timeout, which is handled first.             *)
TcpipWoken ==
    /\ At("tcpip", "woken")
    /\ SignalHttp
    /\ Goto("tcpip", "fetch")
    /\ UNCHANGED <<delay, net>>

tcpip_thread == TcpipStart \/ TcpipFrame \/ TcpipBlock \/ TcpipWoken

-----------------------------------------------------------------------------
(* xemacInputTask polls the interface without ever blocking.  A frame is   *)
(* posted to the lwIP thread, or dropped when its mailbox is full.         *)
PollFrame ==
    /\ At("xemac", "run")
    /\ frames < MaxFrames
    /\ frames' = frames + 1
    /\ IF state["tcpip"] = "blocked" THEN Wake("tcpip") ELSE Stay
    /\ UNCHANGED <<pc, delay, rx, sock, bound, tcpipUp, netUp>>

PollNothing ==
    /\ At("xemac", "run")
    /\ Stay
    /\ UNCHANGED <<pc, delay, net>>

xemacInputTask == PollFrame \/ PollNothing

-----------------------------------------------------------------------------
(* dhcpTask.                                                               *)
DhcpStart ==
    /\ At("dhcp", "start")
    /\ \/ sock' = "udp" /\ bound' \in BOOLEAN
       \/ sock' = "none" /\ UNCHANGED bound
    /\ Goto("dhcp", "listen")
    /\ Stay
    /\ UNCHANGED <<delay, frames, rx, tcpipUp, netUp>>

DhcpPoll ==
    /\ At("dhcp", "listen")
    /\ rx = 0
    /\ Stay
    /\ UNCHANGED <<pc, delay, net>>

(* dhcpListener handles a datagram; it returns 2 for a DHCPREQUEST.        *)
DhcpDatagram ==
    /\ At("dhcp", "listen")
    /\ rx > 0
    /\ rx' = rx - 1
    /\ \E two \in BOOLEAN : Goto("dhcp", IF two THEN "close" ELSE "listen")
    /\ Stay
    /\ UNCHANGED <<delay, frames, sock, bound, tcpipUp, netUp>>

(* closeApplication; its result is ignored.                                *)
DhcpClose ==
    /\ At("dhcp", "close")
    /\ \/ sock' = "closed" /\ bound' = FALSE /\ rx' = 0
       \/ UNCHANGED <<sock, bound, rx>>
    /\ Goto("dhcp", "resume")
    /\ Stay
    /\ UNCHANGED <<delay, frames, tcpipUp, netUp>>

(* vTaskResume: nothing happens unless the task is suspended; a resumed    *)
(* task of the caller's priority makes it yield.                           *)
(* (Fault variant: the call is missing.)                                   *)
resumeNothing(t) == Stay
vTaskResume(t) ==
    IF state[t] = "suspended"
    THEN /\ state' = [state EXCEPT ![t] = "ready"]
         /\ IF Prio(t) >= Prio(cur) THEN SwitchContext(Readied(t)) ELSE Continue(Readied(t))
    ELSE Stay

DhcpResume ==
    /\ At("dhcp", "resume")
    /\ vTaskResume("http")
    /\ Goto("dhcp", "suspend")
    /\ UNCHANGED <<delay, net>>

(* (Fault variant: the task does not suspend itself.)                      *)
DhcpListenAgain ==
    /\ At("dhcp", "suspend")
    /\ Goto("dhcp", "listen")
    /\ Stay
    /\ UNCHANGED <<delay, net>>
DhcpSuspend ==
    /\ At("dhcp", "suspend")
    /\ Leave("dhcp", "suspended")
    /\ UNCHANGED <<pc, delay, net>>

dhcpTask == DhcpStart \/ DhcpPoll \/ DhcpDatagram \/ DhcpClose \/ DhcpResume \/ DhcpSuspend

-----------------------------------------------------------------------------
(* httpPostTask suspends itself first.                                     *)
HttpSuspend ==
    /\ At("http", "first")
    /\ Leave("http", "suspended")
    /\ Goto("http", "post")
    /\ UNCHANGED <<delay, net>>

(* httpApplicationPost: no socket, a socket that connect refuses at once   *)
(* (it stays open), or one that connect blocks on.                         *)
HttpPost ==
    /\ At("http", "post")
    /\ \/ sock' \in {"none", "tcp"} /\ Goto("http", "delay") /\ Stay
       \/ sock' = "tcp" /\ Goto("http", "wait") /\ Leave("http", "blocked")
    /\ UNCHANGED <<delay, frames, rx, bound, tcpipUp, netUp>>

(* Woken: the next call blocks too, connect failed (the socket stays), or  *)
(* the response is complete and the socket is closed.                      *)
HttpWoken ==
    /\ At("http", "wait")
    /\ \/ Leave("http", "blocked") /\ UNCHANGED <<pc, sock>>
       \/ Stay /\ Goto("http", "delay") /\ sock' \in {sock, "closed"}
    /\ UNCHANGED <<delay, frames, rx, bound, tcpipUp, netUp>>

HttpDelay ==
    /\ At("http", "delay")
    /\ Leave("http", "delayed")
    /\ delay' = DelayTicks
    /\ Goto("http", "post")
    /\ UNCHANGED net

httpPostTask == HttpSuspend \/ HttpPost \/ HttpWoken \/ HttpDelay

-----------------------------------------------------------------------------
(* The tick interrupt: a timeout of the lwIP thread may have come, the     *)
(* delay of the HTTP task shortens, and tasks of the running priority take *)
(* turns.  A slice is long enough for one step of the task.                *)
Woken(lists, woken) ==
    LET timedOut == IF "tcpip" \in woken THEN AddTask(lists, "tcpip") ELSE lists
    IN  IF "http" \in woken THEN AddTask(timedOut, "http") ELSE timedOut

xTaskIncrementTick ==
    /\ ran
    /\ pc["init"] # "returned"
    /\ \E timeout \in BOOLEAN :
         LET woken == (IF timeout /\ state["tcpip"] = "blocked" THEN {"tcpip"} ELSE {})
                      \union (IF delay = 1 THEN {"http"} ELSE {})
             lists == Woken(ready, woken)
         IN  /\ state' = [t \in Tasks |-> IF t \in woken THEN "ready" ELSE state[t]]
             /\ IF \/ \E t \in woken : Prio(t) >= Prio(cur)
                   \/ Len(lists[Prio(cur)]) > 2
                THEN SwitchContext(lists) ELSE Continue(lists)
    /\ delay' = IF delay > 0 THEN delay - 1 ELSE 0
    /\ UNCHANGED <<pc, net>>

(* Beyond the model.                                                       *)
Returned == pc["init"] = "returned" /\ UNCHANGED vars

(* The link and the idle task have no action: no behaviour ever runs them. *)
Step == initTask \/ tcpip_thread \/ xemacInputTask \/ dhcpTask \/ httpPostTask
Next == Step \/ xTaskIncrementTick \/ Returned

(* The processor executes instructions, and the tick timer keeps firing:   *)
(* strongly fair, for ran only excludes a slice in which nothing happens.  *)
Spec == Init /\ [][Next]_vars /\ WF_vars(Step) /\ SF_vars(xTaskIncrementTick)

-----------------------------------------------------------------------------
(* Type invariant; pxCurrentTCB is a task and not the end marker.          *)
TypeOK ==
    /\ ready \in [0..2 -> Seq(Tasks \union {End})]
    /\ cur \in Tasks
    /\ state \in [Tasks -> {"none", "ready", "blocked", "delayed", "suspended", "deleted"}]
    /\ pc \in [Tasks -> {"lwip", "wait", "add", "config", "delete", "returned", "start",
                         "fetch", "woken", "run", "listen", "close", "resume", "suspend",
                         "first", "post", "delay"}]
    /\ ran \in BOOLEAN
    /\ delay \in 0..DelayTicks
    /\ frames \in 0..MaxFrames /\ rx \in 0..MaxRx
    /\ sock \in {"none", "udp", "tcp", "closed"}
    /\ {bound, tcpipUp, netUp} \subseteq BOOLEAN

(* The ready lists hold exactly the ready tasks, each once, at its own     *)
(* priority, with one end marker per list.                                 *)
ListsMatchStates ==
    \A p \in 0..2, t \in Tasks \union {End} :
        LET places == {i \in DOMAIN ready[p] : ready[p][i] = t} IN
        IF t = End \/ (state[t] = "ready" /\ Prio(t) = p)
        THEN \E i \in places : places = {i} ELSE places = {}

(* Strict priorities: after every kernel call and tick the running task is *)
(* ready, and no ready task has a higher priority.                         *)
HighestRuns ==
    /\ state[cur] = "ready"
    /\ \A t \in Tasks : state[t] = "ready" => Prio(t) <= Prio(cur)

(* No application task runs before networkInit has finished, although main *)
(* creates them first: xemacif_input would follow the state pointer of an  *)
(* interface nobody added, dhcpTask would open a socket without lwIP.      *)
NetworkUpBeforeUse == cur \in {"xemac", "dhcp", "http"} => netUp

(* The mailbox of the lwIP thread is empty whenever the receive task runs: *)
(* tcpip_inpkt never has to drop a frame for want of room.                 *)
FramesTakenAtOnce == cur = "xemac" => frames = 0

(* The kernel keeps its lists and its priorities through every suspension, *)
(* wake-up, delay and tick, as far as the lwIP thread relies on them.      *)
KernelConsistent == TypeOK /\ ListsMatchStates /\ HighestRuns /\ FramesTakenAtOnce

(* vTaskResume(httpPostHandler) finds the HTTP task suspended: it has run  *)
(* up to its vTaskSuspend before a lease can be given.  A resume that came *)
(* first would be lost and the task would sleep for ever.                  *)
ResumeFindsSuspended == pc["dhcp"] = "resume" => state["http"] = "suspended"

(* sock is one variable for both applications: while dhcpTask still uses   *)
(* it, it never holds the TCP socket of the HTTP client.                   *)
SockIsDhcps ==
    pc["dhcp"] \in {"start", "listen", "close"} => sock \in {"none", "udp"}

(* lwip_init spins at the priority of the thread it waits for; time        *)
(* slicing lets that thread run, and the network comes up.                 *)
NetworkComesUp == <>(netUp \/ pc["init"] = "returned")

(* Time slicing: a ready task of priority 1 gets to run, although xemac    *)
(* and dhcp never block while they poll.                                   *)
ReadyTaskRuns ==
    \A t \in {"xemac", "dhcp", "http"} :
        state[t] = "ready" ~> (cur = t \/ pc["init"] = "returned")

(* After the lease the HTTP task posts, and it posts again after every     *)
(* attempt that ended (httpPostTask 76-80), whatever else is ready.        *)
HandoffRunsHttp ==
    (pc["dhcp"] = "close" \/ pc["http"] = "delay") ~> (cur = "http" /\ pc["http"] = "post")
=============================================================================
