----------------------------- MODULE PerfClient -----------------------------
(***************************************************************************)
(* The TCP performance client of test/: main_thread and network_thread of  *)
(* main.c, which meet through a flag, a suspended task and the addresses   *)
(* of server_netif, and the session of freertos_tcp_perf_client.c.         *)
(*                                                                         *)
(* The threads have the priority of the lwIP thread, so they interleave    *)
(* freely.  network_thread calls the timers of the DHCP client without the *)
(* core lock; the lwIP thread handles the answers of a server with it.     *)
(* When these bind or remove an address is left open.                      *)
(***************************************************************************)
EXTENDS Integers, Sequences

CONSTANTS
    DhcpRounds,     \* 10000 / DHCP_FINE_TIMER_MSECS
    Second,         \* ticks of a second
    REPORT_INTERVAL_TIME, END_TIME,     \* in ticks
    Burst,          \* bound on the sends within a tick
    MaxTime,        \* bound on the ticks of a session
    MaxChanges      \* bound on the calls of netif_set_addr

ASSUME PerfAssumption ==
    /\ DhcpRounds \in Nat \ {0} /\ Second \in Nat \ {0} /\ Burst \in Nat \ {0}
    /\ REPORT_INTERVAL_TIME \in Nat \ {0} /\ END_TIME \in Nat \ {0}
    /\ MaxTime \in Nat /\ MaxTime >= END_TIME /\ MaxChanges \in Nat

Fields == {"ip", "mask", "gw"}
Origins == {"none", "lease", "default"}
Stacks == {"nw", "tcpip"}       \* the threads that call netif_set_addr

VARIABLES
    main,       \* where main_thread is
    nw,         \* where network_thread is
    complete_nw_thread,
    netif,      \* where each address of server_netif comes from
    stores,     \* what is left of a call of netif_set_addr, per thread
    mscnt,      \* of main_thread, in rounds
    conn,       \* the TCP connection: "none", "syn", "up", "dead"
    local,      \* pcb->local_ip
    sock,       \* "none", "open", "closed"
    now,        \* sys_now()
    client,     \* the statistics
    sent,       \* sends in this tick
    changes,    \* calls of netif_set_addr
    printed,    \* history: what the interim reports showed
    overlap,    \* history: two threads were storing addresses
    unlocked    \* history: tcp_connect ran inside network_thread's netif_set_addr

vars == <<main, nw, complete_nw_thread, netif, stores, mscnt, conn, local, sock, now,
          client, sent, changes, printed, overlap, unlocked>>
threads == <<main, nw, complete_nw_thread, mscnt>>
session == <<sock, now, client, sent, printed>>
address == <<netif, stores, changes, overlap>>

NoStats == [start |-> 0, total |-> 0, iStart |-> 0, iTotal |-> 0, last |-> 0]

Init ==
    /\ main = "create" /\ nw = "none" /\ complete_nw_thread = FALSE
    /\ netif = [f \in Fields |-> "none"] /\ stores = [t \in Stacks |-> <<>>]
    /\ mscnt = 0 /\ conn = "none" /\ local = "none" /\ sock = "none"
    /\ now = 0 /\ client = NoStats /\ sent = 0 /\ changes = 0
    /\ printed = [bytes |-> 0, time |-> 0]
    /\ overlap = FALSE /\ unlocked = FALSE

-----------------------------------------------------------------------------
(* main_thread: creates network_thread and waits for it.                   *)
MainStart ==
    /\ \/ main = "create" /\ main' = "test" /\ nw' = "add"
       \/ /\ main = "test" /\ UNCHANGED nw
          /\ main' = IF complete_nw_thread THEN "poll" ELSE "suspend"
       \/ main = "suspend" /\ main' = "suspended" /\ UNCHANGED nw
    /\ UNCHANGED <<complete_nw_thread, mscnt, conn, local, unlocked, session, address>>

(* network_thread: adds the interface, sets the flag, resumes main_thread. *)
(* (Fault variant: resumes it first.)                                      *)
FlagAndResumeSwapped ==
    \/ /\ nw = "flag" /\ nw' = "resume" /\ UNCHANGED complete_nw_thread
       /\ main' = IF main = "suspended" THEN "poll" ELSE main
    \/ /\ nw = "resume" /\ nw' = "dhcp" /\ complete_nw_thread' = TRUE
       /\ UNCHANGED main
FlagAndResume ==
    \/ /\ nw = "flag" /\ nw' = "resume" /\ complete_nw_thread' = TRUE
       /\ UNCHANGED main
    \/ /\ nw = "resume" /\ nw' = "dhcp" /\ UNCHANGED complete_nw_thread
       /\ main' = IF main = "suspended" THEN "poll" ELSE main
NetworkStart ==
    /\ \/ nw = "add" /\ nw' \in {"flag", "returned"} /\ UNCHANGED <<main, complete_nw_thread>>
       \/ FlagAndResume
    /\ UNCHANGED <<mscnt, conn, local, unlocked, session, address>>

(* main_thread: a round of the wait for a lease, DHCP_FINE_TIMER_MSECS     *)
(* (a tick of the model).                                                  *)
TimedOut(n) == n >= DhcpRounds
WaitForLease ==
    /\ main = "poll"
    /\ now' = now + 1
    /\ mscnt' = IF netif["ip"] # "none" THEN mscnt ELSE mscnt + 1
    /\ main' = CASE netif["ip"] # "none" -> "open"
                 [] TimedOut(mscnt') -> "ip"
                 [] OTHER -> "poll"
    /\ overlap' = (overlap \/ (main' = "ip" /\ \E t \in Stacks : stores[t] # <<>>))
    /\ UNCHANGED <<nw, complete_nw_thread, conn, local, unlocked, sock, client, sent,
                   printed, netif, stores, changes>>

(* assign_default_ip: three stores into server_netif, past lwIP.           *)
AfterStore(f) == CASE f = "ip" -> "mask" [] f = "mask" -> "gw" [] f = "gw" -> "open"
assign_default_ip ==
    /\ main \in Fields
    /\ netif' = [netif EXCEPT ![main] = "default"]
    /\ main' = AfterStore(main)
    /\ UNCHANGED <<nw, complete_nw_thread, mscnt, conn, local, unlocked, session,
                   stores, changes, overlap>>

-----------------------------------------------------------------------------
(* dhcp_bind, and dhcp_release or dhcp_handle_nak, call netif_set_addr:    *)
(* the address is set last and removed first.  The lwIP thread only binds  *)
(* again, when a lease is renewed.                                         *)
netif_set_addr(t, origin) ==
    /\ nw = "dhcp" /\ stores[t] = <<>> /\ changes < MaxChanges
    /\ t = "tcpip" /\ origin = "lease" => netif["ip"] = "lease"
    /\ stores' = [stores EXCEPT ![t] =
          IF origin = "none" THEN <<"scan", "ip", "mask", "gw", "none">>
                             ELSE <<"mask", "gw", "scan", "ip", "lease">>]
    /\ changes' = changes + 1
    /\ overlap' = (overlap \/ main \in Fields \/ \E u \in Stacks : stores[u] # <<>>)
    /\ UNCHANGED <<threads, session, netif, conn, local, unlocked>>

(* One step of it.  netif_set_ipaddr aborts the connections of the old     *)
(* address (tcp_netif_ip_addr_changed), then stores the new one.           *)
(* (Fault variant: no connection is aborted.)                              *)
AbortedNone(origin) == FALSE
Aborted(origin) == /\ netif["ip"] \notin {"none", origin}
                   /\ conn \in {"syn", "up"} /\ local = netif["ip"]
StepOf(q) == IF Len(q) = 2 THEN <<>> ELSE Tail(q)
Store(t) ==
    LET q == stores[t]
        origin == q[Len(q)]
        same == q[1] = "scan" /\ netif["ip"] = origin
    IN
    /\ q # <<>>
    /\ stores' = [stores EXCEPT ![t] = IF same THEN StepOf(StepOf(q)) ELSE StepOf(q)]
    /\ netif' = IF q[1] = "scan" THEN netif ELSE [netif EXCEPT ![q[1]] = origin]
    /\ conn' = IF q[1] = "scan" /\ Aborted(origin) THEN "dead" ELSE conn
    /\ UNCHANGED <<threads, session, local, changes, overlap, unlocked>>

CoreLockFree == stores["tcpip"] = <<>>

-----------------------------------------------------------------------------
(* start_application: socket, then connect, under the core lock.  Without  *)
(* an address there is no route.                                           *)
OpenSocket ==
    /\ main = "open" /\ CoreLockFree
    /\ \/ main' = "connect" /\ sock' = "open"
       \/ main' = "deleted" /\ UNCHANGED sock
    /\ UNCHANGED <<nw, complete_nw_thread, mscnt, now, client, sent, printed, conn, local,
                   unlocked, address>>
Connect ==
    /\ main = "connect" /\ conn = "none" /\ CoreLockFree
    /\ conn' = IF netif["ip"] = "none" THEN "dead" ELSE "syn"
    /\ local' = netif["ip"]
    /\ unlocked' = (unlocked \/ stores["nw"] # <<>>)
    /\ UNCHANGED <<threads, session, address>>

(* The network: the peer accepts, refuses or resets the connection.        *)
Peer ==
    /\ \/ conn = "syn" /\ conn' \in {"up", "dead"}
       \/ conn = "up" /\ main = "sending" /\ conn' = "dead"
    /\ UNCHANGED <<threads, session, address, local, unlocked>>

(* connect returns; a failure closes the socket.  The session starts with  *)
(* tcp_send_perf_traffic.                                                  *)
ConnectReturns ==
    /\ main = "connect" /\ conn \in {"up", "dead"}
    /\ IF conn = "up"
       THEN main' = "sending" /\ client' = [NoStats EXCEPT !.start = now]
       ELSE main' = "close" /\ UNCHANGED client
    /\ UNCHANGED <<nw, complete_nw_thread, mscnt, sock, now, sent, printed, conn, local,
                   unlocked, address>>

Tick ==
    /\ main = "sending" /\ now - client.start < MaxTime
    /\ now' = now + 1 /\ sent' = 0
    /\ UNCHANGED <<threads, sock, client, printed, conn, local, unlocked, address>>

(* tcp_conn_report of an interim report: last_report_time counts whole     *)
(* seconds, so the sum with a duration is cut.                             *)
Last(last, diff) == last + diff \div Second

(* The statistics after a send.  A report is due REPORT_INTERVAL_TIME      *)
(* after the first send of its interval; start_time 0 says that there is   *)
(* none.  (Fault variant: the first send of an interval is left out.)      *)
ReportDue(c) == c.iStart # 0 /\ now - c.iStart >= REPORT_INTERVAL_TIME
CountSkipped(c) == [c EXCEPT !.total = @ + 1, !.iTotal = IF c.iStart = 0 THEN @ ELSE @ + 1]
Count(c) == [c EXCEPT !.total = @ + 1, !.iTotal = @ + 1]
Reported(c) ==
    IF ReportDue(c) THEN [c EXCEPT !.last = Last(@, now - c.iStart), !.iStart = 0, !.iTotal = 0]
    ELSE IF c.iStart = 0 THEN [c EXCEPT !.iStart = now] ELSE c

(* (Fault variant: the time is measured from the interim start.)           *)
TimeOverInterim(c) == c.iStart # 0 /\ now - c.iStart >= END_TIME
TimeOver(c) == now - c.start >= END_TIME

(* lwip_send returns all bytes (of a buffer, one unit) or an error, which  *)
(* ends the session with a last report.                                    *)
SendReturns ==
    LET c == Count(client) IN
    /\ main = "sending"
    /\ \/ /\ conn = "up" /\ CoreLockFree /\ sent < Burst
          /\ sent' = sent + 1
          /\ printed' = IF ReportDue(c)
                        THEN [bytes |-> printed.bytes + c.iTotal,
                              time |-> printed.time + now - c.iStart]
                        ELSE printed
          /\ IF TimeOver(Reported(c))
             THEN main' = "close" /\ client' = [Reported(c) EXCEPT !.last = 0]
             ELSE main' = "sending" /\ client' = Reported(c)
       \/ /\ conn = "dead"
          /\ client' = [client EXCEPT !.last = 0]
          /\ main' = "close" /\ UNCHANGED <<sent, printed>>
    /\ UNCHANGED <<nw, complete_nw_thread, mscnt, sock, now, conn, local, unlocked, address>>

Close ==
    /\ main = "close" /\ CoreLockFree
    /\ main' = "deleted" /\ sock' = "closed" /\ conn' = "dead"
    /\ UNCHANGED <<nw, complete_nw_thread, mscnt, now, client, sent, printed, local,
                   unlocked, address>>

MainStep == \/ MainStart \/ WaitForLease \/ assign_default_ip \/ OpenSocket \/ Connect
            \/ ConnectReturns \/ Close
Next ==
    \/ MainStep \/ NetworkStart \/ Peer \/ Tick \/ SendReturns
    \/ \E t \in Stacks : Store(t) \/ \E o \in {"none", "lease"} : netif_set_addr(t, o)

Spec == Init /\ [][Next]_vars

(* The scheduler lets every thread go on, time passes, a connection is     *)
(* answered or given up (tcp_slowtmr), and the peer takes what is sent, or *)
(* lwip_send fails.                                                        *)
FairSpec ==
    /\ Spec
    /\ WF_vars(MainStep) /\ WF_vars(NetworkStart) /\ WF_vars(Tick) /\ WF_vars(SendReturns)
    /\ WF_vars(conn = "syn" /\ Peer)
    /\ \A t \in Stacks : WF_vars(Store(t))

-----------------------------------------------------------------------------
(* Type invariant.                                                         *)
TypeOK ==
    /\ main \in Fields \union {"create", "test", "suspend", "suspended", "poll", "open",
                               "connect", "sending", "close", "deleted"}
    /\ nw \in {"none", "add", "flag", "resume", "dhcp", "returned"}
    /\ complete_nw_thread \in BOOLEAN
    /\ netif \in [Fields -> Origins] /\ mscnt \in 0..DhcpRounds
    /\ conn \in {"none", "syn", "up", "dead"} /\ local \in Origins
    /\ sock \in {"none", "open", "closed"} /\ now \in Nat
    /\ client \in [start : Nat, total : Nat, iStart : Nat, iTotal : Nat, last : Nat]
    /\ printed \in [bytes : Nat, time : Nat]
    /\ sent \in 0..Burst /\ changes \in 0..MaxChanges
    /\ overlap \in BOOLEAN /\ unlocked \in BOOLEAN

(* The interim reports and the running interval account for every byte     *)
(* sent, over all the resets of i_report.                                  *)
BytesAccounted == main = "sending" => printed.bytes + client.iTotal = client.total

(* The intervals reported do not overlap, lie in the session, and the time *)
(* printed for the start of the next is never ahead of them.               *)
IntervalsInSession ==
    main = "sending" =>
        /\ printed.time + (IF client.iStart = 0 THEN 0 ELSE now - client.iStart)
              <= now - client.start
        /\ client.last * Second <= printed.time

(* The addresses of the interface come from one source once nobody is      *)
(* storing them, unless two threads did so at the same time: the main      *)
(* thread writes them past lwIP when its wait ends, just as a late answer  *)
(* of a DHCP server may be bound.                                          *)
MixedOnlyByOverlap ==
    main \notin Fields /\ (\A t \in Stacks : stores[t] = <<>>) /\ ~overlap =>
        \A f, g \in Fields : netif[f] = netif[g]

(* A session never goes on with a local address that the interface has not *)
(* any more, unless it was connected while network_thread, which does not  *)
(* take the core lock, was changing the address.                           *)
ConnectionHasAddress ==
    conn = "up" /\ ~unlocked /\ (\A t \in Stacks : stores[t] = <<>>) => local = netif["ip"]

(* A lease that comes late, or goes, leaves neither an interface of mixed  *)
(* addresses nor a session on an address that is gone, but for the two     *)
(* races named above.                                                      *)
AddressesConsistent == MixedOnlyByOverlap /\ ConnectionHasAddress

(* Every way out of start_application closes its socket.                   *)
SocketClosed == main = "deleted" => sock # "open"

(* The books of a session: bytes, time and the socket, over every seam     *)
(* between two reports and every way the session may end.                  *)
SessionConsistent == TypeOK /\ BytesAccounted /\ IntervalsInSession /\ SocketClosed

(* A main_thread that suspends itself before network_thread is done is     *)
(* woken by it, unless the interface cannot be added: the flag is set      *)
(* before the resumption.                                                  *)
MainWoken ==
    main = "suspended" /\ nw \in {"add", "flag", "resume"}
        ~> main # "suspended" \/ nw = "returned"

(* From the wait for a lease main_thread comes to its end: with a lease or *)
(* without, and the session is limited in time whatever reports it makes.  *)
SessionEnds == main = "poll" ~> main = "deleted"
=============================================================================
