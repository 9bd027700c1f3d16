------------------------------- MODULE Netconn -------------------------------
(***************************************************************************)
(* One TCP socket of lwIP 2.0.2 as a blocking client uses it: sockets.c,   *)
(* api_lib.c and api_msg.c, with LWIP_TCPIP_CORE_LOCKING = 1.  The API     *)
(* functions run in the calling thread, under the core lock, and wait on   *)
(* the semaphore op_completed with the lock released; the callbacks of the *)
(* pcb run in the lwIP thread, under the lock.  A step of this module is   *)
(* what happens between two points where the lock can change hands.        *)
(*                                                                         *)
(* The TCP core below (tcp.c, tcp_in.c) is modelled where it meets the     *)
(* netconn: the states of the pcb that matter here, refused data, the      *)
(* pending FIN, and which events reach which callback.                     *)
(***************************************************************************)
EXTENDS Integers, Sequences

CONSTANTS
    NumSockets,   \* NUM_SOCKETS = MEMP_NUM_NETCONN
    MboxSize,     \* DEFAULT_TCP_RECVMBOX_SIZE
    MaxPolls,     \* polls_left of a close
    FinMem,       \* tcp_send_fin may fail with ERR_MEM
    MaxSegment    \* how much one received segment carries

ASSUME NetconnAssumption ==
    /\ NumSockets \in Nat
    /\ MboxSize \in Nat \ {0}
    /\ MaxPolls \in Nat
    /\ FinMem \in BOOLEAN
    /\ MaxSegment \in Nat \ {0}

VARIABLES
    call,      \* where the calling thread is: "none", or inside a call
    ret,       \* what the last call returned: 0, -1, or the bytes received
    used,      \* sockets (and their netconns) in use
    state,     \* conn->state
    pcb,       \* conn->pcb.tcp: "null" or the state of the pcb; "freed" is a
               \* pointer to a pcb that the core has let go of
    lastErr,   \* conn->last_err
    msgErr,    \* err of conn->current_msg
    sem,       \* op_completed
    mbox,      \* recvmbox
    mboxValid, \* sys_mbox_valid(&conn->recvmbox)
    rcvevent,  \* sock->rcvevent
    lastdata,  \* sock->lastdata behind lastoffset
    room,      \* len of the running lwip_recvfrom
    got,       \* what it has copied (off = Len(got))
    todo,      \* bytes of the running write not yet given to tcp_write
    pollsLeft, \* msg.sd.polls_left of the running close
    unacked,   \* sent data waits for an ACK
    refused,   \* pcb->refused_data, with its FIN flag
    closePend, \* TF_CLOSEPEND
    stream     \* what the peer of this connection has yet to send

callVars == <<call, ret, room, got, todo>>
connVars == <<state, pcb, lastErr, msgErr, sem, mbox, mboxValid, rcvevent, pollsLeft>>
coreVars == <<unacked, refused, closePend, stream>>
netVars  == <<callVars, connVars, coreVars, used, lastdata>>

(* A pbuf in a mailbox; the NULL message that announces the end.           *)
Nothing == <<>>
Pbuf(data, push) == [data |-> data, push |-> push]
NullMsg == Pbuf(Nothing, FALSE)

NoRefused == [data |-> Nothing, push |-> FALSE, fin |-> FALSE]

(* err_t: ERR_IS_FATAL, and NETCONN_SET_SAFE_ERR.                          *)
FatalErrors == {"ABRT", "RST", "CLSD"}
Errors == FatalErrors \union {"OK", "RTE"}
SafeErr(last, err) == IF last \in FatalErrors THEN last ELSE err

NetInit ==
    /\ call = "none" /\ ret = 0 /\ used = 0
    /\ state = "NONE" /\ pcb = "null" /\ lastErr = "OK" /\ msgErr = "OK" /\ sem = 0
    /\ mbox = <<>> /\ mboxValid = FALSE /\ rcvevent = 0 /\ lastdata = NullMsg
    /\ room = 0 /\ got = <<>> /\ todo = 0 /\ pollsLeft = 0
    /\ unacked = FALSE /\ refused = NoRefused /\ closePend = FALSE /\ stream = <<>>

-----------------------------------------------------------------------------
(* lwip_socket: netconn_alloc, pcb_new, alloc_socket.  A refused           *)
(* allocation frees what was allocated before it.                          *)
lwip_socket ==
    /\ call = "none"
    /\ \/ /\ ret' = -1
          /\ UNCHANGED <<call, room, got, todo, connVars, coreVars, used, lastdata>>
       \/ /\ used < NumSockets
          /\ used' = used + 1
          /\ ret' = 0
          /\ state' = "NONE" /\ pcb' = "closed" /\ lastErr' = "OK" /\ msgErr' = "OK" /\ sem' = 0
          /\ mbox' = <<>> /\ mboxValid' = TRUE /\ rcvevent' = 0 /\ lastdata' = NullMsg
          /\ UNCHANGED <<call, room, got, todo, pollsLeft, coreVars>>

(* lwip_connect to a peer that will send s: lwip_netconn_do_connect.       *)
(* tcp_connect fails at once (no route, no port, no memory) or sends SYN.  *)
lwip_connect(s) ==
    /\ call = "none"
    /\ \/ /\ ret' = -1
          /\ UNCHANGED <<call, state, pcb, coreVars>>
       \/ /\ pcb = "closed"
          /\ state' = "CONNECT" /\ pcb' = "synSent"
          /\ call' = "connect"
          /\ stream' = s /\ unacked' = FALSE /\ refused' = NoRefused /\ closePend' = FALSE
          /\ UNCHANGED ret
    /\ UNCHANGED <<room, got, todo, lastErr, msgErr, sem, mbox, mboxValid, rcvevent,
                   pollsLeft, used, lastdata>>

(* lwip_netconn_do_connected.                                              *)
lwip_netconn_do_connected ==
    /\ pcb = "synSent" /\ state = "CONNECT"
    /\ pcb' = "established"
    /\ state' = "NONE"
    /\ msgErr' = "OK" /\ lastErr' = SafeErr(lastErr, "OK")
    /\ sem' = sem + 1
    /\ UNCHANGED <<callVars, mbox, mboxValid, rcvevent, pollsLeft, coreVars, used, lastdata>>

-----------------------------------------------------------------------------
(* lwip_netconn_do_writemore with n bytes of the write left: the possible  *)
(* results.  tcp_write takes some of them (send buffer) or has ERR_MEM,    *)
(* and the write waits; or all of them, or tcp_output finds no route.      *)
WriteResults(n) ==
    [left : 0..n, done : BOOLEAN, err : {"OK", "RTE"}]
WriteMore(n, r) ==
    \/ r.done /\ r.left = 0 /\ r.err = "OK"
    \/ r.done /\ r.err = "RTE"
    \/ ~r.done /\ r.left > 0 /\ r.err = "OK"

(* Only a delayed completion signals: in the calling thread nobody waits   *)
(* yet.  (Fault variant: every completion signals.)                        *)
SignalAlways(delayed) == sem + 1
Signal(delayed) == IF delayed THEN sem + 1 ELSE sem

WriteStep(n, delayed, waits) ==
    \E r \in WriteResults(n) :
        /\ WriteMore(n, r)
        /\ todo' = IF r.done THEN 0 ELSE r.left
        /\ unacked' = (waits \/ r.left < n)
        /\ state' = IF r.done THEN "NONE" ELSE "WRITE"
        /\ msgErr' = r.err
        /\ lastErr' = IF r.done THEN SafeErr(lastErr, r.err) ELSE lastErr
        /\ sem' = IF r.done THEN Signal(delayed) ELSE sem
        /\ IF delayed THEN UNCHANGED <<call, ret>>
           ELSE /\ call' = IF r.done THEN "none" ELSE "write"
                /\ ret' = IF r.done /\ r.err # "OK" THEN -1 ELSE 0
        /\ UNCHANGED <<room, got, pcb, mbox, mboxValid, rcvevent, pollsLeft,
                       refused, closePend, stream, used, lastdata>>

(* lwip_send of n bytes: lwip_netconn_do_write.  It returns 0 here for n:  *)
(* a blocking write that succeeds has sent everything.                     *)
lwip_send(n) ==
    /\ call = "none"
    /\ IF lastErr \in FatalErrors \/ state # "NONE" \/ pcb = "null"
       THEN ret' = -1 /\ UNCHANGED <<call, room, got, todo, connVars, coreVars, used, lastdata>>
       ELSE WriteStep(n, FALSE, unacked)

-----------------------------------------------------------------------------
(* lwip_recvfrom for n bytes; its loop is RecvTop, RecvFetch, RecvNull.    *)
lwip_recv(n) ==
    /\ call = "none"
    /\ call' = "recv" /\ room' = n /\ got' = <<>>
    /\ UNCHANGED <<ret, todo, connVars, coreVars, used, lastdata>>

(* An error of netconn_recv_data, which left events in rcvevent: bytes     *)
(* copied before are returned first, and an end behind them is one event   *)
(* more.                                                                   *)
(* (Fault variant: the end of the connection is an error like the others.) *)
RecvReturnsError(err, events) ==
    /\ call' = "none"
    /\ ret' = IF got # <<>> THEN Len(got) ELSE -1
    /\ rcvevent' = IF got # <<>> /\ err = "CLSD" THEN events + 1 ELSE events
RecvReturns(err, events) ==
    /\ call' = "none"
    /\ ret' = IF got # <<>> THEN Len(got) ELSE IF err = "CLSD" THEN 0 ELSE -1
    /\ rcvevent' = IF got # <<>> /\ err = "CLSD" THEN events + 1 ELSE events

(* Copying from a pbuf: as much as there is room for; the rest stays in    *)
(* lastdata.  The loop goes on only if there is room, the segment had no   *)
(* PUSH and events count more messages (events is rcvevent by then).       *)
Copy(p, events) ==
    LET n    == IF room < Len(p.data) THEN room ELSE Len(p.data)
        rest == SubSeq(p.data, n + 1, Len(p.data))
        all  == got \o SubSeq(p.data, 1, n)
        done == room = n \/ p.push \/ events <= 0
    IN  /\ got' = all
        /\ room' = room - n
        /\ lastdata' = IF rest = <<>> THEN NullMsg ELSE Pbuf(rest, p.push)
        /\ call' = IF done THEN "none" ELSE "recv"
        /\ ret' = IF done THEN Len(all) ELSE ret

(* The top of the loop, with the tests of netconn_recv_data.               *)
RecvTop ==
    /\ call = "recv"
    /\ IF lastdata # NullMsg
       THEN Copy(lastdata, rcvevent) /\ UNCHANGED rcvevent
       ELSE /\ IF ~mboxValid THEN RecvReturns("CLSD", rcvevent)
               ELSE IF lastErr \in FatalErrors THEN RecvReturns(lastErr, rcvevent)
               ELSE call' = "fetch" /\ UNCHANGED <<ret, rcvevent>>
            /\ UNCHANGED <<room, got, lastdata>>
    /\ UNCHANGED <<todo, state, pcb, lastErr, msgErr, sem, mbox, mboxValid, pollsLeft,
                   coreVars, used>>

(* What a RCVMINUS event leaves of rcvevent.                               *)
RcvMinus(n) == n - 1

(* sys_arch_mbox_fetch blocks until there is a message.  For data,         *)
(* lwip_netconn_do_recv opens the window, then the data is copied.         *)
RecvFetch ==
    /\ call = "fetch"
    /\ mbox # <<>>
    /\ mbox' = Tail(mbox)
    /\ rcvevent' = RcvMinus(rcvevent)
    /\ IF Head(mbox) = NullMsg
       THEN call' = "null" /\ UNCHANGED <<ret, room, got, lastdata>>
       ELSE Copy(Head(mbox), rcvevent')
    /\ UNCHANGED <<todo, state, pcb, lastErr, msgErr, sem, mboxValid, pollsLeft, coreVars, used>>

(* The NULL message: a pcb that is gone means RST ...                      *)
RecvNull ==
    /\ call = "null"
    /\ IF pcb = "null"
       THEN RecvReturns(IF lastErr = "OK" THEN "RST" ELSE lastErr, rcvevent)
       ELSE call' = "shut" /\ UNCHANGED <<ret, rcvevent>>
    /\ UNCHANGED <<room, got, todo, state, pcb, lastErr, msgErr, sem, mbox, mboxValid,
                   pollsLeft, coreVars, used, lastdata>>

(* ... otherwise the receiving side is shut down: lwip_netconn_do_close    *)
(* with NETCONN_SHUT_RD drains and frees the mailbox; tcp_shutdown drops   *)
(* refused data and cannot fail.  A pcb lost since the test is ignored.    *)
RecvShut ==
    /\ call = "shut"
    /\ IF pcb = "null"
       THEN RecvReturns("CLSD", rcvevent) /\ UNCHANGED <<mbox, mboxValid, refused>>
       ELSE /\ mbox' = <<>> /\ mboxValid' = FALSE
            /\ refused' = NoRefused
            /\ RecvReturns("CLSD", rcvevent + 1)
    /\ UNCHANGED <<room, got, todo, state, pcb, lastErr, msgErr, sem, pollsLeft,
                   unacked, closePend, stream, used, lastdata>>

-----------------------------------------------------------------------------
(* lwip_netconn_do_close_internal for NETCONN_SHUT_RDWR: tcp_close frees   *)
(* the pcb, or leaves it to the core in a closing state, and the netconn   *)
(* forgets it; or the FIN finds no memory and the close waits, at most for *)
(* polls_left polls, then it aborts.                                       *)
CloseWaits(polls) ==
    FinMem /\ pcb \in {"established", "closeWait"} /\ polls > 0
CloseDone(delayed) ==
    /\ state' = "NONE" /\ pcb' = "null"
    /\ msgErr' = "OK" /\ lastErr' = SafeErr(lastErr, "OK")
    /\ sem' = Signal(delayed)
    /\ closePend' = FALSE /\ refused' = NoRefused
CloseDelayed(polls) ==
    /\ CloseWaits(polls)
    /\ state' = "CLOSE" /\ closePend' = TRUE
    /\ UNCHANGED <<pcb, msgErr, lastErr, sem, refused>>

(* netconn_free and free_socket.                                           *)
(* (Fault variant: the socket is not given back after an error.)           *)
FreeSocketUnlessFailed ==
    /\ used' = IF lastErr \in FatalErrors THEN used ELSE used - 1
    /\ lastdata' = NullMsg /\ call' = "none" /\ ret' = 0
FreeSocket == used' = used - 1 /\ lastdata' = NullMsg /\ call' = "none" /\ ret' = 0

(* lwip_close: lwip_netconn_do_delconn.  (Its events count on a rcvevent   *)
(* that nobody reads any more: alloc_socket clears it.)                    *)
lwip_close ==
    /\ call = "none"
    /\ mbox' = <<>> /\ mboxValid' = FALSE
    /\ pollsLeft' = MaxPolls
    /\ \/ /\ pcb = "null"
          /\ FreeSocket
          /\ UNCHANGED <<state, pcb, msgErr, lastErr, sem, closePend, refused>>
       \/ /\ pcb # "null"
          /\ CloseDone(FALSE)
          /\ FreeSocket
       \/ /\ pcb # "null"
          /\ CloseDelayed(MaxPolls)
          /\ call' = "delete"
          /\ UNCHANGED <<ret, used, lastdata>>
    /\ UNCHANGED <<room, got, todo, rcvevent, unacked, stream>>

(* sys_arch_sem_wait returns in connect, write or close.                   *)
OpCompleted ==
    /\ call \in {"connect", "write", "delete"}
    /\ sem > 0
    /\ sem' = sem - 1
    /\ IF call = "delete"
       THEN FreeSocket
       ELSE /\ call' = "none"
            /\ ret' = IF msgErr = "OK" THEN 0 ELSE -1
            /\ UNCHANGED <<used, lastdata>>
    /\ UNCHANGED <<room, got, todo, state, pcb, lastErr, msgErr, mbox, mboxValid, rcvevent,
                   pollsLeft, coreVars>>

Continue == RecvTop \/ RecvFetch \/ RecvNull \/ RecvShut \/ OpCompleted

-----------------------------------------------------------------------------
(* Callbacks of the lwIP thread.                                           *)

Active == {"synSent", "established", "closeWait", "finWait", "lastAck"}

(* recv_tcp: the mailbox takes a message if it is valid and not full.      *)
MboxTakes == mboxValid /\ Len(mbox) < MboxSize
Post(m) == mbox' = Append(mbox, m) /\ rcvevent' = rcvevent + 1

(* err_tcp: a RST arrived, or the core gave the connection up (ABRT).      *)
(* The NULL message wakes a reader.                                        *)
(* (Fault variant: only while an operation is under way.)                  *)
MboxAfterErrSilent == IF MboxTakes /\ state # "NONE" THEN Append(mbox, NullMsg) ELSE mbox
MboxAfterErr == IF MboxTakes THEN Append(mbox, NullMsg) ELSE mbox
err_tcp(err) ==
    /\ pcb \in Active
    /\ pcb' = "null"
    /\ state' = "NONE"
    /\ lastErr' = IF state = "CLOSE" THEN SafeErr(lastErr, "OK") ELSE err
    /\ msgErr' = IF state = "CLOSE" THEN "OK" ELSE err
    /\ rcvevent' = rcvevent + 1
    /\ mbox' = MboxAfterErr
    /\ sem' = IF state \in {"WRITE", "CLOSE", "CONNECT"} THEN sem + 1 ELSE sem
    /\ refused' = NoRefused /\ closePend' = FALSE /\ unacked' = FALSE
    /\ UNCHANGED <<callVars, mboxValid, pollsLeft, stream, used, lastdata>>

(* tcp_input, a data segment of n tokens.  While data is refused, or when  *)
(* the receiver is closed, more of it is not taken (the peer repeats it).  *)
(* What recv_tcp cannot post is kept as refused data.                      *)
(* (Fault variant: data that does not fit is freed.)                       *)
RefuseDropped(data, push) == NoRefused
Refuse(data, push) == [data |-> data, push |-> push, fin |-> FALSE]
DataArrives(n, push) ==
    /\ pcb = "established" /\ state # "CLOSE"
    /\ refused = NoRefused
    /\ n <= Len(stream)
    /\ LET data == SubSeq(stream, 1, n) IN
       IF MboxTakes
       THEN Post(Pbuf(data, push)) /\ UNCHANGED refused
       ELSE refused' = Refuse(data, push) /\ UNCHANGED <<mbox, rcvevent>>
    /\ stream' = SubSeq(stream, n + 1, Len(stream))
    /\ UNCHANGED <<callVars, state, pcb, lastErr, msgErr, sem, mboxValid, pollsLeft,
                   unacked, closePend, used, lastdata>>

(* recv_tcp with p = NULL, for a FIN: what the mailbox cannot take is      *)
(* refused with ERR_MEM, which the core ignores for a FIN.                 *)
PostFin ==
    IF MboxTakes THEN Post(NullMsg) ELSE UNCHANGED <<mbox, rcvevent>>

(* tcp_input, the peer's FIN after all its data.  It waits behind refused  *)
(* data; a closing netconn has no receive callback any more; a pcb that    *)
(* has sent its own FIN goes to TIME_WAIT, where no callback is called.    *)
FinArrives ==
    /\ stream = <<>>
    /\ \/ /\ pcb = "established"
          /\ pcb' = "closeWait"
          /\ IF state = "CLOSE" THEN UNCHANGED <<mbox, rcvevent, refused>>
             ELSE IF refused # NoRefused
             THEN refused' = [refused EXCEPT !.fin = TRUE] /\ UNCHANGED <<mbox, rcvevent>>
             ELSE PostFin /\ UNCHANGED refused
       \/ /\ pcb = "finWait"
          /\ pcb' = "freed"
          /\ UNCHANGED <<mbox, rcvevent, refused>>
    /\ UNCHANGED <<callVars, state, lastErr, msgErr, sem, mboxValid, pollsLeft,
                   unacked, closePend, stream, used, lastdata>>

(* tcp_process_refused_data, from tcp_fasttmr: the data again, and its FIN *)
(* right behind it.                                                        *)
RefusedAgain ==
    /\ refused # NoRefused
    /\ MboxTakes
    /\ LET data  == Append(mbox, Pbuf(refused.data, refused.push))
           posts == refused.fin /\ Len(data) < MboxSize
       IN  /\ mbox' = IF posts THEN Append(data, NullMsg) ELSE data
           /\ rcvevent' = rcvevent + (IF posts THEN 2 ELSE 1)
    /\ refused' = NoRefused
    /\ UNCHANGED <<callVars, state, pcb, lastErr, msgErr, sem, mboxValid, pollsLeft,
                   unacked, closePend, stream, used, lastdata>>

(* tcp_fasttmr retries the FIN that found no memory.                       *)
PendingFin ==
    /\ closePend
    /\ \/ pcb = "established" /\ pcb' = "finWait"
       \/ pcb = "closeWait"   /\ pcb' = "lastAck"
    /\ closePend' = FALSE
    /\ UNCHANGED <<callVars, state, lastErr, msgErr, sem, mbox, mboxValid, rcvevent,
                   pollsLeft, unacked, refused, stream, used, lastdata>>

(* tcp_input in LAST_ACK: the ACK of the FIN alone is no sent event, and   *)
(* with TF_RXCLOSED no error event either; the pcb is freed.               *)
AckOfFin ==
    /\ pcb = "lastAck" /\ ~unacked
    /\ pcb' = "freed"
    /\ UNCHANGED <<callVars, state, lastErr, msgErr, sem, mbox, mboxValid, rcvevent,
                   pollsLeft, coreVars, used, lastdata>>

(* lwip_netconn_do_close_internal called again, from a callback.           *)
CloseStep(polls) ==
    /\ state = "CLOSE"
    /\ CloseDone(TRUE) \/ CloseDelayed(polls)
    /\ pollsLeft' = polls
    /\ UNCHANGED <<callVars, mbox, mboxValid, rcvevent, stream, used, lastdata>>

(* The two callbacks that resume a write or a close: poll_tcp from the     *)
(* slow timer, which knows active pcbs only, and sent_tcp for ACKed data.  *)
poll_tcp ==
    /\ pcb \in Active
    /\ \/ state = "WRITE" /\ WriteStep(todo, TRUE, unacked)
       \/ CloseStep(IF pollsLeft > 0 THEN pollsLeft - 1 ELSE 0) /\ UNCHANGED unacked
sent_tcp ==
    /\ pcb \in Active /\ unacked
    /\ \/ state = "WRITE" /\ WriteStep(todo, TRUE, FALSE)
       \/ CloseStep(pollsLeft) /\ unacked' = FALSE
       \/ /\ state = "NONE"
          /\ unacked' = FALSE
          /\ UNCHANGED <<callVars, connVars, refused, closePend, stream, used, lastdata>>

(* The peer, the network and the timers.                                   *)
Peer ==
    \/ lwip_netconn_do_connected
    \/ \E n \in 1..MaxSegment, push \in BOOLEAN : DataArrives(n, push)
    \/ FinArrives
    \/ err_tcp("RST") \/ err_tcp("ABRT")
    \/ sent_tcp
    \/ AckOfFin
Timers == RefusedAgain \/ PendingFin \/ poll_tcp
tcpip_thread == Peer \/ Timers

-----------------------------------------------------------------------------
(* Type invariant of the socket.                                           *)
NetTypeOK ==
    /\ call \in {"none", "connect", "write", "recv", "fetch", "null", "shut", "delete"}
    /\ ret \in Int
    /\ used \in 0..NumSockets
    /\ state \in {"NONE", "CONNECT", "WRITE", "CLOSE"}
    /\ pcb \in {"null", "closed", "freed"} \union Active
    /\ lastErr \in Errors /\ msgErr \in Errors
    /\ sem \in Nat
    /\ Len(mbox) <= MboxSize /\ mboxValid \in BOOLEAN /\ rcvevent \in Int
    /\ room \in Nat /\ todo \in Nat /\ pollsLeft \in 0..MaxPolls
    /\ unacked \in BOOLEAN /\ closePend \in BOOLEAN

(* The semaphore is signalled exactly once for each wait and never without *)
(* one: a signal left over would end the next connect, write or close      *)
(* before its time (the "state!" assertions of api_msg.c 1081, 1251 and    *)
(* 1671 say the same of the woken thread).                                 *)
Waiting == call \in {"connect", "write", "delete"}
SignalledOnce == sem = IF Waiting /\ state = "NONE" THEN 1 ELSE 0

(* A thread waits for the operation the netconn is in, and the netconn is  *)
(* in an operation only while a thread waits for it.                       *)
OperationHasWaiter ==
    state # "NONE" => call = CASE state = "CONNECT" -> "connect"
                               [] state = "WRITE"   -> "write"
                               [] state = "CLOSE"   -> "delete"

(* The caller and the callbacks agree on the operation under way: it is    *)
(* awaited by the thread that began it, and completed for it once.         *)
OperationProtocol == SignalledOnce /\ OperationHasWaiter

(* recv never waits for more while it holds data it could return: rcvevent *)
(* never counts a message that is not in the mailbox when recv relies on   *)
(* it, whatever errors and shutdowns add to it.                            *)
NeverWaitsHoldingData == call = "fetch" /\ got # <<>> => mbox # <<>>

(* A thread that waits in fetch on a connection that failed finds the NULL *)
(* message: err_tcp cannot leave it waiting.                               *)
FailureWakesReader == call = "fetch" /\ pcb = "null" => mbox # <<>>

(* A reader is never left waiting beside what it should return: data it    *)
(* has, or the failure of the connection.                                  *)
ReaderWoken == NeverWaitsHoldingData /\ FailureWakesReader
=============================================================================
