----------------------------- MODULE DhcpServer -----------------------------
(***************************************************************************)
(* The DHCP server of the board: dhcpTask (main.c), start_application,     *)
(* dhcpListener and the two packet handlers (dhcpServer.c) and the option  *)
(* lists they allocate (options.c).                                        *)
(*                                                                         *)
(* One task runs this code.  Its environment is the UDP receive mailbox    *)
(* that the lwIP thread fills, and an allocator that can refuse.  pc names *)
(* the piece of code the task executes next; the last three values are the *)
(* undefined behaviours the code can run into, after which nothing more is *)
(* said about it.                                                          *)
(***************************************************************************)
EXTENDS DhcpOptions

CONSTANTS
    Clients,       \* what identifies a client: htype, hlen, xid, flags,
                   \* giaddr, chaddr (fillDhcpPacket copies them together)
    NoClient,      \* the same fields of a header that holds no request
    Datagrams,     \* the datagrams that may reach UDP port 67
    MaxQueue,      \* DEFAULT_UDP_RECVMBOX_SIZE
    HeapSize,      \* number of blocks malloc can hand out
    Fragmented,    \* malloc may refuse although blocks are left
    StackGarbage   \* the words a dead stack slot may hold: the values that
                   \* the uninitialised locals of dhcpListener can take

(* A datagram as dhcpListener sees it: source address, length, the header  *)
(* fields it tests, and the options area up to the END option.             *)
Datagram == [client : Clients, src : Byte \X Byte \X Byte \X Byte, len : Nat,
             op : Byte, hlen : Byte,
             cookie : Byte \X Byte \X Byte \X Byte, opts : Seq(Option)]

ASSUME ConstantsAssumption ==
    /\ NoClient \notin Clients
    /\ Datagrams \subseteq Datagram
    /\ MaxQueue \in Nat \ {0}
    /\ HeapSize \in Nat
    /\ Fragmented \in BOOLEAN
    /\ StackGarbage \subseteq Int
    /\ StackGarbage # {}

VARIABLES
    pc,            \* what dhcpTask executes next
    sock,          \* the socket: "none", "open" (not bound), "bound", "closed"
    rxq,           \* the receive mailbox of the socket
    req,           \* requestMsg.hdr
    pos,           \* parseDhcpOptionList: index of the option at optionArrayPtr
    reqOpts,       \* requestMsg.opts (the empty sequence is NULL)
    kind,          \* the type the running handler passed to fillDhcpPacket
    hdr,           \* replyMsg.hdr: whom it is for, and its options area
    replyPtr,      \* replyMsg.opts: "null", "live" or "wild" (never assigned
                   \* in this call, a leftover of the stack)
    replyOpts,     \* the list at replyMsg.opts when it is live
    count,         \* answerClientRequest: index into the requested parameters
    returnStatus,  \* returnStatus
    heap,          \* blocks allocated and not freed
    oom,           \* some malloc has returned NULL
    acks,          \* history: the clients a DHCPACK was sent to
    httpResumed    \* vTaskResume(httpPostHandler) was called

msgVars == <<req, pos, reqOpts>>
replyVars == <<kind, hdr, replyPtr, replyOpts, count>>
memVars == <<heap, oom>>
vars == <<pc, sock, rxq, msgVars, replyVars, returnStatus, memVars, acks, httpResumed>>

Undefined == {"fellOff", "nullDeref", "wildFree"}
Stopped   == {"suspended"} \union Undefined

(* A cleared dhcp_message: what memset leaves, or a header nobody filled.   *)
NoReq == [client |-> NoClient, src |-> <<0, 0, 0, 0>>, len |-> 0, op |-> 0,
          hlen |-> 0, cookie |-> <<0, 0, 0, 0>>, opts |-> <<>>]
Junk  == [to |-> NoClient, wire |-> <<>>]

Init ==
    /\ pc = "start"
    /\ sock = "none"
    /\ rxq = <<>>
    /\ req = NoReq /\ pos = 1 /\ reqOpts = <<>>
    /\ kind = 0 /\ hdr = Junk /\ replyPtr = "null" /\ replyOpts = <<>> /\ count = 1
    /\ returnStatus \in StackGarbage
    /\ heap = 0 /\ oom = FALSE
    /\ acks = <<>>
    /\ httpResumed = FALSE

-----------------------------------------------------------------------------
(* The C library: the outcomes of one malloc when h blocks are in use.     *)
Malloc(h) ==
    {r \in [ok : BOOLEAN, heap : {h, h + 1}] :
        IF r.ok THEN h < HeapSize /\ r.heap = h + 1
                ELSE (Fragmented \/ h >= HeapSize) /\ r.heap = h}

-----------------------------------------------------------------------------
(* dhcpTask calls start_application once and ignores its result: without a *)
(* socket, or with one that SO_BROADCAST or bind refused, it listens too.  *)
start_application ==
    /\ pc = "start"
    /\ sock' \in {"none", "open", "bound"}
    /\ pc' = "call"
    /\ UNCHANGED <<rxq, msgVars, replyVars, returnStatus, memVars, acks, httpResumed>>

(* sys_mbox_trypost refuses at the size of the mailbox.                    *)
(* (Fault variant: one datagram too late.)                                 *)
MailboxOverfull(q) == Len(q) > MaxQueue
MailboxFull(q) == Len(q) >= MaxQueue

(* recv_udp, in the lwIP thread: the mailbox of a bound socket takes the   *)
(* datagram; a datagram that finds it full is dropped, which changes       *)
(* nothing here.                                                           *)
Arrive(d) ==
    /\ sock = "bound"
    /\ ~MailboxFull(rxq)
    /\ rxq' = Append(rxq, d)
    /\ UNCHANGED <<pc, sock, msgVars, replyVars, returnStatus, memVars, acks, httpResumed>>

(* dhcpListener is called: returnStatus, replyMsg.hdr and replyMsg.opts are *)
(* whatever the stack holds.  The old header may have survived.            *)
EnterListener ==
    /\ pc = "call"
    /\ returnStatus' \in StackGarbage
    /\ \E word \in StackGarbage : replyPtr' = IF word = 0 THEN "null" ELSE "wild"
    /\ hdr' \in {hdr, Junk}
    /\ pc' = "recv"
    /\ UNCHANGED <<sock, rxq, msgVars, kind, replyOpts, count, memVars, acks, httpResumed>>

(* checkValidIpv4Addr(addr), addr the little-endian word of bytes b1..b4:  *)
(* the second comparison shifts addr by 4, not 8.                          *)
(* (Fault variant: the shift by 8 that the address layout calls for.)      *)
SecondByteShift8(a) == a[2]
SecondByte(a) == (a[1] \div 16) + 16 * (a[2] % 16)
checkValidIpv4Addr(a) == a[1] = 192 /\ SecondByte(a) = 168 /\ a[3] = 1

(* The tests that make the listener drop a datagram.  memcmp is given      *)
(* "sizeof(dhcpMagicCookie) != 0" as its length: it compares one byte.     *)
CookieDiffers(d) == d.cookie[1] # dhcpMagicCookie[1]
Rejected(d) ==
    \/ d.len < DHCP_PACKET_SIZE
    \/ d.op # BOOTREQUEST
    \/ d.hlen < 1 \/ d.hlen > 16
    \/ d.len - DHCP_PACKET_SIZE < 4
    \/ CookieDiffers(d)

(* recvfrom(MSG_DONTWAIT) has nothing: len is -1 and the loop goes round.  *)
PollEmpty ==
    /\ pc = "recv"
    /\ sock # "bound" \/ rxq = <<>>
    /\ UNCHANGED vars

(* recvfrom has a datagram.  It is dropped (an options area that starts    *)
(* with END parses to no list, so has no message type), or its first list  *)
(* node is allocated, unchecked, and parsing starts.                       *)
Receive ==
    /\ pc = "recv"
    /\ sock = "bound"
    /\ rxq # <<>>
    /\ rxq' = Tail(rxq)
    /\ LET d == Head(rxq) IN
         IF checkValidIpv4Addr(d.src)
         THEN pc' = "fellOff" /\ UNCHANGED <<msgVars, memVars>>
         ELSE IF Rejected(d) \/ d.opts = <<>>
         THEN UNCHANGED <<pc, msgVars, memVars>>
         ELSE \E m \in Malloc(heap) :
                /\ pc' = IF m.ok THEN "parse" ELSE "nullDeref"
                /\ req' = d
                /\ pos' = 1
                /\ UNCHANGED reqOpts
                /\ heap' = m.heap
                /\ oom' = (oom \/ ~m.ok)
    /\ UNCHANGED <<sock, replyVars, returnStatus, acks, httpResumed>>

(* One round of the loop of parseDhcpOptionList: parse the option at pos   *)
(* into the current node, then allocate the next node unless END follows.  *)
(* A refused malloc of the data leaves optionArrayPtr where it was.        *)
StoreOption(m) ==
    LET opt  == req.opts[pos]
        next == IF m.ok THEN pos + 1 ELSE pos
    IN  /\ reqOpts' = Append(reqOpts, createOption(opt.id, opt.data, m))
        /\ pos' = next
        /\ IF next > Len(req.opts)
           THEN pc' = "dispatch" /\ heap' = m.heap /\ oom' = (oom \/ ~m.ok)
           ELSE \E n \in Malloc(m.heap) :
                  /\ pc' = IF n.ok THEN "parse" ELSE "dispatch"
                  /\ heap' = n.heap
                  /\ oom' = (oom \/ ~m.ok \/ ~n.ok)
        /\ UNCHANGED <<sock, rxq, req, replyVars, returnStatus, acks, httpResumed>>

(* (Fault variant: the data malloc is retried until it succeeds.)          *)
ParseRoundRetrying ==
    pc = "parse" /\ \E m \in Malloc(heap) : IF m.ok THEN StoreOption(m) ELSE UNCHANGED vars
ParseRound ==
    pc = "parse" /\ \E m \in Malloc(heap) : StoreOption(m)

(* The search for the message type and the switch.  Without the option the *)
(* loop goes round, and clears requestMsg.opts without freeing the list.   *)
Dispatch ==
    /\ pc = "dispatch"
    /\ IF ~HasOption(reqOpts, DHCP_MESSAGE_TYPE)
       THEN pc' = "recv" /\ req' = NoReq /\ pos' = 1 /\ reqOpts' = <<>> /\ UNCHANGED kind
       ELSE LET type == seachForOption(reqOpts, DHCP_MESSAGE_TYPE) IN
              /\ IF ~type.ok
                 THEN pc' = "nullDeref" /\ UNCHANGED kind
                 ELSE \E b \in TypeBytes(type) :
                        /\ kind' = HandlerOf(b)
                        /\ pc' = IF HandlerOf(b) = 0 THEN "reply" ELSE "fill"
              /\ UNCHANGED msgVars
    /\ UNCHANGED <<sock, rxq, hdr, replyPtr, replyOpts, count, returnStatus,
                   memVars, acks, httpResumed>>

(* fillDhcpPacket, and the handler's search for the requested parameters.  *)
(* The first malloc is not checked; the options area stays zero for now.   *)
fillDhcpPacket ==
    /\ pc = "fill"
    /\ \E n \in Malloc(heap) : \E m \in Malloc(n.heap) :
         IF ~n.ok
         THEN /\ pc' = "nullDeref" /\ heap' = n.heap /\ oom' = TRUE
              /\ UNCHANGED <<hdr, replyPtr, replyOpts, count>>
         ELSE /\ hdr' = [to |-> req.client, wire |-> <<>>]
              /\ replyPtr' = "live"
              /\ replyOpts' = <<createOption(DHCP_MESSAGE_TYPE, <<kind>>, m)>>
              /\ count' = 1
              /\ heap' = m.heap
              /\ oom' = (oom \/ ~m.ok)
              /\ pc' = IF HasOption(reqOpts, PARAMETER_REQUEST_LIST)
                       THEN "answer" ELSE "lease"
    /\ UNCHANGED <<sock, rxq, msgVars, kind, returnStatus, acks, httpResumed>>

(* One round of answerClientRequest, or its end.  When the node of the new *)
(* option cannot be allocated the failure is ignored and its data is lost. *)
answerClientRequest ==
    /\ pc = "answer"
    /\ LET prl == seachForOption(reqOpts, PARAMETER_REQUEST_LIST)
           code == prl.data[count]
       IN  IF count > Len(prl.data)
           THEN pc' = "lease" /\ UNCHANGED <<count, replyOpts, memVars>>
           ELSE IF ~prl.ok
           THEN pc' = "nullDeref" /\ UNCHANGED <<count, replyOpts, memVars>>
           ELSE IF code \notin DOMAIN Answers
           THEN count' = count + 1 /\ UNCHANGED <<pc, replyOpts, memVars>>
           ELSE \E m \in Malloc(heap) : \E n \in Malloc(m.heap) :
                  /\ replyOpts' = IF n.ok
                                  THEN Append(replyOpts, createOption(code, Answers[code], m))
                                  ELSE replyOpts
                  /\ count' = count + 1
                  /\ heap' = n.heap
                  /\ oom' = (oom \/ ~m.ok \/ ~n.ok)
                  /\ UNCHANGED pc
    /\ UNCHANGED <<sock, rxq, msgVars, kind, hdr, replyPtr, returnStatus, acks, httpResumed>>

(* The value the switch assigns to returnStatus for a handler that worked. *)
StatusOf(k) == IF k = DHCP_ACK THEN 2 ELSE 1

(* The end of a handler: the lease time option, then serializeOptionList,  *)
(* which copies from a NULL data pointer when a createOption had failed.   *)
(* When the option cannot be appended the handler returns 0 and the switch *)
(* assigns nothing.                                                        *)
FinishReply ==
    /\ pc = "lease"
    /\ \E m \in Malloc(heap) : \E n \in Malloc(m.heap) :
         LET lease == createOption(IP_ADDRESS_LEASE_TIME, infLeaseTime, m)
             list  == Append(replyOpts, lease)
         IN  /\ heap' = n.heap
             /\ oom' = (oom \/ ~m.ok \/ ~n.ok)
             /\ IF ~n.ok
                THEN pc' = "reply" /\ UNCHANGED <<replyOpts, hdr, returnStatus>>
                ELSE /\ replyOpts' = list
                     /\ IF \E i \in DOMAIN list : ~list[i].ok
                        THEN pc' = "nullDeref" /\ UNCHANGED <<hdr, returnStatus>>
                        ELSE /\ pc' = "reply"
                             /\ hdr' = [hdr EXCEPT !.wire =
                                          [i \in DOMAIN list |-> OptionOf(list[i])]]
                             /\ returnStatus' = StatusOf(kind)
    /\ UNCHANGED <<sock, rxq, msgVars, kind, replyPtr, count, acks, httpResumed>>

(* A header whose options area says DHCPACK.                               *)
IsAck(h) == h.wire # <<>> /\ h.wire[1] = [id |-> DHCP_MESSAGE_TYPE, data |-> <<DHCP_ACK>>]

(* sendDhcpReply, when returnStatus is not 0: a broadcast that sendto may  *)
(* refuse; the error is only printed.                                      *)
sendDhcpReply ==
    /\ pc = "reply"
    /\ \E sent \in BOOLEAN :
         acks' = IF returnStatus # 0 /\ sent /\ IsAck(hdr)
                 THEN Append(acks, hdr.to) ELSE acks
    /\ pc' = "clean"
    /\ UNCHANGED <<sock, rxq, msgVars, replyVars, returnStatus, memVars, httpResumed>>

(* What dhcpTask does with the value dhcpListener returned.                *)
(* (Fault variants: the test is "== 1", or any non-zero value.)            *)
AfterListenerOffer(status) == IF status = 1 THEN "close" ELSE "call"
AfterListenerAny(status) == IF status # 0 THEN "close" ELSE "call"
AfterListener(status) == IF status = 2 THEN "close" ELSE "call"

(* The two deleteOptionList calls and the return of dhcpListener.          *)
deleteOptionLists ==
    /\ pc = "clean"
    /\ pc' = IF replyPtr = "wild" THEN "wildFree" ELSE AfterListener(returnStatus)
    /\ heap' = heap - deleteOptionList(reqOpts) - deleteOptionList(replyOpts)
    /\ req' = NoReq /\ pos' = 1 /\ reqOpts' = <<>>
    /\ replyPtr' = "null" /\ replyOpts' = <<>> /\ kind' = 0 /\ count' = 1
    /\ UNCHANGED <<sock, rxq, hdr, returnStatus, oom, acks, httpResumed>>

(* closeApplication, its result ignored: the mailbox goes with the socket. *)
closeApplication ==
    /\ pc = "close"
    /\ pc' = "resume"
    /\ \/ sock' = "closed" /\ rxq' = <<>>
       \/ UNCHANGED <<sock, rxq>>
    /\ UNCHANGED <<msgVars, replyVars, returnStatus, memVars, acks, httpResumed>>

(* vTaskResume(httpPostHandler); vTaskSuspend(DhcpHandler).  No code        *)
(* resumes dhcpTask again.                                                 *)
ResumeHttp ==
    /\ pc = "resume"
    /\ pc' = "suspend"
    /\ httpResumed' = TRUE
    /\ UNCHANGED <<sock, rxq, msgVars, replyVars, returnStatus, memVars, acks>>

(* (Fault variant: dhcpTask does not suspend itself and listens again.)    *)
KeepListening ==
    /\ pc = "suspend"
    /\ pc' = "call"
    /\ UNCHANGED <<sock, rxq, msgVars, replyVars, returnStatus, memVars, acks, httpResumed>>
SuspendSelf ==
    /\ pc = "suspend"
    /\ pc' = "suspended"
    /\ UNCHANGED <<sock, rxq, msgVars, replyVars, returnStatus, memVars, acks, httpResumed>>

dhcpListener ==
    \/ EnterListener \/ PollEmpty \/ Receive \/ ParseRound \/ Dispatch
    \/ fillDhcpPacket \/ answerClientRequest \/ FinishReply
    \/ sendDhcpReply \/ deleteOptionLists

dhcpTask ==
    \/ start_application \/ dhcpListener
    \/ closeApplication \/ ResumeHttp \/ SuspendSelf

(* The task does not run any more (suspended, or beyond the model).        *)
Halted == pc \in Stopped /\ UNCHANGED vars

Next == dhcpTask \/ (\E d \in Datagrams : Arrive(d)) \/ Halted

Spec == Init /\ [][Next]_vars

(* dhcpTask shares priority 1 with busy tasks and is time-sliced with them. *)
FairSpec == Spec /\ WF_vars(dhcpTask)

-----------------------------------------------------------------------------
(* Type invariant: every variable holds what its C counterpart can hold.   *)
TypeOK ==
    /\ pc \in {"start", "call", "recv", "parse", "dispatch", "fill", "answer", "lease",
               "reply", "clean", "close", "resume", "suspend"} \union Stopped
    /\ sock \in {"none", "open", "bound", "closed"}
    /\ rxq \in Seq(Datagrams) /\ Len(rxq) <= MaxQueue
    /\ req \in Datagrams \union {NoReq}
    /\ pos \in Nat \ {0}
    /\ reqOpts \in Seq(Node)
    /\ kind \in {0, DHCP_OFFER, DHCP_ACK}
    /\ hdr \in [to : Clients \union {NoClient}, wire : Seq(Option)]
    /\ replyPtr \in {"null", "live", "wild"}
    /\ replyOpts \in Seq(Node)
    /\ count \in Nat \ {0}
    /\ returnStatus \in StackGarbage \union {1, 2}
    /\ heap \in Int
    /\ oom \in BOOLEAN
    /\ acks \in Seq(Clients)
    /\ httpResumed \in BOOLEAN

(* One address, one infinite lease: over the whole life of the server at   *)
(* most one DHCPACK is sent, whatever the uninitialised returnStatus and   *)
(* the stale reply header of dhcpListener hold and whichever mallocs fail. *)
AtMostOneAck == Len(acks) <= 1

(* The server implements AddressGrant: one grant, none after the hand-off  *)
(* to the HTTP task (main.c 53-58).                                        *)
Abstract == INSTANCE AddressGrant WITH grants <- acks, handed <- httpResumed
GrantSpec == Abstract!GSpec

(* dhcpListener never leaves its loop by the break after                   *)
(* checkValidIpv4Addr, the path on which it returns no value.              *)
NeverFallsOffEnd == pc # "fellOff"

(* The HTTP task is only resumed after a complete DHCPACK was built and    *)
(* handed to sendto, if the stack garbage that returnStatus starts from is *)
(* never 2.                                                                *)
HandoffAfterLease == httpResumed => IsAck(hdr)

(* Blocks that are allocated and that no list of the listener holds.       *)
Lost == heap - Blocks(reqOpts) - Blocks(replyOpts) - (IF pc = "parse" THEN 1 ELSE 0)

(* Blocks are lost on two paths only: a request without message type, and  *)
(* an appendOptionToList that could not allocate its node.  No block is    *)
(* ever freed twice (Lost never decreases).                                *)
LossStep ==
    \/ Lost' = Lost
    \/ /\ Lost' > Lost
       /\ \/ pc = "dispatch" /\ ~HasOption(reqOpts, DHCP_MESSAGE_TYPE)
          \/ pc \in {"answer", "lease"} /\ replyOpts' = replyOpts
LostOnKnownPathsOnly == [][LossStep]_vars

(* The parameters of asked[1..k] that the server knows.                    *)
KnownOf(asked) ==
    LET known[k \in 0..Len(asked)] ==
          IF k = 0 THEN <<>>
          ELSE IF asked[k] \in {SUBNET_MASK, ROUTER} THEN Append(known[k - 1], asked[k])
          ELSE known[k - 1]
    IN  known
AskedFor(opts) ==
    IF HasOption(opts, PARAMETER_REQUEST_LIST)
    THEN seachForOption(opts, PARAMETER_REQUEST_LIST).data ELSE <<>>

(* The reply to a message of type t (DISCOVER or REQUEST): its own type,   *)
(* the known parameters in the order the client listed them, the lease.    *)
ReplyTo(t, opts) ==
    LET known == KnownOf(AskedFor(opts))[Len(AskedFor(opts))]
    IN  << [id |-> DHCP_MESSAGE_TYPE,
            data |-> <<IF t = DHCP_DISCOVER THEN DHCP_OFFER ELSE DHCP_ACK>>] >>
        \o [i \in DOMAIN known |->
              [id |-> known[i], data |-> IF known[i] = SUBNET_MASK THEN netmask ELSE gw]]
        \o << [id |-> IP_ADDRESS_LEASE_TIME, data |-> infLeaseTime] >>

(* What is broadcast answers the request in hand: it is addressed to that  *)
(* client, and as long as no malloc has failed it carries exactly the      *)
(* reply options of that request.  (With a stack that holds zeros.)        *)
ReplyAnswersRequest ==
    pc = "reply" /\ returnStatus # 0 =>
        /\ hdr.to = req.client
        /\ ~oom => \E t \in TypeBytes(seachForOption(req.opts, DHCP_MESSAGE_TYPE)) :
                      /\ t \in {DHCP_DISCOVER, DHCP_REQUEST}
                      /\ returnStatus = IF t = DHCP_DISCOVER THEN 1 ELSE 2
                      /\ hdr.wire = ReplyTo(t, req.opts)

(* The first malloc that fails does so after blocks were lost: a heap that *)
(* suffices for one request suffices for any number of them.               *)
ExhaustedOnlyByLoss == [][~oom /\ oom' => Lost > 0]_vars

(* Even when mallocs fail and the same option is parsed again and again,   *)
(* parseDhcpOptionList ends.                                               *)
ParseEnds == pc = "parse" ~> pc # "parse"

(* A DHCPREQUEST that reached the mailbox ends the service: the HTTP task  *)
(* is resumed, unless the heap was exhausted first.                        *)
IsRequest(d) ==
    /\ ~Rejected(d)
    /\ HasOption(d.opts, DHCP_MESSAGE_TYPE)
    /\ seachForOption(d.opts, DHCP_MESSAGE_TYPE).data = <<DHCP_REQUEST>>
RequestEndsService ==
    (\E i \in DOMAIN rxq : IsRequest(rxq[i])) ~> (pc = "suspended" \/ oom)

-----------------------------------------------------------------------------
(* What comments of the code say of it.                                    *)

(* options.c:17 "used for release the allocated memory for dhcp option     *)
(* linked list": deleteOptionList is only given lists that were allocated. *)
FreesOnlyAllocatedLists == pc # "wildFree"
=============================================================================
