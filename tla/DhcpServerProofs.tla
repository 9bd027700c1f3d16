-------------------------- MODULE DhcpServerProofs --------------------------
(***************************************************************************)
(* Theorems about DhcpServer for every set of clients and datagrams, every *)
(* mailbox and heap size, and every content of the uninitialised stack.    *)
(***************************************************************************)
EXTENDS DhcpServer, FiniteSetTheorems, SequenceTheorems, WellFoundedInduction, TLAPS

(* The states in which a complete DHCPACK may sit in replyMsg.hdr.          *)
AfterAck == {"reply", "clean", "close", "resume", "suspend", "suspended", "wildFree"}

(* While a request is parsed and answered, requestMsg.hdr is a datagram    *)
(* and the parser stands on one of its options.                            *)
RequestInv ==
    /\ pc \in {"parse", "dispatch", "fill"} => req \in Datagrams
    /\ pc = "parse" => pos <= Len(req.opts)

(* Inside a handler the reply list starts with the handler's own type and  *)
(* the reply is addressed to a client.                                     *)
HandlerInv ==
    /\ pc \in {"fill", "answer", "lease"} => kind \in {DHCP_OFFER, DHCP_ACK}
    /\ pc \in {"answer", "lease"} =>
         /\ hdr.to \in Clients
         /\ replyOpts # <<>>
         /\ replyOpts[1].id = DHCP_MESSAGE_TYPE
         /\ replyOpts[1].data = <<kind>>

(* A complete DHCPACK only exists on the way out of the listener, with 2   *)
(* as the value to return: the header that a later call finds on the stack *)
(* is never a DHCPACK.                                                     *)
AckInv ==
    IsAck(hdr) => hdr.to \in Clients /\ returnStatus = 2 /\ pc \in AfterAck

(* A DHCPACK was sent at most once, and after it the task only goes on to  *)
(* hand over; it has handed over when httpResumed says so.                 *)
GrantInv ==
    /\ Len(acks) <= 1
    /\ acks # <<>> => IsAck(hdr) /\ pc # "reply"
    /\ httpResumed => pc \in {"suspend", "suspended"}

Inv == TypeOK /\ RequestInv /\ HandlerInv /\ AckInv /\ GrantInv

-----------------------------------------------------------------------------
(* What one malloc does to the block count.                                *)
LEMMA MallocOutcome ==
    ASSUME NEW h \in Int, NEW m \in Malloc(h)
    PROVE  /\ m.ok \in BOOLEAN
           /\ m.heap = IF m.ok THEN h + 1 ELSE h
           /\ m.heap \in Int
BY DEF Malloc

(* deleteOptionList frees a natural number of blocks.                      *)
LEMMA FreedIsNatural ==
    ASSUME NEW list \in Seq(Node)
    PROVE  deleteOptionList(list) \in Nat
<1>1. IsFiniteSet(DOMAIN list)
  BY FS_Interval
<1>2. IsFiniteSet({i \in DOMAIN list : list[i].ok})
  BY <1>1, FS_Subset
<1>3. Cardinality({i \in DOMAIN list : list[i].ok}) \in Nat
  BY <1>2, FS_CardinalityType
<1> QED
  BY <1>3 DEF deleteOptionList

(* An option created from bytes is a node of an option list.               *)
LEMMA NodeType ==
    ASSUME NEW code \in Byte, NEW value \in Seq(Byte), NEW h \in Int, NEW m \in Malloc(h)
    PROVE  createOption(code, value, m) \in Node
BY MallocOutcome DEF createOption, Node

(* A cleared header is not a DHCPACK.                                      *)
LEMMA JunkIsNoAck == /\ ~IsAck(Junk)
                     /\ Junk \in [to : Clients \union {NoClient}, wire : Seq(Option)]
BY DEF IsAck, Junk

(* The initial states.                                                     *)
LEMMA InitInv == Init => Inv
<1> SUFFICES ASSUME Init PROVE Inv
  OBVIOUS
<1> USE ConstantsAssumption DEF Init
<1>0. oom \in BOOLEAN /\ httpResumed \in BOOLEAN
  OBVIOUS
<1>1. TypeOK
  BY <1>0, JunkIsNoAck DEF TypeOK, Stopped
<1>2. RequestInv /\ HandlerInv
  BY DEF RequestInv, HandlerInv
<1>3. AckInv /\ GrantInv
  BY JunkIsNoAck DEF AckInv, GrantInv
<1> QED
  BY <1>1, <1>2, <1>3 DEF Inv

-----------------------------------------------------------------------------
(* Polling an empty mailbox, and a task that does not run, change nothing. *)
LEMMA StutterStep == Inv /\ UNCHANGED vars => Inv'
<1> SUFFICES ASSUME Inv, UNCHANGED vars PROVE Inv'
  OBVIOUS
<1> USE DEF Inv, vars, msgVars, replyVars, memVars
<1>1. TypeOK'
  BY DEF TypeOK
<1>2. RequestInv' /\ HandlerInv'
  BY DEF RequestInv, HandlerInv
<1>3. AckInv' /\ GrantInv'
  BY DEF AckInv, GrantInv, IsAck
<1> QED
  BY <1>1, <1>2, <1>3

(* The actions, one lemma each.  The first: those that leave the request,  *)
(* the reply and the memory alone.                                         *)
LEMMA ControlStep ==
    ASSUME Inv,
           \/ start_application \/ PollEmpty \/ closeApplication
           \/ ResumeHttp \/ SuspendSelf \/ (\E d \in Datagrams : Arrive(d)) \/ Halted
    PROVE  Inv'
<1> USE ConstantsAssumption DEF Inv, msgVars, replyVars, memVars
<1>1. CASE start_application
  <2>1. TypeOK' /\ RequestInv' /\ HandlerInv'
    BY <1>1 DEF start_application, TypeOK, Stopped, RequestInv, HandlerInv
  <2>2. AckInv' /\ GrantInv'
    BY <1>1 DEF start_application, AckInv, GrantInv, AfterAck, IsAck
  <2> QED BY <2>1, <2>2
<1>2. CASE PollEmpty \/ Halted
  BY <1>2, StutterStep DEF PollEmpty, Halted
<1>3. CASE closeApplication
  <2>0. /\ rxq' \in Seq(Datagrams)
        /\ Len(rxq') <= MaxQueue
        /\ sock' \in {"none", "open", "bound", "closed"}
        /\ pc' = "resume"
        /\ UNCHANGED <<msgVars, replyVars, returnStatus, memVars, acks, httpResumed>>
    <3>1. CASE sock' = "closed" /\ rxq' = <<>>
      BY <1>3, <3>1 DEF closeApplication, TypeOK
    <3>2. CASE UNCHANGED <<sock, rxq>>
      BY <1>3, <3>2 DEF closeApplication, TypeOK
    <3> QED BY <1>3, <3>1, <3>2 DEF closeApplication
  <2>1. TypeOK' /\ RequestInv' /\ HandlerInv'
    BY <2>0 DEF TypeOK, Stopped, RequestInv, HandlerInv
  <2>2. AckInv' /\ GrantInv'
    BY <1>3 DEF closeApplication, AckInv, GrantInv, AfterAck, IsAck
  <2> QED BY <2>1, <2>2
<1>4. CASE ResumeHttp
  <2>0. httpResumed' \in BOOLEAN
    BY <1>4 DEF ResumeHttp
  <2>1. TypeOK' /\ RequestInv' /\ HandlerInv'
    BY <1>4, <2>0 DEF ResumeHttp, TypeOK, Stopped, RequestInv, HandlerInv
  <2>2. AckInv' /\ GrantInv'
    BY <1>4 DEF ResumeHttp, AckInv, GrantInv, AfterAck, IsAck
  <2> QED BY <2>1, <2>2
<1>5. CASE SuspendSelf
  <2>1. TypeOK' /\ RequestInv' /\ HandlerInv'
    BY <1>5 DEF SuspendSelf, TypeOK, Stopped, RequestInv, HandlerInv
  <2>2. AckInv' /\ GrantInv'
    BY <1>5 DEF SuspendSelf, AckInv, GrantInv, AfterAck, IsAck
  <2> QED BY <2>1, <2>2
<1>6. ASSUME NEW d \in Datagrams, Arrive(d) PROVE Inv'
  <2>1. rxq' \in Seq(Datagrams) /\ Len(rxq') <= MaxQueue
    BY <1>6 DEF Arrive, MailboxFull, TypeOK
  <2>2. TypeOK' /\ RequestInv' /\ HandlerInv' /\ AckInv' /\ GrantInv'
    BY <1>6, <2>1 DEF Arrive, TypeOK, RequestInv, HandlerInv, AckInv, GrantInv, IsAck
  <2> QED BY <2>2
<1> QED
  BY <1>1, <1>2, <1>3, <1>4, <1>5, <1>6

(* The call finds the old header or junk: never a DHCPACK.                 *)
LEMMA EnterStep == Inv /\ EnterListener => Inv'
<1> SUFFICES ASSUME Inv, EnterListener PROVE Inv'
  OBVIOUS
<1> USE ConstantsAssumption DEF Inv, EnterListener, msgVars, memVars
<1>1. ~IsAck(hdr)
  BY DEF AckInv, AfterAck
<1>2. ~IsAck(hdr')
  BY <1>1, JunkIsNoAck
<1>3. TypeOK' /\ RequestInv' /\ HandlerInv'
  BY JunkIsNoAck DEF TypeOK, Stopped, RequestInv, HandlerInv
<1>4. AckInv' /\ GrantInv'
  BY <1>1, <1>2 DEF AckInv, GrantInv
<1> QED
  BY <1>3, <1>4

(* A datagram is dropped, or becomes the request in hand.                  *)
LEMMA ReceiveStep == Inv /\ Receive => Inv'
<1> SUFFICES ASSUME Inv, Receive PROVE Inv'
  OBVIOUS
<1> USE ConstantsAssumption DEF Inv, Receive, msgVars, memVars, replyVars
<1> DEFINE d == Head(rxq)
<1>1. d \in Datagrams /\ d.opts \in Seq(Option)
  BY DEF TypeOK, Datagram
<1>2. rxq' \in Seq(Datagrams) /\ Len(rxq') <= MaxQueue
  BY DEF TypeOK
<1>3. ~IsAck(hdr) /\ UNCHANGED <<hdr, acks, httpResumed, returnStatus>>
  BY DEF AckInv, AfterAck
<1>4. AckInv' /\ GrantInv'
  BY <1>3 DEF AckInv, GrantInv, IsAck
<1>5. TypeOK' /\ RequestInv' /\ HandlerInv'
  <2>1. CASE checkValidIpv4Addr(d.src)
    BY <2>1, <1>2 DEF TypeOK, Stopped, Undefined, RequestInv, HandlerInv
  <2>2. CASE ~checkValidIpv4Addr(d.src) /\ (Rejected(d) \/ d.opts = <<>>)
    BY <2>2, <1>2 DEF TypeOK, RequestInv, HandlerInv
  <2>3. CASE ~checkValidIpv4Addr(d.src) /\ ~(Rejected(d) \/ d.opts = <<>>)
    <3>1. PICK m \in Malloc(heap) :
                /\ pc' = IF m.ok THEN "parse" ELSE "nullDeref"
                /\ req' = d
                /\ pos' = 1
                /\ UNCHANGED reqOpts
                /\ heap' = m.heap
                /\ oom' = (oom \/ ~m.ok)
      BY <2>3
    <3>2. heap' \in Int
      BY <3>1, MallocOutcome DEF TypeOK
    <3>3. oom' \in BOOLEAN
      BY <3>1
    <3>4. TypeOK'
      BY <3>1, <3>2, <3>3, <1>1, <1>2 DEF TypeOK, Stopped, Undefined
    <3>5. RequestInv' /\ HandlerInv'
      BY <3>1, <1>1, <2>3 DEF RequestInv, HandlerInv
    <3> QED BY <3>4, <3>5
  <2> QED BY <2>1, <2>2, <2>3
<1> QED
  BY <1>4, <1>5

(* A round of parseDhcpOptionList appends one node.                        *)
LEMMA ParseStep == Inv /\ ParseRound => Inv'
<1> SUFFICES ASSUME Inv, ParseRound PROVE Inv'
  OBVIOUS
<1> USE ConstantsAssumption DEF Inv, msgVars, memVars, replyVars
<1>1. PICK m \in Malloc(heap) : StoreOption(m)
  BY DEF ParseRound
<1>2. pc = "parse" /\ req \in Datagrams /\ pos \in 1..Len(req.opts) /\ req.opts \in Seq(Option)
  BY DEF ParseRound, RequestInv, TypeOK, Datagram
<1> DEFINE opt == req.opts[pos]
           next == IF m.ok THEN pos + 1 ELSE pos
<1>3. m.ok \in BOOLEAN /\ m.heap \in Int
  BY MallocOutcome DEF TypeOK
<1>4. reqOpts' \in Seq(Node)
  <2>1. opt \in Option
    BY <1>2
  <2>2. opt.id \in Byte /\ opt.data \in Seq(Byte)
    BY <2>1 DEF Option
  <2>3. createOption(opt.id, opt.data, m) \in Node
    BY <2>2, NodeType DEF TypeOK
  <2> QED
    BY <1>1, <2>3 DEF StoreOption, TypeOK
<1>5. pos' = next /\ pos' \in Nat \ {0}
  BY <1>1, <1>2, <1>3 DEF StoreOption
<1>6. UNCHANGED <<sock, rxq, req, replyVars, returnStatus, acks, httpResumed>>
  BY <1>1 DEF StoreOption
<1>7. /\ heap' \in Int
      /\ oom' \in BOOLEAN
      /\ pc' = "dispatch" \/ (pc' = "parse" /\ pos' <= Len(req.opts))
  <2>1. CASE next > Len(req.opts)
    BY <2>1, <1>1, <1>3 DEF StoreOption
  <2>2. CASE ~(next > Len(req.opts))
    <3>1. PICK n \in Malloc(m.heap) :
             /\ pc' = IF n.ok THEN "parse" ELSE "dispatch"
             /\ heap' = n.heap
             /\ oom' = (oom \/ ~m.ok \/ ~n.ok)
      BY <2>2, <1>1 DEF StoreOption
    <3>2. heap' \in Int
      BY <3>1, <1>3, MallocOutcome
    <3>3. oom' \in BOOLEAN
      BY <3>1
    <3>4. next <= Len(req.opts)
      BY <2>2, <1>2
    <3> QED
      BY <3>1, <3>2, <3>3, <3>4, <1>5
  <2> QED
    BY <2>1, <2>2
<1>8. TypeOK'
  BY <1>4, <1>5, <1>6, <1>7 DEF TypeOK, Stopped
<1>9. RequestInv' /\ HandlerInv'
  BY <1>2, <1>6, <1>7 DEF RequestInv, HandlerInv
<1>10. AckInv' /\ GrantInv'
  BY <1>2, <1>6, <1>7 DEF AckInv, AfterAck, GrantInv, IsAck
<1> QED
  BY <1>8, <1>9, <1>10

(* The switch: kind is the type of a reply to be built, or none.           *)
LEMMA DispatchStep == Inv /\ Dispatch => Inv'
<1> SUFFICES ASSUME Inv, Dispatch PROVE Inv'
  OBVIOUS
<1> USE ConstantsAssumption DEF Inv, msgVars, memVars
<1> DEFINE type == seachForOption(reqOpts, DHCP_MESSAGE_TYPE)
<1>1. /\ pc = "dispatch"
      /\ UNCHANGED <<sock, rxq, hdr, replyPtr, replyOpts, count, returnStatus,
                     heap, oom, acks, httpResumed>>
  BY DEF Dispatch
<1>2. \/ pc' = "recv" /\ req' = NoReq /\ pos' = 1 /\ reqOpts' = <<>> /\ UNCHANGED kind
      \/ pc' = "nullDeref" /\ UNCHANGED <<req, pos, reqOpts, kind>>
      \/ pc' = "reply" /\ kind' = 0 /\ UNCHANGED <<req, pos, reqOpts>>
      \/ pc' = "fill" /\ kind' \in {DHCP_OFFER, DHCP_ACK} /\ UNCHANGED <<req, pos, reqOpts>>
  <2>1. CASE ~HasOption(reqOpts, DHCP_MESSAGE_TYPE)
    BY <2>1 DEF Dispatch
  <2>2. CASE HasOption(reqOpts, DHCP_MESSAGE_TYPE) /\ ~type.ok
    BY <2>2 DEF Dispatch
  <2>3. CASE HasOption(reqOpts, DHCP_MESSAGE_TYPE) /\ type.ok
    <3>1. PICK b \in TypeBytes(type) :
             /\ kind' = HandlerOf(b)
             /\ pc' = IF HandlerOf(b) = 0 THEN "reply" ELSE "fill"
      BY <2>3 DEF Dispatch
    <3>2. HandlerOf(b) \in {0, DHCP_OFFER, DHCP_ACK}
      BY DEF HandlerOf
    <3> QED
      BY <2>3, <3>1, <3>2 DEF Dispatch
  <2> QED
    BY <2>1, <2>2, <2>3
<1>3. TypeOK'
  <2>1. /\ req' \in Datagrams \union {NoReq}
        /\ pos' \in Nat \ {0}
        /\ reqOpts' \in Seq(Node)
    <3>1. CASE req' = NoReq /\ pos' = 1 /\ reqOpts' = <<>>
      BY <3>1
    <3>2. CASE UNCHANGED <<req, pos, reqOpts>>
      BY <3>2 DEF TypeOK
    <3> QED
      BY <1>2, <3>1, <3>2
  <2>2. kind' \in {0, DHCP_OFFER, DHCP_ACK}
    BY <1>2 DEF TypeOK
  <2>3. pc' \in {"recv", "reply", "fill", "nullDeref"}
    BY <1>2
  <2> QED
    BY <1>1, <2>1, <2>2, <2>3 DEF TypeOK, Stopped, Undefined
<1>4. RequestInv' /\ HandlerInv'
  BY <1>1, <1>2 DEF RequestInv, HandlerInv
<1>5. AckInv' /\ GrantInv'
  BY <1>1, <1>2 DEF AckInv, AfterAck, GrantInv, IsAck
<1> QED
  BY <1>3, <1>4, <1>5

(* fillDhcpPacket clears the options area: no DHCPACK yet.                 *)
LEMMA FillStep == Inv /\ fillDhcpPacket => Inv'
<1> SUFFICES ASSUME Inv, fillDhcpPacket PROVE Inv'
  OBVIOUS
<1> USE ConstantsAssumption DEF Inv, msgVars, memVars
<1>1. /\ pc = "fill"
      /\ UNCHANGED <<sock, rxq, msgVars, kind, returnStatus, acks, httpResumed>>
  BY DEF fillDhcpPacket
<1>2. kind \in {DHCP_OFFER, DHCP_ACK} /\ req.client \in Clients
  BY <1>1 DEF HandlerInv, RequestInv, Datagram
<1>3. ~IsAck(hdr) /\ acks = <<>> /\ ~httpResumed
  BY <1>1 DEF AckInv, AfterAck, GrantInv
<1>4. PICK n \in Malloc(heap) : \E m \in Malloc(n.heap) :
         IF ~n.ok
         THEN /\ pc' = "nullDeref" /\ heap' = n.heap /\ oom' = TRUE
              /\ UNCHANGED <<hdr, replyPtr, replyOpts, count>>
         ELSE /\ hdr' = [to |-> req.client, wire |-> <<>>]
              /\ replyPtr' = "live"
              /\ replyOpts' = <<createOption(DHCP_MESSAGE_TYPE, <<kind>>, m)>>
              /\ count' = 1
              /\ heap' = m.heap
              /\ oom' = (oom \/ ~m.ok)
              /\ pc' = IF HasOption(reqOpts, PARAMETER_REQUEST_LIST)
                       THEN "answer" ELSE "lease"
  BY DEF fillDhcpPacket
<1>5. n.heap \in Int
  BY MallocOutcome DEF TypeOK
<1>6. CASE ~n.ok
  <2>1. /\ pc' = "nullDeref" /\ heap' = n.heap /\ oom' = TRUE
        /\ UNCHANGED <<hdr, replyPtr, replyOpts, count>>
    BY <1>4, <1>6
  <2>2. oom' \in BOOLEAN
    BY <2>1
  <2>3. TypeOK' /\ RequestInv' /\ HandlerInv'
    BY <1>1, <1>5, <2>1, <2>2 DEF TypeOK, Stopped, Undefined, RequestInv, HandlerInv
  <2>4. AckInv' /\ GrantInv'
    BY <1>1, <1>3, <2>1 DEF AckInv, GrantInv, IsAck
  <2> QED
    BY <2>3, <2>4
<1>7. CASE n.ok
  <2>1. PICK m \in Malloc(n.heap) :
              /\ hdr' = [to |-> req.client, wire |-> <<>>]
              /\ replyPtr' = "live"
              /\ replyOpts' = <<createOption(DHCP_MESSAGE_TYPE, <<kind>>, m)>>
              /\ count' = 1
              /\ heap' = m.heap
              /\ oom' = (oom \/ ~m.ok)
              /\ pc' = IF HasOption(reqOpts, PARAMETER_REQUEST_LIST)
                       THEN "answer" ELSE "lease"
    BY <1>4, <1>7
  <2>2. oom' \in BOOLEAN
    BY <2>1
  <2>3. heap' \in Int
    BY <2>1, <1>5, MallocOutcome
  <2>4. createOption(DHCP_MESSAGE_TYPE, <<kind>>, m) \in Node
    <3>1. DHCP_MESSAGE_TYPE \in Byte /\ <<kind>> \in Seq(Byte)
      BY <1>2 DEF DHCP_MESSAGE_TYPE, Byte, DHCP_OFFER, DHCP_ACK
    <3> QED
      BY <3>1, <1>5, NodeType
  <2>5. /\ replyOpts' \in Seq(Node)
        /\ replyOpts' # <<>>
        /\ replyOpts'[1].id = DHCP_MESSAGE_TYPE
        /\ replyOpts'[1].data = <<kind>>
    BY <2>1, <2>4 DEF createOption
  <2>6. hdr' \in [to : Clients \union {NoClient}, wire : Seq(Option)] /\ hdr'.to \in Clients
    BY <2>1, <1>2
  <2>7. TypeOK'
    BY <1>1, <2>1, <2>2, <2>3, <2>5, <2>6 DEF TypeOK, Stopped
  <2>8. RequestInv' /\ HandlerInv'
    BY <1>1, <1>2, <2>1, <2>5, <2>6 DEF RequestInv, HandlerInv
  <2>9. AckInv' /\ GrantInv'
    BY <1>1, <1>3, <2>1 DEF AckInv, GrantInv, IsAck
  <2> QED
    BY <2>7, <2>8, <2>9
<1> QED
  BY <1>6, <1>7

(* The parameters the server knows are bytes with byte values.             *)
LEMMA AnswersAreOptions ==
    ASSUME NEW c \in DOMAIN Answers
    PROVE  c \in Byte /\ Answers[c] \in Seq(Byte)
<1>1. netmask \in Seq(Byte)
  BY DEF netmask, Byte
<1>2. gw \in Seq(Byte)
  BY DEF gw, Byte
<1>3. c \in {SUBNET_MASK, ROUTER}
  BY DEF Answers
<1>4. Answers[c] = IF c = SUBNET_MASK THEN netmask ELSE gw
  BY <1>3 DEF Answers
<1>5. c \in Byte
  BY <1>3 DEF SUBNET_MASK, ROUTER, Byte
<1> QED
  BY <1>1, <1>2, <1>4, <1>5

(* The answers are options, and appending keeps the head of the list.      *)
LEMMA AnswerStep == Inv /\ answerClientRequest => Inv'
<1> SUFFICES ASSUME Inv, answerClientRequest PROVE Inv'
  OBVIOUS
<1> USE ConstantsAssumption DEF Inv, msgVars, memVars
<1>1. /\ pc = "answer"
      /\ UNCHANGED <<sock, rxq, msgVars, kind, hdr, replyPtr, returnStatus, acks, httpResumed>>
  BY DEF answerClientRequest
<1> DEFINE prl == seachForOption(reqOpts, PARAMETER_REQUEST_LIST)
           code == prl.data[count]
<1>2. /\ pc' \in {"answer", "lease", "nullDeref"}
      /\ count' \in Nat \ {0}
      /\ replyOpts' \in Seq(Node)
      /\ replyOpts' # <<>>
      /\ replyOpts'[1] = replyOpts[1]
      /\ heap' \in Int
      /\ oom' \in BOOLEAN
  <2>1. replyOpts # <<>> /\ replyOpts \in Seq(Node) /\ count \in Nat \ {0} /\ heap \in Int
                         /\ oom \in BOOLEAN
    BY <1>1 DEF HandlerInv, TypeOK
  <2>2. CASE /\ pc' \in {"answer", "lease", "nullDeref"}
             /\ count' \in {count, count + 1}
             /\ UNCHANGED <<replyOpts, heap, oom>>
    BY <2>1, <2>2
  <2>3. ASSUME NEW m \in Malloc(heap), NEW n \in Malloc(m.heap),
               code \in DOMAIN Answers,
               replyOpts' = IF n.ok
                            THEN Append(replyOpts, createOption(code, Answers[code], m))
                            ELSE replyOpts,
               count' = count + 1,
               heap' = n.heap,
               oom' = (oom \/ ~m.ok \/ ~n.ok),
               UNCHANGED pc
        PROVE  <1>2!1 /\ <1>2!2 /\ <1>2!3 /\ <1>2!4 /\ <1>2!5 /\ <1>2!6 /\ <1>2!7
    <3>1. heap' \in Int
      BY <2>1, <2>3, MallocOutcome
    <3>2. oom' \in BOOLEAN
      BY <2>3
    <3>3. code \in Byte /\ Answers[code] \in Seq(Byte)
      BY <2>3, AnswersAreOptions
    <3>4. createOption(code, Answers[code], m) \in Node
      BY <3>3, <2>1, NodeType
    <3>5. replyOpts' \in Seq(Node) /\ replyOpts' # <<>> /\ replyOpts'[1] = replyOpts[1]
      <4>1. CASE n.ok
        BY <4>1, <2>1, <2>3, <3>4
      <4>2. CASE ~n.ok
        BY <4>2, <2>1, <2>3
      <4> QED
        BY <4>1, <4>2
    <3> QED
      BY <1>1, <2>1, <2>3, <3>1, <3>2, <3>5
  <2>4. CASE count > Len(prl.data)
    BY <2>2, <2>4 DEF answerClientRequest
  <2>5. CASE ~(count > Len(prl.data)) /\ ~prl.ok
    BY <2>2, <2>5 DEF answerClientRequest
  <2> QED
    BY <2>1, <2>2, <2>3, <2>4, <2>5, <1>1 DEF answerClientRequest
<1>3. TypeOK'
  BY <1>1, <1>2 DEF TypeOK, Stopped, Undefined
<1>4. RequestInv' /\ HandlerInv'
  BY <1>1, <1>2 DEF RequestInv, HandlerInv
<1>5. AckInv' /\ GrantInv'
  BY <1>1, <1>2 DEF AckInv, AfterAck, GrantInv, IsAck
<1> QED
  BY <1>3, <1>4, <1>5

(* Serialising puts the handler's own type first, so the reply is a        *)
(* DHCPACK exactly when the switch sets returnStatus to 2.                 *)
LEMMA FinishStep == Inv /\ FinishReply => Inv'
<1> SUFFICES ASSUME Inv, FinishReply PROVE Inv'
  OBVIOUS
<1> USE ConstantsAssumption DEF Inv, msgVars, memVars
<1>1. /\ pc = "lease"
      /\ UNCHANGED <<sock, rxq, msgVars, kind, replyPtr, count, acks, httpResumed>>
  BY DEF FinishReply
<1>2. /\ kind \in {DHCP_OFFER, DHCP_ACK}
      /\ hdr.to \in Clients
      /\ replyOpts \in Seq(Node) /\ replyOpts # <<>>
      /\ replyOpts[1].data = <<kind>>
      /\ hdr \in [to : Clients \union {NoClient}, wire : Seq(Option)]
      /\ heap \in Int
  BY <1>1 DEF HandlerInv, TypeOK
<1>3. ~IsAck(hdr) /\ acks = <<>> /\ ~httpResumed
  BY <1>1 DEF AckInv, AfterAck, GrantInv
<1> DEFINE ListOf(mm) == Append(replyOpts, createOption(IP_ADDRESS_LEASE_TIME, infLeaseTime, mm))
           Outcome(mm, nn) ==
             /\ heap' = nn.heap
             /\ oom' = (oom \/ ~mm.ok \/ ~nn.ok)
             /\ IF ~nn.ok
                THEN pc' = "reply" /\ UNCHANGED <<replyOpts, hdr, returnStatus>>
                ELSE /\ replyOpts' = ListOf(mm)
                     /\ IF \E i \in DOMAIN ListOf(mm) : ~ListOf(mm)[i].ok
                        THEN pc' = "nullDeref" /\ UNCHANGED <<hdr, returnStatus>>
                        ELSE /\ pc' = "reply"
                             /\ hdr' = [hdr EXCEPT !.wire =
                                  [i \in DOMAIN ListOf(mm) |-> OptionOf(ListOf(mm)[i])]]
                             /\ returnStatus' = StatusOf(kind)
<1>a. PICK m \in Malloc(heap) : \E n \in Malloc(m.heap) : Outcome(m, n)
  BY DEF FinishReply
<1>4. PICK n \in Malloc(m.heap) : Outcome(m, n)
  BY <1>a
<1> DEFINE list == ListOf(m)
           wire == [i \in DOMAIN list |-> OptionOf(list[i])]
<1>5. heap' \in Int
  BY <1>2, <1>4, MallocOutcome
<1>6. oom' \in BOOLEAN
  BY <1>4
<1>7. list \in Seq(Node) /\ list # <<>> /\ list[1] = replyOpts[1]
  <2>1. IP_ADDRESS_LEASE_TIME \in Byte /\ infLeaseTime \in Seq(Byte)
    BY DEF IP_ADDRESS_LEASE_TIME, infLeaseTime, Byte
  <2>2. createOption(IP_ADDRESS_LEASE_TIME, infLeaseTime, m) \in Node
    BY <1>2, <2>1, NodeType
  <2> QED
    BY <1>2, <2>2
<1>8. /\ wire \in Seq(Option)
      /\ wire[1].data = <<kind>>
  <2> HIDE DEF list
  <2>1. \A i \in DOMAIN list : OptionOf(list[i]) \in Option
    <3>1. \A x \in Node : OptionOf(x) \in Option
      BY DEF OptionOf, Node, Option
    <3> QED
      BY <1>7, <3>1
  <2>2. Len(list) \in Nat /\ DOMAIN list = 1..Len(list) /\ 1 \in DOMAIN list
    BY <1>7
  <2>3. wire \in Seq(Option)
    BY <2>1, <2>2
  <2>4. wire[1].data = list[1].data
    BY <2>2 DEF OptionOf
  <2> QED
    BY <1>2, <1>7, <2>3, <2>4
<1>9. CASE ~n.ok \/ (\E i \in DOMAIN list : ~list[i].ok)
  <2>1. /\ pc' \in {"reply", "nullDeref"}
        /\ UNCHANGED <<hdr, returnStatus>>
        /\ replyOpts' \in Seq(Node)
    BY <1>2, <1>4, <1>7, <1>9
  <2>2. TypeOK' /\ RequestInv' /\ HandlerInv'
    BY <1>1, <1>5, <1>6, <2>1 DEF TypeOK, Stopped, Undefined, RequestInv, HandlerInv
  <2>3. AckInv' /\ GrantInv'
    BY <1>1, <1>3, <2>1 DEF AckInv, GrantInv, IsAck
  <2> QED
    BY <2>2, <2>3
<1>10. CASE n.ok /\ ~(\E i \in DOMAIN list : ~list[i].ok)
  <2> HIDE DEF wire
  <2>1. /\ pc' = "reply"
        /\ hdr' = [hdr EXCEPT !.wire = wire]
        /\ returnStatus' = StatusOf(kind)
        /\ replyOpts' = list
    BY <1>4, <1>10 DEF wire
  <2>2. /\ hdr' \in [to : Clients \union {NoClient}, wire : Seq(Option)]
        /\ hdr'.to \in Clients
        /\ hdr'.wire = wire
    BY <1>2, <1>8, <2>1
  <2>3. returnStatus' \in {1, 2}
    BY <2>1 DEF StatusOf
  <2>4. replyOpts' \in Seq(Node)
    BY <1>7, <2>1
  <2>5. TypeOK' /\ RequestInv' /\ HandlerInv'
    BY <1>1, <1>5, <1>6, <2>1, <2>2, <2>3, <2>4 DEF TypeOK, Stopped, RequestInv, HandlerInv
  <2>6. IsAck(hdr') => returnStatus' = 2
    <3> SUFFICES ASSUME IsAck(hdr') PROVE returnStatus' = 2
      OBVIOUS
    <3>1. wire[1].data = <<DHCP_ACK>>
      BY <2>2 DEF IsAck
    <3>2. <<kind>> = <<DHCP_ACK>>
      BY <3>1, <1>8
    <3>3. kind = DHCP_ACK
      BY <3>2
    <3> QED
      BY <2>1, <3>3 DEF StatusOf
  <2>7. AckInv' /\ GrantInv'
    BY <1>1, <1>3, <2>1, <2>2, <2>6 DEF AckInv, AfterAck, GrantInv
  <2> QED
    BY <2>5, <2>7
<1> QED
  BY <1>9, <1>10

(* sendDhcpReply: what goes out as a DHCPACK is the first one.             *)
LEMMA SendStep == Inv /\ sendDhcpReply => Inv'
<1> SUFFICES ASSUME Inv, sendDhcpReply PROVE Inv'
  OBVIOUS
<1> USE ConstantsAssumption DEF Inv, msgVars, memVars, replyVars
<1>1. /\ pc = "reply" /\ pc' = "clean"
      /\ UNCHANGED <<sock, rxq, msgVars, replyVars, returnStatus, memVars, httpResumed>>
  BY DEF sendDhcpReply
<1>2. acks = <<>> /\ ~httpResumed
  BY <1>1 DEF GrantInv
<1>3. acks' = <<>> \/ (IsAck(hdr) /\ hdr.to \in Clients /\ acks' = <<hdr.to>>)
  BY <1>2 DEF sendDhcpReply, AckInv
<1>4. acks' \in Seq(Clients) /\ Len(acks') <= 1 /\ (acks' # <<>> => IsAck(hdr))
  <2>1. CASE acks' = <<>>
    BY <2>1
  <2>2. CASE IsAck(hdr) /\ hdr.to \in Clients /\ acks' = <<hdr.to>>
    BY <2>2
  <2> QED
    BY <1>3, <2>1, <2>2
<1>5. TypeOK' /\ RequestInv' /\ HandlerInv'
  BY <1>1, <1>4 DEF TypeOK, Stopped, RequestInv, HandlerInv
<1>6. AckInv' /\ GrantInv'
  BY <1>1, <1>2, <1>4 DEF AckInv, AfterAck, GrantInv, IsAck
<1> QED
  BY <1>5, <1>6

(* The listener returns 2 whenever the header it leaves is a DHCPACK.      *)
LEMMA CleanStep == Inv /\ deleteOptionLists => Inv'
<1> SUFFICES ASSUME Inv, deleteOptionLists PROVE Inv'
  OBVIOUS
<1> USE ConstantsAssumption DEF Inv
<1>1. /\ pc = "clean"
      /\ pc' \in {"wildFree", "close", "call"}
      /\ IsAck(hdr) => pc' \in {"wildFree", "close"}
      /\ UNCHANGED <<sock, rxq, hdr, returnStatus, oom, acks, httpResumed>>
      /\ req' = NoReq /\ pos' = 1 /\ reqOpts' = <<>>
      /\ replyPtr' = "null" /\ replyOpts' = <<>> /\ kind' = 0 /\ count' = 1
  BY DEF deleteOptionLists, AfterListener, AckInv
<1>2. heap' \in Int
  BY FreedIsNatural DEF deleteOptionLists, TypeOK
<1>3. TypeOK'
  BY <1>1, <1>2 DEF TypeOK, Stopped, Undefined
<1>4. RequestInv' /\ HandlerInv'
  BY <1>1 DEF RequestInv, HandlerInv
<1>5. AckInv' /\ GrantInv'
  BY <1>1 DEF AckInv, AfterAck, GrantInv, IsAck
<1> QED
  BY <1>3, <1>4, <1>5

-----------------------------------------------------------------------------
(* Every step of the server preserves the invariant.                       *)
LEMMA NextInv == Inv /\ [Next]_vars => Inv'
BY ControlStep, EnterStep, ReceiveStep, ParseStep, DispatchStep, FillStep, AnswerStep,
   FinishStep, SendStep, CleanStep, StutterStep
   DEF Next, dhcpTask, dhcpListener

(* The inductive invariant holds of every behaviour of the server.         *)
THEOREM Invariance == Spec => []Inv
BY InitInv, NextInv, PTL DEF Spec

(* Every variable keeps its type, whatever the stack holds and whichever   *)
(* mallocs fail.                                                           *)
THEOREM TypeCorrect == Spec => []TypeOK
<1>1. Inv => TypeOK
  BY DEF Inv
<1> QED
  BY <1>1, Invariance, PTL

(* At most one DHCPACK is ever sent, for any set of clients, any traffic,  *)
(* any stack garbage in returnStatus and any pattern of failing mallocs.   *)
THEOREM OneAck == Spec => []AtMostOneAck
<1>1. Inv => AtMostOneAck
  BY DEF Inv, GrantInv, AtMostOneAck
<1> QED
  BY <1>1, Invariance, PTL

-----------------------------------------------------------------------------
(* The server implements the abstract specification AddressGrant, with the *)
(* DHCPACKs sent as its grants: every step grants to a client that has no  *)
(* predecessor and before the hand-off, hands off once, or changes neither. *)
LEMMA GrantStep == Inv /\ Inv' /\ [Next]_vars => [Abstract!GNext]_(Abstract!gvars)
<1> SUFFICES ASSUME Inv, [Next]_vars PROVE [Abstract!GNext]_(Abstract!gvars)
  OBVIOUS
<1> USE DEF Abstract!gvars
<1>1. CASE ResumeHttp
  <2>1. ~httpResumed /\ httpResumed' = TRUE /\ UNCHANGED acks
    BY <1>1 DEF ResumeHttp, Inv, GrantInv
  <2> QED
    BY <2>1 DEF Abstract!GNext, Abstract!HandOff
<1>2. CASE sendDhcpReply
  <2>1. acks = <<>> /\ ~httpResumed /\ UNCHANGED httpResumed
    BY <1>2 DEF sendDhcpReply, Inv, GrantInv
  <2>2. acks' = acks \/ (hdr.to \in Clients /\ acks' = <<hdr.to>>)
    BY <1>2, <2>1 DEF sendDhcpReply, Inv, AckInv
  <2> QED
    BY <2>1, <2>2 DEF Abstract!GNext, Abstract!Grant
<1>3. ASSUME [Next]_vars, ~ResumeHttp, ~sendDhcpReply
      PROVE  UNCHANGED <<acks, httpResumed>>
  BY <1>3 DEF Next, dhcpTask, dhcpListener, start_application, EnterListener, PollEmpty,
     Receive, ParseRound, StoreOption, Dispatch, fillDhcpPacket, answerClientRequest,
     FinishReply, deleteOptionLists, closeApplication, SuspendSelf, Arrive, Halted, vars
<1> QED
  BY <1>1, <1>2, <1>3

(* Refinement: at most one grant, and none after the hand-off, is what the *)
(* detailed server guarantees for every instance.                          *)
THEOREM ImplementsAddressGrant == Spec => GrantSpec
<1>1. Init => Abstract!GInit
  BY DEF Init, Abstract!GInit
<1> QED
  BY <1>1, GrantStep, Invariance, PTL DEF Spec, GrantSpec, Abstract!GSpec

(* checkValidIpv4Addr accepts no address at all: bits 4..11 of a word whose *)
(* low byte is 192 end in 12 (mod 16), and 168 does not.                   *)
LEMMA NoAddressIsValid ==
    ASSUME NEW a \in Byte \X Byte \X Byte \X Byte
    PROVE  ~checkValidIpv4Addr(a)
<1>1. a[1] \in 0..255 /\ a[2] \in 0..255
  BY DEF Byte
<1>2. SUFFICES ASSUME a[1] = 192, SecondByte(a) = 168 PROVE FALSE
  BY DEF checkValidIpv4Addr
<1>3. 192 \div 16 = 12
  OBVIOUS
<1>4. 12 + 16 * (a[2] % 16) = 168
  BY <1>2, <1>3 DEF SecondByte
<1>5. a[2] % 16 \in Int
  BY <1>1
<1> QED
  BY <1>4, <1>5

(* So no datagram makes dhcpListener break out of its loop and fall off    *)
(* its end without a return value.                                         *)
THEOREM ListenerAlwaysReturns == Spec => []NeverFallsOffEnd
<1>1. Init => NeverFallsOffEnd
  BY DEF Init, NeverFallsOffEnd
<1>2. Inv /\ NeverFallsOffEnd /\ [Next]_vars => NeverFallsOffEnd'
  <2> SUFFICES ASSUME Inv, NeverFallsOffEnd, [Next]_vars PROVE NeverFallsOffEnd'
    OBVIOUS
  <2> USE DEF NeverFallsOffEnd
  <2>1. CASE Receive
    <3>1. Head(rxq) \in Datagram
      BY <2>1, ConstantsAssumption DEF Receive, Inv, TypeOK
    <3>2. ~checkValidIpv4Addr(Head(rxq).src)
      BY <3>1, NoAddressIsValid DEF Datagram
    <3> QED
      BY <2>1, <3>2 DEF Receive
  <2>2. CASE ParseRound \/ Dispatch \/ fillDhcpPacket
    BY <2>2 DEF ParseRound, StoreOption, Dispatch, fillDhcpPacket
  <2>3. CASE answerClientRequest \/ FinishReply
    BY <2>3 DEF answerClientRequest, FinishReply
  <2>4. CASE ~(Receive \/ ParseRound \/ Dispatch \/ fillDhcpPacket
               \/ answerClientRequest \/ FinishReply)
    BY <2>4 DEF Next, dhcpTask, dhcpListener, start_application, EnterListener, PollEmpty,
       sendDhcpReply, deleteOptionLists, AfterListener, closeApplication, ResumeHttp,
       SuspendSelf, Arrive, Halted, vars
  <2> QED
    BY <2>1, <2>2, <2>3, <2>4
<1> QED
  BY <1>1, <1>2, Invariance, PTL DEF Spec

-----------------------------------------------------------------------------
(* If the stack word returnStatus starts from is never 2, a 2 comes from   *)
(* requestPacketHandler, and then the header is a complete DHCPACK.        *)
LeaseInv ==
    /\ pc \in {"recv", "parse", "dispatch", "fill", "answer", "lease"} =>
         returnStatus \in StackGarbage
    /\ pc \in {"reply", "clean"} /\ returnStatus = 2 => IsAck(hdr)
    /\ pc \in {"close", "resume", "suspend", "suspended"} => IsAck(hdr)

(* A reply list that starts with the type ACK serialises to a DHCPACK.     *)
LEMMA SerialisedAck ==
    ASSUME NEW list \in Seq(Node), list # <<>>,
           list[1].id = DHCP_MESSAGE_TYPE, list[1].data = <<DHCP_ACK>>,
           NEW h \in [to : Clients \union {NoClient}, wire : Seq(Option)]
    PROVE  IsAck([h EXCEPT !.wire = [i \in DOMAIN list |-> OptionOf(list[i])]])
<1> DEFINE wire == [i \in DOMAIN list |-> OptionOf(list[i])]
<1>1. 1 \in DOMAIN list /\ DOMAIN list = 1..Len(list) /\ Len(list) \in Nat
  OBVIOUS
<1>2. wire[1] = OptionOf(list[1])
  BY <1>1
<1>3. wire[1] = [id |-> DHCP_MESSAGE_TYPE, data |-> <<DHCP_ACK>>]
  BY <1>2 DEF OptionOf
<1>4. wire # <<>>
  <2>1. DOMAIN wire # {}
    BY <1>1
  <2> QED
    BY <2>1
<1>5. [h EXCEPT !.wire = wire].wire = wire
  OBVIOUS
<1> HIDE DEF wire
<1>6. IsAck([h EXCEPT !.wire = wire])
  BY <1>3, <1>4, <1>5 DEF IsAck
<1> QED
  BY <1>6 DEF wire

(* Every step of the server preserves LeaseInv.                            *)
LEMMA LeaseStep ==
    ASSUME 2 \notin StackGarbage, Inv, LeaseInv, [Next]_vars
    PROVE  LeaseInv'
<1> USE DEF LeaseInv, msgVars, replyVars, memVars
<1>1. CASE FinishReply
  <2>1. /\ pc = "lease" /\ returnStatus \in StackGarbage
        /\ kind \in {DHCP_OFFER, DHCP_ACK}
        /\ replyOpts \in Seq(Node) /\ replyOpts # <<>> /\ heap \in Int
        /\ replyOpts[1].id = DHCP_MESSAGE_TYPE /\ replyOpts[1].data = <<kind>>
        /\ hdr \in [to : Clients \union {NoClient}, wire : Seq(Option)]
    BY <1>1 DEF FinishReply, Inv, HandlerInv, TypeOK
  <2> DEFINE ListOf(mm) == Append(replyOpts, createOption(IP_ADDRESS_LEASE_TIME, infLeaseTime, mm))
  <2>2. PICK m \in Malloc(heap) :
          \/ pc' \in {"reply", "nullDeref"} /\ UNCHANGED <<hdr, returnStatus>>
          \/ /\ pc' = "reply"
             /\ hdr' = [hdr EXCEPT !.wire =
                          [i \in DOMAIN ListOf(m) |-> OptionOf(ListOf(m)[i])]]
             /\ returnStatus' = StatusOf(kind)
    BY <1>1 DEF FinishReply
  <2>3. CASE pc' \in {"reply", "nullDeref"} /\ UNCHANGED <<hdr, returnStatus>>
    BY <2>1, <2>3
  <2>4. CASE /\ pc' = "reply"
             /\ hdr' = [hdr EXCEPT !.wire =
                          [i \in DOMAIN ListOf(m) |-> OptionOf(ListOf(m)[i])]]
             /\ returnStatus' = StatusOf(kind)
    <3>1. ListOf(m) \in Seq(Node) /\ ListOf(m) # <<>> /\ ListOf(m)[1] = replyOpts[1]
      <4>1. IP_ADDRESS_LEASE_TIME \in Byte /\ infLeaseTime \in Seq(Byte)
        BY DEF IP_ADDRESS_LEASE_TIME, infLeaseTime, Byte
      <4>2. createOption(IP_ADDRESS_LEASE_TIME, infLeaseTime, m) \in Node
        BY <2>1, <4>1, NodeType
      <4> QED
        BY <2>1, <4>2
    <3>2. kind = DHCP_ACK => IsAck(hdr')
      <4> HIDE DEF ListOf
      <4> QED
        BY <2>1, <2>4, <3>1, SerialisedAck
    <3>3. returnStatus' = 2 => kind = DHCP_ACK
      BY <2>4 DEF StatusOf
    <3> QED
      BY <2>4, <3>2, <3>3
  <2> QED
    BY <2>2, <2>3, <2>4
<1>2. CASE EnterListener \/ deleteOptionLists
  BY <1>2 DEF EnterListener, deleteOptionLists, AfterListener
<1>3. CASE Receive \/ ParseRound \/ Dispatch
  <2>1. /\ pc \in {"recv", "parse", "dispatch"}
        /\ pc' \in {"fellOff", "nullDeref", "recv", "parse", "dispatch", "fill", "reply"}
        /\ UNCHANGED <<hdr, returnStatus>>
    BY <1>3 DEF Receive, ParseRound, StoreOption, Dispatch
  <2> QED
    BY <2>1
<1>4. CASE fillDhcpPacket \/ answerClientRequest
  <2>1. /\ pc \in {"fill", "answer"}
        /\ pc' \in {"nullDeref", "answer", "lease"}
        /\ UNCHANGED returnStatus
    BY <1>4 DEF fillDhcpPacket, answerClientRequest
  <2> QED
    BY <2>1
<1>5. CASE ~(FinishReply \/ EnterListener \/ deleteOptionLists \/ Receive \/ ParseRound
             \/ Dispatch \/ fillDhcpPacket \/ answerClientRequest)
  BY <1>5 DEF Next, dhcpTask, dhcpListener, start_application, PollEmpty, sendDhcpReply,
     closeApplication, ResumeHttp, SuspendSelf, Arrive, Halted, vars, IsAck
<1> QED
  BY <1>1, <1>2, <1>3, <1>4, <1>5

(* Unless dead stack memory happens to hold a 2, the HTTP task is resumed  *)
(* only after a complete DHCPACK was built, for every instance.            *)
THEOREM LeaseBeforeHandoff ==
    ASSUME 2 \notin StackGarbage
    PROVE  Spec => []HandoffAfterLease
<1>1. Init => LeaseInv
  BY DEF Init, LeaseInv
<1>2. Inv /\ LeaseInv /\ [Next]_vars => LeaseInv'
  BY LeaseStep
<1>3. Inv /\ LeaseInv => HandoffAfterLease
  BY DEF Inv, GrantInv, LeaseInv, HandoffAfterLease
<1> QED
  BY <1>1, <1>2, <1>3, Invariance, PTL DEF Spec

-----------------------------------------------------------------------------
(* The blocks of a list, one node at a time.                               *)
LEMMA BlocksOfNil == Blocks(<<>>) = 0
<1>1. {i \in DOMAIN <<>> : <<>>[i].ok} = {}
  OBVIOUS
<1> QED
  BY <1>1, FS_EmptySet DEF Blocks

(* A node adds one block, and its data another when it was allocated.      *)
LEMMA BlocksOfAppend ==
    ASSUME NEW s \in Seq(Node), NEW x \in Node
    PROVE  /\ Blocks(s) \in Nat
           /\ Blocks(s) >= Len(s)
           /\ Blocks(Append(s, x)) = Blocks(s) + 1 + (IF x.ok THEN 1 ELSE 0)
<1> DEFINE S == {i \in DOMAIN s : s[i].ok}
           T == {i \in DOMAIN Append(s, x) : Append(s, x)[i].ok}
<1>1. IsFiniteSet(S) /\ Cardinality(S) \in Nat
  <2>1. IsFiniteSet(DOMAIN s)
    BY FS_Interval
  <2>2. IsFiniteSet(S)
    BY <2>1, FS_Subset
  <2> QED
    BY <2>2, FS_CardinalityType
<1>2. Len(Append(s, x)) = Len(s) + 1 /\ Len(s) \in Nat
  OBVIOUS
<1>5. /\ Blocks(s) = Len(s) + Cardinality(S)
      /\ Blocks(Append(s, x)) = Len(Append(s, x)) + Cardinality(T)
  BY DEF Blocks
<1>3. CASE x.ok
  <2>1. T = S \union {Len(s) + 1}
    BY <1>3
  <2>2. Len(s) + 1 \notin S
    OBVIOUS
  <2>3. Cardinality(T) = Cardinality(S) + 1
    BY <1>1, <2>1, <2>2, FS_AddElement
  <2> HIDE DEF S, T
  <2> QED
    BY <1>1, <1>2, <1>3, <1>5, <2>3
<1>4. CASE ~x.ok
  <2>1. T = S
    BY <1>4
  <2>2. Cardinality(T) = Cardinality(S)
    BY <2>1
  <2> HIDE DEF S, T
  <2> QED
    BY <1>1, <1>2, <1>4, <1>5, <2>2
<1> QED
  BY <1>3, <1>4

(* No reply list exists before a handler runs, and the parser has made at  *)
(* least one node when it ends.                                            *)
HeapInv ==
    /\ pc \in {"start", "call", "recv", "parse", "dispatch", "fill"} => replyOpts = <<>>
    /\ pc = "dispatch" => reqOpts # <<>>

(* Outside the handlers no reply list exists (freed, or never built).      *)
LEMMA HeapStep == Inv /\ HeapInv /\ [Next]_vars => HeapInv'
<1> SUFFICES ASSUME Inv, HeapInv, [Next]_vars PROVE HeapInv'
  OBVIOUS
<1> USE DEF HeapInv, msgVars, replyVars, memVars
<1>1. CASE ParseRound
  <2>1. PICK m \in Malloc(heap) : StoreOption(m)
    BY <1>1 DEF ParseRound
  <2>2. pc = "parse" /\ pc' \in {"parse", "dispatch"} /\ UNCHANGED replyOpts
    BY <1>1, <2>1 DEF ParseRound, StoreOption
  <2>3. reqOpts' # <<>>
    BY <2>1 DEF StoreOption, Inv, TypeOK
  <2> QED
    BY <2>2, <2>3
<1>2. CASE Receive \/ Dispatch \/ EnterListener \/ deleteOptionLists
  BY <1>2 DEF Receive, Dispatch, EnterListener, deleteOptionLists, AfterListener
<1>3. CASE fillDhcpPacket \/ answerClientRequest \/ FinishReply
  <2>1. pc' \in {"answer", "lease", "reply", "nullDeref"}
    BY <1>3 DEF fillDhcpPacket, answerClientRequest, FinishReply
  <2> QED
    BY <2>1
<1>4. CASE ~(ParseRound \/ Receive \/ Dispatch \/ EnterListener \/ deleteOptionLists
             \/ fillDhcpPacket \/ answerClientRequest \/ FinishReply)
  BY <1>4 DEF Next, dhcpTask, dhcpListener, start_application, PollEmpty, sendDhcpReply,
     closeApplication, ResumeHttp, SuspendSelf, Arrive, Halted, vars
<1> QED
  BY <1>1, <1>2, <1>3, <1>4

(* An append of a created option: the blocks that the two mallocs took are *)
(* in the list, or the node is missing and the data, if any, is lost.      *)
LEMMA AppendBalance ==
    ASSUME NEW s \in Seq(Node), NEW h \in Int, NEW m \in Malloc(h), NEW n \in Malloc(m.heap),
           NEW code \in Byte, NEW value \in Seq(Byte)
    PROVE  /\ Blocks(s) \in Nat
           /\ n.ok  => n.heap - Blocks(Append(s, createOption(code, value, m))) = h - Blocks(s)
           /\ ~n.ok => n.heap >= h
           /\ n.heap \in Int
<1>1. createOption(code, value, m) \in Node /\ createOption(code, value, m).ok = m.ok
  BY NodeType DEF createOption
<1>2. m.heap \in Int /\ m.heap = IF m.ok THEN h + 1 ELSE h
  BY MallocOutcome
<1>3. n.heap \in Int /\ n.heap = IF n.ok THEN m.heap + 1 ELSE m.heap
  BY <1>2, MallocOutcome
<1>4. /\ Blocks(s) \in Nat
      /\ Blocks(Append(s, createOption(code, value, m))) = Blocks(s) + 1 + (IF m.ok THEN 1 ELSE 0)
  BY <1>1, BlocksOfAppend
<1> QED
  BY <1>2, <1>3, <1>4

(* The loss after a step.                                                  *)
LEMMA LostNext ==
    Lost' = heap' - Blocks(reqOpts') - Blocks(replyOpts') - (IF pc' = "parse" THEN 1 ELSE 0)
BY DEF Lost, Blocks

(* Parsing loses nothing: a node taken is in the list or in hand.          *)
LEMMA LossOfParse ==
    ASSUME Inv, ParseRound
    PROVE  Lost' = Lost
<1>1. PICK m \in Malloc(heap) : StoreOption(m)
  BY DEF ParseRound
<1>2. /\ pc = "parse" /\ heap \in Int /\ reqOpts \in Seq(Node) /\ replyOpts \in Seq(Node)
      /\ req.opts[pos].id \in Byte /\ req.opts[pos].data \in Seq(Byte)
  <2>1. pc = "parse" /\ req \in Datagrams /\ pos \in 1..Len(req.opts) /\ req.opts \in Seq(Option)
    BY ConstantsAssumption DEF ParseRound, Inv, RequestInv, TypeOK, Datagram
  <2>2. req.opts[pos] \in Option
    BY <2>1
  <2> QED
    BY <2>1, <2>2 DEF Option, Inv, TypeOK
<1> DEFINE x == createOption(req.opts[pos].id, req.opts[pos].data, m)
<1>3. x \in Node /\ x.ok = m.ok
  BY <1>2, NodeType DEF createOption
<1>4. m.heap \in Int /\ m.heap = IF m.ok THEN heap + 1 ELSE heap
  BY <1>2, MallocOutcome
<1>5. /\ Blocks(reqOpts) \in Nat
      /\ Blocks(Append(reqOpts, x)) = Blocks(reqOpts) + 1 + (IF m.ok THEN 1 ELSE 0)
      /\ Blocks(replyOpts) \in Nat
  BY <1>2, <1>3, BlocksOfAppend
<1>6. reqOpts' = Append(reqOpts, x) /\ replyOpts' = replyOpts
  BY <1>1 DEF StoreOption, replyVars
<1>7. \/ pc' = "dispatch" /\ heap' = m.heap
      \/ pc' = "parse" /\ heap' = m.heap + 1
  <2>1. ASSUME NEW n \in Malloc(m.heap)
        PROVE  n.heap = IF n.ok THEN m.heap + 1 ELSE m.heap
    BY <1>4, <2>1, MallocOutcome
  <2> QED
    BY <1>1, <2>1 DEF StoreOption
<1>8. Lost = heap - Blocks(reqOpts) - Blocks(replyOpts) - 1
  BY <1>2 DEF Lost
<1> HIDE DEF x
<1> QED
  BY <1>2, <1>4, <1>5, <1>6, <1>7, <1>8, LostNext, SMTT(30)

(* The blocks of a list are counted by a natural number.                   *)
LEMMA BlocksIsNatural ==
    ASSUME NEW list \in Seq(Node)
    PROVE  Blocks(list) \in Nat
BY FreedIsNatural DEF Blocks, deleteOptionList

(* How the loss changes in a step that leaves the request list alone.      *)
LEMMA LossBalance ==
    ASSUME heap \in Int, reqOpts \in Seq(Node), replyOpts \in Seq(Node),
           heap' \in Int, replyOpts' \in Seq(Node), reqOpts' = reqOpts,
           pc # "parse", pc' # "parse"
    PROVE  /\ heap' - Blocks(replyOpts') = heap - Blocks(replyOpts) => Lost' = Lost
           /\ replyOpts' = replyOpts /\ heap' > heap => Lost' > Lost
<1>1. Blocks(reqOpts) \in Nat /\ Blocks(replyOpts) \in Nat /\ Blocks(replyOpts') \in Nat
  BY BlocksIsNatural
<1>2. Lost = heap - Blocks(reqOpts) - Blocks(replyOpts)
  BY <1>1 DEF Lost
<1>3. Lost' = heap' - Blocks(reqOpts) - Blocks(replyOpts')
  BY <1>1, LostNext
<1>4. replyOpts' = replyOpts => Blocks(replyOpts') = Blocks(replyOpts)
  OBVIOUS
<1>5. ASSUME NEW h \in Int, NEW g \in Int, NEW a \in Nat, NEW b \in Nat, NEW c \in Nat
      PROVE  /\ g - c = h - b => g - a - c = h - a - b
             /\ c = b /\ g > h => g - a - c > h - a - b
  OBVIOUS
<1>6. ASSUME heap' - Blocks(replyOpts') = heap - Blocks(replyOpts) PROVE Lost' = Lost
  <2>1. heap' - Blocks(reqOpts) - Blocks(replyOpts') = heap - Blocks(reqOpts) - Blocks(replyOpts)
    BY <1>1, <1>5, <1>6, SMTT(30)
  <2> QED
    BY <1>2, <1>3, <2>1
<1>7. ASSUME replyOpts' = replyOpts, heap' > heap PROVE Lost' > Lost
  <2>1. heap' - Blocks(reqOpts) - Blocks(replyOpts') > heap - Blocks(reqOpts) - Blocks(replyOpts)
    BY <1>1, <1>4, <1>5, <1>7
  <2> QED
    BY <1>2, <1>3, <2>1
<1> QED
  BY <1>6, <1>7

(* fillDhcpPacket loses nothing: node and data are the reply list.         *)
LEMMA LossOfFill ==
    ASSUME Inv, HeapInv, fillDhcpPacket
    PROVE  Lost' = Lost
<1>1. /\ pc = "fill" /\ reqOpts' = reqOpts /\ replyOpts = <<>>
      /\ heap \in Int /\ reqOpts \in Seq(Node) /\ kind \in {DHCP_OFFER, DHCP_ACK}
  BY DEF fillDhcpPacket, msgVars, Inv, TypeOK, HandlerInv, HeapInv
<1>2. DHCP_MESSAGE_TYPE \in Byte /\ <<kind>> \in Seq(Byte)
  BY <1>1 DEF DHCP_MESSAGE_TYPE, Byte, DHCP_OFFER, DHCP_ACK
<1>3. PICK n \in Malloc(heap) : \E m \in Malloc(n.heap) :
         \/ ~n.ok /\ pc' = "nullDeref" /\ heap' = n.heap /\ replyOpts' = replyOpts
         \/ /\ n.ok /\ pc' \in {"answer", "lease"}
            /\ heap' = m.heap
            /\ replyOpts' = <<createOption(DHCP_MESSAGE_TYPE, <<kind>>, m)>>
  BY DEF fillDhcpPacket
<1>4. n.heap \in Int /\ n.heap = IF n.ok THEN heap + 1 ELSE heap
  BY <1>1, MallocOutcome
<1>5. CASE ~n.ok
  <2>1. pc' = "nullDeref" /\ heap' = heap /\ replyOpts' = replyOpts
    BY <1>3, <1>4, <1>5
  <2> QED
    BY <1>1, <2>1, LossBalance
<1>6. CASE n.ok
  <2>1. PICK m \in Malloc(n.heap) :
            /\ pc' \in {"answer", "lease"}
            /\ heap' = m.heap
            /\ replyOpts' = <<createOption(DHCP_MESSAGE_TYPE, <<kind>>, m)>>
    BY <1>3, <1>6
  <2> DEFINE x == createOption(DHCP_MESSAGE_TYPE, <<kind>>, m)
  <2>2. x \in Node /\ x.ok = m.ok
    BY <1>2, <1>4, NodeType DEF createOption
  <2>3. heap' \in Int /\ heap' = IF m.ok THEN heap + 2 ELSE heap + 1
    BY <1>1, <1>4, <1>6, <2>1, MallocOutcome
  <2>4. replyOpts' = Append(<<>>, x) /\ replyOpts' \in Seq(Node)
    BY <2>1, <2>2
  <2>5. Blocks(replyOpts') = 1 + (IF m.ok THEN 1 ELSE 0)
    <3> HIDE DEF x
    <3>1. <<>> \in Seq(Node)
      OBVIOUS
    <3>2. Blocks(Append(<<>>, x)) = Blocks(<<>>) + 1 + (IF x.ok THEN 1 ELSE 0)
      BY <2>2, <3>1, BlocksOfAppend
    <3>3. Blocks(replyOpts') = Blocks(Append(<<>>, x))
      BY <2>4
    <3> QED
      BY <2>2, <3>2, <3>3, BlocksOfNil
  <2>6. heap' - Blocks(replyOpts') = heap - Blocks(replyOpts)
    BY <1>1, <2>3, <2>5, BlocksOfNil
  <2> QED
    BY <1>1, <2>1, <2>3, <2>4, <2>6, LossBalance
<1> QED
  BY <1>5, <1>6

(* The two loops that append an option to the reply.                       *)
LEMMA LossOfAppend ==
    ASSUME heap \in Int, reqOpts \in Seq(Node), replyOpts \in Seq(Node), reqOpts' = reqOpts,
           pc \in {"answer", "lease"}, pc' # "parse",
           NEW code \in Byte, NEW value \in Seq(Byte),
           NEW m \in Malloc(heap), NEW n \in Malloc(m.heap), heap' = n.heap,
           replyOpts' = IF n.ok THEN Append(replyOpts, createOption(code, value, m))
                        ELSE replyOpts
    PROVE  LossStep
<1>1. heap' \in Int
  BY AppendBalance
<1>2. replyOpts' \in Seq(Node)
  <2>1. createOption(code, value, m) \in Node
    BY NodeType
  <2> QED
    BY <2>1
<1>3. CASE n.ok
  <2>1. heap' - Blocks(replyOpts') = heap - Blocks(replyOpts)
    BY <1>3, AppendBalance
  <2> QED
    BY <1>1, <1>2, <2>1, LossBalance DEF LossStep
<1>4. CASE ~n.ok
  <2>1. replyOpts' = replyOpts /\ heap' >= heap
    BY <1>4, AppendBalance
  <2>2. CASE heap' = heap
    BY <1>1, <1>2, <2>1, <2>2, LossBalance DEF LossStep
  <2>3. CASE heap' > heap
    BY <1>1, <1>2, <2>1, <2>3, LossBalance DEF LossStep
  <2> QED
    BY <1>1, <2>1, <2>2, <2>3
<1> QED
  BY <1>3, <1>4

(* The handlers lose blocks only where an append failed.                   *)
LEMMA LossOfHandlers ==
    ASSUME Inv, answerClientRequest \/ FinishReply
    PROVE  LossStep
<1> USE DEF msgVars, memVars
<1>1. /\ heap \in Int /\ reqOpts \in Seq(Node) /\ replyOpts \in Seq(Node)
      /\ reqOpts' = reqOpts /\ pc \in {"answer", "lease"}
      /\ pc' \in {"answer", "lease", "reply", "nullDeref"}
  BY DEF answerClientRequest, FinishReply, Inv, TypeOK
<1>2. CASE answerClientRequest
  <2> DEFINE prl == seachForOption(reqOpts, PARAMETER_REQUEST_LIST)
             code == prl.data[count]
  <2>1. \/ heap' = heap /\ replyOpts' = replyOpts
        \/ /\ code \in DOMAIN Answers
           /\ \E m \in Malloc(heap) : \E n \in Malloc(m.heap) :
                /\ heap' = n.heap
                /\ replyOpts' = IF n.ok
                                THEN Append(replyOpts, createOption(code, Answers[code], m))
                                ELSE replyOpts
    BY <1>2 DEF answerClientRequest
  <2>2. CASE heap' = heap /\ replyOpts' = replyOpts
    BY <1>1, <2>2, LossBalance DEF LossStep
  <2>3. CASE /\ code \in DOMAIN Answers
             /\ \E m \in Malloc(heap) : \E n \in Malloc(m.heap) :
                /\ heap' = n.heap
                /\ replyOpts' = IF n.ok
                                THEN Append(replyOpts, createOption(code, Answers[code], m))
                                ELSE replyOpts
    <3>1. code \in Byte /\ Answers[code] \in Seq(Byte)
      BY <2>3, AnswersAreOptions
    <3> HIDE DEF code
    <3> QED
      BY <1>1, <2>3, <3>1, LossOfAppend
  <2> QED
    BY <2>1, <2>2, <2>3
<1>3. CASE FinishReply
  <2>1. \E m \in Malloc(heap) : \E n \in Malloc(m.heap) :
          /\ heap' = n.heap
          /\ replyOpts' = IF n.ok
               THEN Append(replyOpts, createOption(IP_ADDRESS_LEASE_TIME, infLeaseTime, m))
               ELSE replyOpts
    BY <1>3 DEF FinishReply
  <2>2. IP_ADDRESS_LEASE_TIME \in Byte /\ infLeaseTime \in Seq(Byte)
    BY DEF IP_ADDRESS_LEASE_TIME, infLeaseTime, Byte
  <2> QED
    BY <1>1, <2>1, <2>2, LossOfAppend
<1> QED
  BY <1>2, <1>3

(* The rest of the listener: only a request without a type is lost.        *)
LEMMA LossOfListener ==
    ASSUME Inv, HeapInv, Receive \/ Dispatch \/ deleteOptionLists
    PROVE  LossStep
<1>1. /\ heap \in Int /\ reqOpts \in Seq(Node) /\ replyOpts \in Seq(Node)
      /\ Blocks(reqOpts) \in Nat /\ Blocks(replyOpts) \in Nat
  BY BlocksIsNatural DEF Inv, TypeOK
<1>2. CASE Receive
  <2>1. /\ pc = "recv" /\ reqOpts' = reqOpts /\ replyOpts' = replyOpts
        /\ \/ pc' # "parse" /\ heap' = heap
           \/ pc' = "parse" /\ heap' = heap + 1
    <3>1. ASSUME NEW m \in Malloc(heap)
          PROVE  m.heap = IF m.ok THEN heap + 1 ELSE heap
      BY <1>1, <3>1, MallocOutcome
    <3> QED
      BY <1>2, <3>1 DEF Receive, msgVars, replyVars, memVars
  <2>2. Lost = heap - Blocks(reqOpts) - Blocks(replyOpts)
    BY <1>1, <2>1 DEF Lost
  <2>3. Lost' = Lost
    BY <1>1, <2>1, <2>2, LostNext
  <2> QED
    BY <2>3 DEF LossStep
<1>3. CASE Dispatch
  <2>1. /\ pc = "dispatch" /\ pc' # "parse" /\ heap' = heap /\ replyOpts' = replyOpts
        /\ \/ reqOpts' = reqOpts
           \/ reqOpts' = <<>> /\ ~HasOption(reqOpts, DHCP_MESSAGE_TYPE)
    BY <1>3 DEF Dispatch, msgVars, memVars
  <2>2. CASE reqOpts' = reqOpts
    BY <1>1, <2>1, <2>2, LossBalance DEF LossStep
  <2>3. CASE reqOpts' = <<>> /\ ~HasOption(reqOpts, DHCP_MESSAGE_TYPE)
    <3>1. Blocks(reqOpts) > 0
      <4>1. reqOpts # <<>> /\ Len(reqOpts) > 0
        BY <1>1, <2>1 DEF HeapInv
      <4>2. Blocks(reqOpts) >= Len(reqOpts)
        BY <1>1, <4>1, BlocksOfAppend
      <4> QED
        BY <1>1, <4>1, <4>2
    <3>2. Lost = heap - Blocks(reqOpts) - Blocks(replyOpts)
      BY <1>1, <2>1 DEF Lost
    <3>3. Lost' = heap - 0 - Blocks(replyOpts)
      BY <1>1, <2>1, <2>3, LostNext, BlocksOfNil
    <3>4. Lost' > Lost
      BY <1>1, <3>1, <3>2, <3>3
    <3> QED
      BY <2>1, <2>3, <3>4 DEF LossStep
  <2> QED
    BY <2>1, <2>2, <2>3
<1>4. CASE deleteOptionLists
  <2>1. /\ pc = "clean" /\ pc' # "parse" /\ reqOpts' = <<>> /\ replyOpts' = <<>>
        /\ heap' = heap - Blocks(reqOpts) - Blocks(replyOpts)
    BY <1>4 DEF deleteOptionLists, AfterListener, deleteOptionList, Blocks
  <2>2. Lost = heap - Blocks(reqOpts) - Blocks(replyOpts)
    BY <1>1, <2>1 DEF Lost
  <2>3. Lost' = Lost
    BY <1>1, <2>1, <2>2, LostNext, BlocksOfNil
  <2> QED
    BY <2>3 DEF LossStep
<1> QED
  BY <1>2, <1>3, <1>4

(* For every instance: allocated blocks get lost only with a request that  *)
(* has no message type, or when the node of a reply option cannot be       *)
(* allocated; everywhere else deleteOptionList frees each block once.      *)
THEOREM LossPaths == Spec => LostOnKnownPathsOnly
<1>1. Init => HeapInv
  BY DEF Init, HeapInv
<1>2. Inv /\ HeapInv /\ [Next]_vars => [LossStep]_vars
  <2> SUFFICES ASSUME Inv, HeapInv, Next PROVE LossStep
    OBVIOUS
  <2>1. CASE ParseRound
    BY <2>1, LossOfParse DEF LossStep
  <2>2. CASE fillDhcpPacket
    BY <2>2, LossOfFill DEF LossStep
  <2>3. CASE answerClientRequest \/ FinishReply
    BY <2>3, LossOfHandlers
  <2>4. CASE Receive \/ Dispatch \/ deleteOptionLists
    BY <2>4, LossOfListener
  <2>5. CASE ~(ParseRound \/ fillDhcpPacket \/ answerClientRequest \/ FinishReply
               \/ Receive \/ Dispatch \/ deleteOptionLists)
    <3>1. /\ UNCHANGED <<heap, reqOpts, replyOpts>>
          /\ pc = "parse" <=> pc' = "parse"
      BY <2>5 DEF Next, dhcpTask, dhcpListener, start_application, EnterListener, PollEmpty,
         sendDhcpReply, closeApplication, ResumeHttp, SuspendSelf, Arrive, Halted,
         vars, msgVars, replyVars, memVars
    <3>2. Lost' = Lost
      BY <3>1, LostNext DEF Lost
    <3> QED
      BY <3>2 DEF LossStep
  <2> QED
    BY <2>1, <2>2, <2>3, <2>4, <2>5
<1> QED
  BY <1>1, <1>2, HeapStep, Invariance, PTL DEF Spec, LostOnKnownPathsOnly

-----------------------------------------------------------------------------
(* What is broadcast answers the request in hand.                          *)
(*                                                                         *)
(* The reply is compared with a definition by recursion over the list of   *)
(* parameters asked for. The induction is over sets: LeastNumber is a fact *)
(* about sets of naturals, and Stepwise the induction that follows.        *)

(* A set of naturals that is not empty has a least element.                *)
LEMMA LeastNumber ==
    ASSUME NEW T \in SUBSET Nat, T # {}
    PROVE  \E x \in T : \A y \in T : x <= y
<1>1. PICK R : R = OpToRel(<, Nat)
  OBVIOUS
<1>2. IsWellFoundedOn(R, Nat)
  BY <1>1, NatLessThanWellFounded
<1>3. PICK x \in T : \A y \in T : ~(<<y, x>> \in R)
  BY <1>2, WFMin
<1>4. \A a, b \in Nat : a < b => <<a, b>> \in R
  BY <1>1 DEF OpToRel
<1>5. \A y \in T : ~(y < x)
  BY <1>3, <1>4
<1> QED
  BY <1>5

(* What holds of 0 and is passed on holds up to n; S has the numbers of    *)
(* which it holds.                                                         *)
LEMMA Stepwise ==
    ASSUME NEW n \in Nat, NEW S, 0 \in S, \A i \in 0..n : i < n /\ i \in S => i + 1 \in S
    PROVE  \A i \in 0..n : i \in S
<1>1. PICK T : T = {i \in 0..n : i \notin S}
  OBVIOUS
<1>2. T \in SUBSET Nat
  BY <1>1
<1>3. SUFFICES ASSUME T # {} PROVE FALSE
  BY <1>1
<1>4. PICK x \in T : \A y \in T : x <= y
  BY <1>2, <1>3, LeastNumber
<1>5. x \in 0..n /\ x \notin S /\ x # 0
  BY <1>1
<1>6. x - 1 \in 0..n /\ x - 1 < n /\ x - 1 + 1 = x /\ ~(x <= x - 1)
  BY <1>5
<1>7. x - 1 \in S
  BY <1>1, <1>4, <1>6
<1> QED
  BY <1>5, <1>6, <1>7

(* The parameters the server knows, as a function of how many it has read. *)
Codes == {SUBNET_MASK, ROUTER}
IsKnown(f, s, n) ==
    /\ f \in [0..n -> Seq(Codes)] /\ f[0] = <<>>
    /\ \A i \in 1..n : f[i] = IF s[i] \in Codes THEN Append(f[i - 1], s[i]) ELSE f[i - 1]

(* One parameter more.                                                     *)
LEMMA OneMore ==
    ASSUME NEW q \in Seq(Codes), NEW c
    PROVE  (IF c \in Codes THEN Append(q, c) ELSE q) \in Seq(Codes)
<1>1. CASE c \in Codes
  <2>1. Append(q, c) \in Seq(Codes)
    BY <1>1
  <2> QED
    BY <1>1, <2>1
<1>2. CASE c \notin Codes
  BY <1>2
<1> QED
  BY <1>1, <1>2

(* There is such a function.                                               *)
LEMMA KnownExists ==
    ASSUME NEW s, NEW n \in Nat
    PROVE  \E f : IsKnown(f, s, n)
<1>1. PICK S : S = {k \in 0..n : \E f : IsKnown(f, s, k)}
  OBVIOUS
<1>2. 0 \in S
  <2>1. IsKnown([i \in 0..0 |-> <<>>], s, 0)
    BY DEF IsKnown
  <2>2. \E f : IsKnown(f, s, 0)
    BY <2>1
  <2> QED
    BY <1>1, <2>2
<1>3. ASSUME NEW k \in 0..n, k < n, k \in S PROVE k + 1 \in S
  <2>1. PICK f : IsKnown(f, s, k)
    BY <1>1, <1>3
  <2>2. f \in [0..k -> Seq(Codes)] /\ k \in Nat /\ f[k] \in Seq(Codes) /\ f[0] = <<>>
    BY <2>1 DEF IsKnown
  <2>3. PICK x \in Seq(Codes) : x = IF s[k + 1] \in Codes THEN Append(f[k], s[k + 1]) ELSE f[k]
    BY <2>2, OneMore, Zenon
  <2>4. PICK g : g = [i \in 0..(k + 1) |-> IF i = k + 1 THEN x ELSE f[i]]
    OBVIOUS
  <2>5. g \in [0..(k + 1) -> Seq(Codes)] /\ g[0] = <<>>
    BY <2>2, <2>4
  <2>6. \A i \in 0..k : g[i] = f[i]
    BY <2>2, <2>4
  <2>7. g[k + 1] = x
    BY <2>2, <2>4
  <2>8. \A i \in 1..(k + 1) : g[i] = IF s[i] \in Codes THEN Append(g[i - 1], s[i]) ELSE g[i - 1]
    <3> SUFFICES ASSUME NEW i \in 1..(k + 1)
                 PROVE  g[i] = IF s[i] \in Codes THEN Append(g[i - 1], s[i]) ELSE g[i - 1]
      OBVIOUS
    <3>1. CASE i = k + 1
      <4>1. i - 1 = k /\ g[k] = f[k]
        <5>1. i - 1 = k /\ k \in 0..k
          BY <2>2, <3>1
        <5> QED
          BY <2>6, <5>1
      <4> QED
        BY <2>3, <2>7, <3>1, <4>1
    <3>2. CASE i # k + 1
      <4>1. i \in 1..k /\ i \in 0..k /\ i - 1 \in 0..k
        BY <2>2, <3>2
      <4>2. g[i] = f[i] /\ g[i - 1] = f[i - 1]
        BY <2>6, <4>1
      <4>3. f[i] = IF s[i] \in Codes THEN Append(f[i - 1], s[i]) ELSE f[i - 1]
        BY <2>1, <4>1 DEF IsKnown
      <4> QED
        BY <4>2, <4>3
    <3> QED
      BY <3>1, <3>2
  <2>9. IsKnown(g, s, k + 1)
    BY <2>5, <2>8 DEF IsKnown
  <2>10. k + 1 \in 0..n
    BY <1>3
  <2> QED
    BY <1>1, <2>9, <2>10
<1>4. \A i \in 0..n : i \in S
  BY <1>2, <1>3, Stepwise
<1> QED
  BY <1>1, <1>4

(* The recursive definition gives it.                                      *)
LEMMA KnownIsKnown ==
    ASSUME NEW s, Len(s) \in Nat
    PROVE  IsKnown(KnownOf(s), s, Len(s))
<1>1. PICK n \in Nat : n = Len(s)
  OBVIOUS
<1>2. PICK f : IsKnown(f, s, n)
  BY KnownExists
<1>3. f = [k \in 0..Len(s) |->
             IF k = 0 THEN <<>>
             ELSE IF s[k] \in {SUBNET_MASK, ROUTER} THEN Append(f[k - 1], s[k]) ELSE f[k - 1]]
  <2>1. f = [k \in 0..n |-> f[k]]
    BY <1>2 DEF IsKnown
  <2>2. \A k \in 0..n : k = 0 \/ k \in 1..n
    OBVIOUS
  <2>3. \A k \in 0..n : f[k] = IF k = 0 THEN <<>>
             ELSE IF s[k] \in {SUBNET_MASK, ROUTER} THEN Append(f[k - 1], s[k]) ELSE f[k - 1]
    <3>1. ASSUME NEW k \in 0..n
          PROVE  f[k] = IF k = 0 THEN <<>>
                        ELSE IF s[k] \in Codes THEN Append(f[k - 1], s[k]) ELSE f[k - 1]
      <4>1. CASE k = 0
        BY <1>2, <4>1, Zenon DEF IsKnown
      <4>2. CASE k # 0
        BY <1>2, <2>2, <4>2, Zenon DEF IsKnown
      <4> QED
        BY <4>1, <4>2
    <3> QED
      BY <3>1, Zenon DEF Codes
  <2> QED
    BY <1>1, <2>1, <2>3, Zenon
<1>4. KnownOf(s) = [k \in 0..Len(s) |->
             IF k = 0 THEN <<>>
             ELSE IF s[k] \in {SUBNET_MASK, ROUTER} THEN Append(KnownOf(s)[k - 1], s[k])
             ELSE KnownOf(s)[k - 1]]
  BY <1>3, Zenon DEF KnownOf
<1>5. PICK g : g = KnownOf(s)
  OBVIOUS
<1>6. g = [k \in 0..n |->
             IF k = 0 THEN <<>>
             ELSE IF s[k] \in Codes THEN Append(g[k - 1], s[k]) ELSE g[k - 1]]
  BY <1>1, <1>4, <1>5, Zenon DEF Codes
<1>7. g[0] = <<>> /\ \A i \in 1..n : g[i] = IF s[i] \in Codes THEN Append(g[i - 1], s[i]) ELSE g[i - 1]
  <2>1. \A i \in 0..n : g[i] = IF i = 0 THEN <<>>
             ELSE IF s[i] \in Codes THEN Append(g[i - 1], s[i]) ELSE g[i - 1]
    BY <1>6, Zenon
  <2>2. 0 \in 0..n /\ \A i \in 1..n : i \in 0..n /\ i # 0
    OBVIOUS
  <2> QED
    BY <2>1, <2>2, Zenon
<1>8. \A i \in 0..n : g[i] \in Seq(Codes)
  <2>1. PICK S : S = {i \in 0..n : g[i] \in Seq(Codes)}
    OBVIOUS
  <2>2. 0 \in S
    <3>1. 0 \in 0..n /\ <<>> \in Seq(Codes)
      OBVIOUS
    <3> QED
      BY <1>7, <2>1, <3>1, Zenon
  <2>3. ASSUME NEW i \in 0..n, i < n, i \in S PROVE i + 1 \in S
    <3>1. i + 1 \in 1..n /\ i + 1 \in 0..n /\ i + 1 - 1 = i
      BY <2>3
    <3>2. g[i + 1] = IF s[i + 1] \in Codes THEN Append(g[i], s[i + 1]) ELSE g[i]
      BY <1>7, <3>1
    <3>3. g[i] \in Seq(Codes)
      BY <2>1, <2>3
    <3>4. g[i + 1] \in Seq(Codes)
      BY <3>2, <3>3, OneMore, Zenon
    <3> QED
      BY <2>1, <3>1, <3>4
  <2> QED
    BY <2>1, <2>2, <2>3, Stepwise
<1>9. g \in [0..n -> Seq(Codes)]
  <2>1. DOMAIN g = 0..n /\ g = [i \in 0..n |-> g[i]]
    BY <1>6
  <2> QED
    BY <1>8, <2>1
<1> QED
  BY <1>1, <1>5, <1>7, <1>9 DEF IsKnown

-----------------------------------------------------------------------------
(* The parsed list is the first k options of the request, all with data.   *)
Stored(o) == [id |-> o.id, data |-> o.data, ok |-> TRUE]
ParsedUpTo(k) ==
    /\ Len(reqOpts) = k /\ k <= Len(req.opts)
    /\ \A i \in 1..k : reqOpts[i] = Stored(req.opts[i])

(* The request has the type t, which the running handler answers.          *)
TypeOfRequest(t) ==
    /\ t \in TypeBytes(seachForOption(req.opts, DHCP_MESSAGE_TYPE))
    /\ t \in {DHCP_DISCOVER, DHCP_REQUEST}

(* The reply list has the type and the answers to known, all with data.    *)
AnswersTo(list, known) ==
    /\ Len(list) = Len(known) + 1
    /\ list[1] = [id |-> DHCP_MESSAGE_TYPE, data |-> <<kind>>, ok |-> TRUE]
    /\ \A j \in 1..Len(known) :
         list[j + 1] = [id |-> known[j], data |-> Answers[known[j]], ok |-> TRUE]

(* With a stack of zeros: only a finished handler makes returnStatus       *)
(* another value, and requestMsg.opts is empty whenever parsing starts.    *)
FreshInv ==
    /\ pc \in {"start", "call", "recv"} => reqOpts = <<>>
    /\ pc \in {"recv", "parse", "dispatch", "fill", "answer", "lease"} => returnStatus = 0
    /\ pc \in {"answer", "lease"} => hdr.to = req.client
    /\ pc = "reply" /\ returnStatus # 0 => hdr.to = req.client

(* As long as no malloc has failed the lists are those of the request.     *)
ListInv ==
    ~oom =>
        /\ pc = "parse" => ParsedUpTo(pos - 1)
        /\ pc \in {"dispatch", "fill", "answer", "lease"} =>
             req \in Datagrams /\ ParsedUpTo(Len(req.opts))
        /\ pc \in {"fill", "answer", "lease"} =>
             \E t \in Byte : TypeOfRequest(t) /\ kind = HandlerOf(t)
        /\ pc = "answer" =>
             /\ HasOption(req.opts, PARAMETER_REQUEST_LIST)
             /\ count - 1 <= Len(AskedFor(req.opts))
             /\ AnswersTo(replyOpts, KnownOf(AskedFor(req.opts))[count - 1])
        /\ pc = "lease" =>
             AnswersTo(replyOpts, KnownOf(AskedFor(req.opts))[Len(AskedFor(req.opts))])
        /\ pc = "reply" /\ returnStatus # 0 =>
             \E t \in Byte :
                /\ TypeOfRequest(t)
                /\ returnStatus = IF t = DHCP_DISCOVER THEN 1 ELSE 2
                /\ hdr.wire = ReplyTo(t, req.opts)

-----------------------------------------------------------------------------
(* seachForOption finds the first option with a code that is there.        *)
LEMMA FirstOption ==
    ASSUME NEW S, NEW l \in Seq(S), NEW c, HasOption(l, c)
    PROVE  \E i \in 1..Len(l) : /\ seachForOption(l, c) = l[i] /\ l[i].id = c
                                /\ \A j \in 1..(i - 1) : l[j].id # c
<1>1. PICK n \in Nat : n = Len(l) /\ DOMAIN l = 1..n
  OBVIOUS
<1>2. PICK T : T = {i \in 1..n : l[i].id = c}
  OBVIOUS
<1>3. T \in SUBSET Nat /\ T # {}
  BY <1>1, <1>2 DEF HasOption
<1>4. PICK x \in T : \A y \in T : x <= y
  BY <1>3, LeastNumber
<1>5. \A j \in 1..(x - 1) : j \in 1..n /\ ~(x <= j)
  BY <1>2, <1>4
<1>6. x \in 1..n /\ l[x].id = c /\ \A j \in 1..(x - 1) : l[j].id # c
  BY <1>2, <1>4, <1>5
<1> DEFINE P(i) == l[i].id = c /\ \A j \in 1..(i - 1) : l[j].id # c
<1>7. \E i \in DOMAIN l : P(i)
  BY <1>1, <1>6
<1>8. PICK k : k = CHOOSE i \in DOMAIN l : P(i)
  OBVIOUS
<1>9. k \in DOMAIN l /\ P(k)
  <2> HIDE DEF P
  <2> QED
    BY <1>7, <1>8, Zenon
<1>10. seachForOption(l, c) = l[k]
  BY <1>8 DEF seachForOption
<1> QED
  BY <1>1, <1>9, <1>10

(* A complete parse answers searches as the request itself does.           *)
LEMMA SearchParsed ==
    ASSUME reqOpts \in Seq(Node), req.opts \in Seq(Option), ParsedUpTo(Len(req.opts)), NEW c
    PROVE  /\ HasOption(reqOpts, c) <=> HasOption(req.opts, c)
           /\ HasOption(req.opts, c) =>
                seachForOption(reqOpts, c) = Stored(seachForOption(req.opts, c))
<1>o. PICK o \in Seq(Option) : o = req.opts
  OBVIOUS
<1>q. PICK q \in Seq(Node) : q = reqOpts
  OBVIOUS
<1>1. PICK n \in Nat : n = Len(o) /\ n = Len(q)
  BY <1>o, <1>q DEF ParsedUpTo
<1>2. DOMAIN q = 1..n /\ DOMAIN o = 1..n
  <2>1. DOMAIN q = 1..Len(q)
    OBVIOUS
  <2>2. DOMAIN o = 1..Len(o)
    OBVIOUS
  <2> QED
    BY <1>1, <2>1, <2>2, Zenon
<1>3. \A i \in 1..n : q[i] = Stored(o[i]) /\ q[i].id = o[i].id
  BY <1>o, <1>q, <1>1 DEF ParsedUpTo, Stored
<1>4. HasOption(q, c) <=> HasOption(o, c)
  BY <1>2, <1>3 DEF HasOption
<1>5. ASSUME HasOption(o, c)
      PROVE  seachForOption(q, c) = Stored(seachForOption(o, c))
  <2>1. PICK i \in 1..n : /\ seachForOption(o, c) = o[i] /\ o[i].id = c
                          /\ \A j \in 1..(i - 1) : o[j].id # c
    <3>1. \E x \in 1..Len(o) : /\ seachForOption(o, c) = o[x] /\ o[x].id = c
                               /\ \A j \in 1..(x - 1) : o[j].id # c
      BY <1>5, FirstOption
    <3> QED
      BY <1>1, <3>1, Zenon
  <2>2. PICK k \in 1..n : /\ seachForOption(q, c) = q[k] /\ q[k].id = c
                          /\ \A j \in 1..(k - 1) : q[j].id # c
    <3>1. \E x \in 1..Len(q) : /\ seachForOption(q, c) = q[x] /\ q[x].id = c
                               /\ \A j \in 1..(x - 1) : q[j].id # c
      BY <1>4, <1>5, FirstOption
    <3> QED
      BY <1>1, <3>1, Zenon
  <2>3. i = k
    <3>1. i \in 1..(k - 1) \/ k \in 1..(i - 1) \/ i = k
      OBVIOUS
    <3> QED
      BY <1>3, <2>1, <2>2, <3>1
  <2> QED
    BY <1>3, <2>1, <2>2, <2>3
<1> QED
  BY <1>o, <1>q, <1>4, <1>5

(* The options of a datagram.                                              *)
LEMMA OptsOf ==
    ASSUME NEW d \in Datagrams
    PROVE  d.opts \in Seq(Option) /\ Len(d.opts) \in Nat /\ d.client \in Clients
<1>1. d \in Datagram
  BY ConstantsAssumption
<1> QED
  BY <1>1 DEF Datagram

(* The parameters a request asks for are bytes.                            *)
LEMMA AskedType ==
    ASSUME NEW opts \in Seq(Option)
    PROVE  /\ AskedFor(opts) \in Seq(Byte) /\ Len(AskedFor(opts)) \in Nat
           /\ IsKnown(KnownOf(AskedFor(opts)), AskedFor(opts), Len(AskedFor(opts)))
<1>1. AskedFor(opts) \in Seq(Byte)
  <2>1. CASE HasOption(opts, PARAMETER_REQUEST_LIST)
    <3>1. PICK i \in 1..Len(opts) : seachForOption(opts, PARAMETER_REQUEST_LIST) = opts[i]
      BY <2>1, FirstOption
    <3>2. opts[i] \in Option
      OBVIOUS
    <3> QED
      BY <2>1, <3>1, <3>2 DEF AskedFor, Option
  <2>2. CASE ~HasOption(opts, PARAMETER_REQUEST_LIST)
    BY <2>2 DEF AskedFor
  <2> QED
    BY <2>1, <2>2
<1>2. Len(AskedFor(opts)) \in Nat
  BY <1>1
<1> QED
  BY <1>1, <1>2, KnownIsKnown

-----------------------------------------------------------------------------
(* Parsing: the first node.                                                *)
LEMMA ReceiveLists ==
    ASSUME Inv, FreshInv, ListInv, Receive
    PROVE  FreshInv' /\ ListInv'
<1>1. /\ pc = "recv" /\ reqOpts = <<>> /\ returnStatus = 0 /\ UNCHANGED <<hdr, returnStatus>>
  BY DEF Receive, FreshInv, replyVars
<1>2. \/ pc' \in {"fellOff", "recv", "nullDeref"} /\ UNCHANGED reqOpts
      \/ /\ pc' = "parse" /\ req' = Head(rxq) /\ pos' = 1 /\ UNCHANGED reqOpts
         /\ rxq # <<>>
  BY <1>1 DEF Receive, msgVars
<1>3. FreshInv'
  BY <1>1, <1>2 DEF FreshInv
<1>4. CASE pc' \in {"fellOff", "recv", "nullDeref"}
  BY <1>3, <1>4 DEF ListInv
<1>5. CASE pc' = "parse"
  <2>1. rxq \in Seq(Datagrams)
    BY DEF Inv, TypeOK
  <2>2. req' \in Datagrams
    BY <1>2, <1>5, <2>1
  <2>3. req'.opts \in Seq(Option) /\ Len(req'.opts) \in Nat
    BY <2>2, OptsOf
  <2>4. Len(reqOpts') = 0 /\ pos' - 1 = 0
    BY <1>1, <1>2, <1>5
  <2>5. ParsedUpTo(pos - 1)'
    BY <2>3, <2>4 DEF ParsedUpTo
  <2> QED
    BY <1>3, <1>5, <2>5 DEF ListInv
<1> QED
  BY <1>2, <1>4, <1>5

(* Parsing: one option.                                                    *)
LEMMA ParseLists ==
    ASSUME Inv, FreshInv, ListInv, ParseRound
    PROVE  FreshInv' /\ ListInv'
<1>1. PICK m \in Malloc(heap) : pc = "parse" /\ StoreOption(m)
  BY DEF ParseRound
<1>2. /\ returnStatus = 0 /\ UNCHANGED <<returnStatus, req>> /\ pc' \in {"parse", "dispatch"}
  BY <1>1 DEF StoreOption, FreshInv
<1>3. FreshInv'
  BY <1>2 DEF FreshInv
<1>4. SUFFICES ASSUME ~oom' PROVE ListInv'
  BY <1>3 DEF ListInv
<1>5. heap \in Int /\ oom \in BOOLEAN
  BY DEF Inv, TypeOK
<1>6. m.ok \in BOOLEAN
  BY <1>5, MallocOutcome
<1>7. oom' = (oom \/ ~m.ok) \/ \E n : oom' = (oom \/ ~m.ok \/ ~n.ok)
  BY <1>1 DEF StoreOption
<1>8. ~oom /\ m.ok
  BY <1>4, <1>5, <1>6, <1>7
<1>9. PICK o \in Seq(Option) : o = req.opts
  BY <1>1, OptsOf DEF Inv, RequestInv
<1>10. PICK k \in Nat : pos = k + 1 /\ k + 1 <= Len(o)
  <2>1. pos \in Nat \ {0} /\ pos <= Len(o)
    BY <1>1, <1>9 DEF Inv, TypeOK, RequestInv
  <2>2. pos - 1 \in Nat /\ pos = (pos - 1) + 1
    BY <2>1
  <2> QED
    BY <2>1, <2>2
<1>11. /\ reqOpts \in Seq(Node) /\ Len(reqOpts) = k
       /\ \A i \in 1..k : reqOpts[i] = Stored(o[i])
  BY <1>1, <1>8, <1>9, <1>10 DEF Inv, TypeOK, ListInv, ParsedUpTo
<1>12. /\ reqOpts' = Append(reqOpts, createOption(o[k + 1].id, o[k + 1].data, m))
       /\ pos' = k + 2
  BY <1>1, <1>8, <1>9, <1>10 DEF StoreOption
<1>13. PICK x : x = createOption(o[k + 1].id, o[k + 1].data, m)
  OBVIOUS
<1>14. x = Stored(o[k + 1])
  BY <1>6, <1>8, <1>13 DEF createOption, Stored
<1>15. /\ Len(reqOpts') = k + 1 /\ reqOpts'[k + 1] = x
       /\ \A i \in 1..k : reqOpts'[i] = reqOpts[i]
  <2>1. reqOpts' = Append(reqOpts, x)
    BY <1>12, <1>13
  <2>2. PICK q \in Seq(Node) : q = reqOpts /\ Len(q) = k
    BY <1>11
  <2>3. Len(Append(q, x)) = k + 1 /\ Append(q, x)[k + 1] = x /\ \A i \in 1..k : Append(q, x)[i] = q[i]
    BY <2>2
  <2> QED
    BY <2>1, <2>2, <2>3
<1>16. \A i \in 1..(k + 1) : reqOpts'[i] = Stored(o[i])
  <2>1. \A i \in 1..(k + 1) : i = k + 1 \/ i \in 1..k
    OBVIOUS
  <2> QED
    BY <1>11, <1>14, <1>15, <2>1
<1>17. ParsedUpTo(k + 1)'
  BY <1>2, <1>9, <1>10, <1>15, <1>16 DEF ParsedUpTo
<1>18. pc' = "dispatch" => k + 1 = Len(o)
  <2>1. pc' = "dispatch" => \/ pos + 1 > Len(req.opts)
                            \/ \E n \in Malloc(m.heap) : ~n.ok /\ oom' = (oom \/ ~m.ok \/ ~n.ok)
    BY <1>1, <1>8 DEF StoreOption
  <2>2. ASSUME NEW n \in Malloc(m.heap), ~n.ok, oom' = (oom \/ ~m.ok \/ ~n.ok) PROVE FALSE
    BY <1>4, <2>2
  <2>3. Len(o) \in Nat
    BY <1>9
  <2> QED
    BY <1>9, <1>10, <2>1, <2>2, <2>3
<1>19. req' \in Datagrams
  BY <1>1, <1>2 DEF Inv, RequestInv
<1>20. CASE pc' = "parse"
  <2>1. pos' - 1 = k + 1
    BY <1>10, <1>12
  <2> QED
    BY <1>17, <1>20, <2>1 DEF ListInv
<1>21. CASE pc' = "dispatch"
  <2>1. k + 1 = Len(req'.opts)
    BY <1>2, <1>9, <1>18, <1>21
  <2> QED
    BY <1>17, <1>19, <1>21, <2>1 DEF ListInv
<1> QED
  BY <1>2, <1>20, <1>21

(* The switch: the handler is the one of a type the request has.           *)
LEMMA DispatchLists ==
    ASSUME Inv, FreshInv, ListInv, Dispatch
    PROVE  FreshInv' /\ ListInv'
<1>1. pc = "dispatch" /\ returnStatus = 0 /\ UNCHANGED <<returnStatus, hdr, oom>>
  BY DEF Dispatch, FreshInv, memVars
<1>2. CASE ~HasOption(reqOpts, DHCP_MESSAGE_TYPE)
  <2>1. pc' = "recv" /\ reqOpts' = <<>>
    BY <1>2 DEF Dispatch
  <2> QED
    BY <1>1, <2>1 DEF FreshInv, ListInv
<1>3. CASE HasOption(reqOpts, DHCP_MESSAGE_TYPE)
  <2>1. PICK type : type = seachForOption(reqOpts, DHCP_MESSAGE_TYPE)
    OBVIOUS
  <2>2. UNCHANGED <<req, pos, reqOpts>> /\ pc' \in {"nullDeref", "reply", "fill"}
    BY <1>3 DEF Dispatch, msgVars
  <2>3. FreshInv'
    BY <1>1, <2>2 DEF FreshInv
  <2>4. CASE pc' \in {"nullDeref", "reply"}
    BY <1>1, <2>3, <2>4 DEF ListInv
  <2>5. CASE pc' = "fill"
    <3>1. PICK b \in TypeBytes(type) : kind' = HandlerOf(b) /\ HandlerOf(b) # 0
      BY <1>3, <2>1, <2>5 DEF Dispatch
    <3>2. SUFFICES ASSUME ~oom PROVE ListInv'
      BY <1>1, <2>3 DEF ListInv
    <3>3. req \in Datagrams /\ ParsedUpTo(Len(req.opts)) /\ reqOpts \in Seq(Node)
      BY <1>1, <3>2 DEF ListInv, Inv, TypeOK
    <3>4. PICK o \in Seq(Option) : o = req.opts
      BY <3>3, OptsOf
    <3>5. HasOption(o, DHCP_MESSAGE_TYPE) /\ type = Stored(seachForOption(o, DHCP_MESSAGE_TYPE))
      BY <1>3, <2>1, <3>3, <3>4, SearchParsed
    <3>6. TypeBytes(type) = TypeBytes(seachForOption(o, DHCP_MESSAGE_TYPE))
      BY <3>5 DEF TypeBytes, Stored
    <3>7. b \in {DHCP_DISCOVER, DHCP_REQUEST} /\ b \in Byte
      BY <3>1 DEF HandlerOf, DHCP_DISCOVER, DHCP_REQUEST, Byte
    <3>8. TypeOfRequest(b)'
      BY <2>2, <3>1, <3>4, <3>6, <3>7 DEF TypeOfRequest
    <3>9. req' \in Datagrams /\ ParsedUpTo(Len(req.opts))'
      BY <2>2, <3>3 DEF ParsedUpTo
    <3> QED
      BY <2>5, <3>1, <3>7, <3>8, <3>9 DEF ListInv
  <2> QED
    BY <2>2, <2>4, <2>5
<1> QED
  BY <1>2, <1>3

(* The part of ListInv that a handler does not disturb.                    *)
LEMMA HandlerKeeps ==
    ASSUME ListInv, ~oom, pc \in {"fill", "answer", "lease"},
           UNCHANGED <<req, pos, reqOpts, kind>>
    PROVE  /\ req' \in Datagrams /\ ParsedUpTo(Len(req.opts))'
           /\ \E t \in Byte : TypeOfRequest(t)' /\ kind' = HandlerOf(t)
<1>1. req' \in Datagrams /\ ParsedUpTo(Len(req.opts))'
  BY DEF ListInv, ParsedUpTo
<1>2. PICK t \in Byte : TypeOfRequest(t) /\ kind = HandlerOf(t)
  BY DEF ListInv
<1>3. TypeOfRequest(t)'
  BY <1>2 DEF TypeOfRequest
<1> QED
  BY <1>1, <1>2, <1>3

(* fillDhcpPacket: the type, and no parameters yet.                        *)
LEMMA FillLists ==
    ASSUME Inv, FreshInv, ListInv, fillDhcpPacket
    PROVE  FreshInv' /\ ListInv'
<1>1. /\ pc = "fill" /\ returnStatus = 0 /\ UNCHANGED <<returnStatus, req, pos, reqOpts, kind>>
  BY DEF fillDhcpPacket, FreshInv, msgVars
<1>2. PICK n \in Malloc(heap) : \E m \in Malloc(n.heap) :
        \/ pc' = "nullDeref"
        \/ /\ hdr' = [to |-> req.client, wire |-> <<>>]
           /\ replyOpts' = <<createOption(DHCP_MESSAGE_TYPE, <<kind>>, m)>>
           /\ count' = 1
           /\ oom' = (oom \/ ~m.ok)
           /\ pc' = IF HasOption(reqOpts, PARAMETER_REQUEST_LIST) THEN "answer" ELSE "lease"
  BY DEF fillDhcpPacket
<1>3. CASE pc' = "nullDeref"
  BY <1>3 DEF FreshInv, ListInv
<1>4. CASE pc' # "nullDeref"
  <2>1. PICK m \in Malloc(n.heap) :
           /\ hdr' = [to |-> req.client, wire |-> <<>>]
           /\ replyOpts' = <<createOption(DHCP_MESSAGE_TYPE, <<kind>>, m)>>
           /\ count' = 1
           /\ oom' = (oom \/ ~m.ok)
           /\ pc' = IF HasOption(reqOpts, PARAMETER_REQUEST_LIST) THEN "answer" ELSE "lease"
    BY <1>2, <1>4
  <2>2. FreshInv'
    BY <1>1, <2>1 DEF FreshInv
  <2>3. SUFFICES ASSUME ~oom' PROVE ListInv'
    BY <2>2 DEF ListInv
  <2>4. m.ok = TRUE /\ ~oom
    <3>1. heap \in Int /\ oom \in BOOLEAN
      BY DEF Inv, TypeOK
    <3>2. n.heap \in Int
      BY <3>1, MallocOutcome
    <3>3. m.ok \in BOOLEAN
      BY <3>2, MallocOutcome
    <3> QED
      BY <2>1, <2>3, <3>1, <3>3
  <2>5. /\ req' \in Datagrams /\ ParsedUpTo(Len(req.opts))'
        /\ \E t \in Byte : TypeOfRequest(t)' /\ kind' = HandlerOf(t)
    BY <1>1, <2>4, HandlerKeeps
  <2>6. PICK o \in Seq(Option) : o = req.opts /\ o = req'.opts
    BY <1>1, <2>5, OptsOf
  <2>7. HasOption(reqOpts, PARAMETER_REQUEST_LIST) <=> HasOption(o, PARAMETER_REQUEST_LIST)
    <3>1. ParsedUpTo(Len(req.opts)) /\ reqOpts \in Seq(Node)
      BY <1>1, <2>4 DEF ListInv, Inv, TypeOK
    <3> QED
      BY <2>6, <3>1, SearchParsed
  <2>8. PICK a \in Seq(Byte) : a = AskedFor(o) /\ Len(a) \in Nat /\ IsKnown(KnownOf(a), a, Len(a))
    BY AskedType
  <2>9. KnownOf(a)[0] = <<>>
    BY <2>8 DEF IsKnown
  <2>10. AnswersTo(replyOpts, <<>>)'
    <3>1. Len(replyOpts') = 1 /\ replyOpts'[1] = createOption(DHCP_MESSAGE_TYPE, <<kind>>, m)
      BY <2>1
    <3>2. createOption(DHCP_MESSAGE_TYPE, <<kind>>, m)
            = [id |-> DHCP_MESSAGE_TYPE, data |-> <<kind>>, ok |-> TRUE]
      BY <2>4 DEF createOption
    <3> QED
      BY <1>1, <3>1, <3>2 DEF AnswersTo
  <2>11. CASE pc' = "answer"
    <3>1. HasOption(o, PARAMETER_REQUEST_LIST)
      BY <2>1, <2>7, <2>11
    <3>2. count' - 1 = 0 /\ 0 <= Len(a)
      BY <2>1, <2>8
    <3> QED
      BY <2>5, <2>6, <2>8, <2>9, <2>10, <2>11, <3>1, <3>2 DEF ListInv
  <2>12. CASE pc' = "lease"
    <3>1. ~HasOption(o, PARAMETER_REQUEST_LIST)
      BY <2>1, <2>7, <2>12
    <3>2. a = <<>> /\ Len(a) = 0
      BY <2>8, <3>1 DEF AskedFor
    <3> QED
      BY <2>5, <2>6, <2>8, <2>9, <2>10, <2>12, <3>2 DEF ListInv
  <2> QED
    BY <2>1, <2>11, <2>12
<1> QED
  BY <1>3, <1>4

(* An answer appended to the reply list.                                   *)
LEMMA AnswerAppended ==
    ASSUME NEW list \in Seq(Node), NEW known \in Seq(Codes), AnswersTo(list, known),
           NEW c \in Codes, NEW x, x = [id |-> c, data |-> Answers[c], ok |-> TRUE],
           x \in Node
    PROVE  AnswersTo(Append(list, x), Append(known, c))
<1>1. PICK n \in Nat : n = Len(known) /\ Len(list) = n + 1
  BY DEF AnswersTo
<1>2. PICK l : l = Append(list, x)
  OBVIOUS
<1>3. PICK k : k = Append(known, c)
  OBVIOUS
<1>4. Len(l) = n + 2 /\ l[n + 2] = x /\ \A i \in 1..(n + 1) : l[i] = list[i]
  BY <1>1, <1>2
<1>5. Len(k) = n + 1 /\ k[n + 1] = c /\ \A i \in 1..n : k[i] = known[i]
  BY <1>1, <1>3
<1>6. l[1] = [id |-> DHCP_MESSAGE_TYPE, data |-> <<kind>>, ok |-> TRUE]
  <2>1. 1 \in 1..(n + 1)
    OBVIOUS
  <2> QED
    BY <1>4, <2>1 DEF AnswersTo
<1>7. ASSUME NEW j \in 1..(n + 1)
      PROVE  l[j + 1] = [id |-> k[j], data |-> Answers[k[j]], ok |-> TRUE]
  <2>1. CASE j = n + 1
    <3>1. j + 1 = n + 2
      BY <2>1
    <3> QED
      BY <1>4, <1>5, <2>1, <3>1
  <2>2. CASE j # n + 1
    <3>1. j \in 1..n /\ j + 1 \in 1..(n + 1)
      BY <2>2
    <3>2. list[j + 1] = [id |-> known[j], data |-> Answers[known[j]], ok |-> TRUE]
      BY <1>1, <3>1 DEF AnswersTo
    <3>3. l[j + 1] = list[j + 1] /\ k[j] = known[j]
      BY <1>4, <1>5, <3>1
    <3> QED
      BY <3>2, <3>3, Zenon
  <2> QED
    BY <2>1, <2>2
<1>8. Len(l) = Len(k) + 1
  BY <1>4, <1>5
<1>9. \A j \in 1..Len(k) : l[j + 1] = [id |-> k[j], data |-> Answers[k[j]], ok |-> TRUE]
  BY <1>5, <1>7
<1> QED
  BY <1>2, <1>3, <1>6, <1>8, <1>9 DEF AnswersTo

(* answerClientRequest: each known parameter in its turn.                  *)
LEMMA AnswerLists ==
    ASSUME Inv, FreshInv, ListInv, answerClientRequest
    PROVE  FreshInv' /\ ListInv'
<1>1. /\ pc = "answer" /\ returnStatus = 0
      /\ UNCHANGED <<returnStatus, req, pos, reqOpts, kind, hdr>>
  BY DEF answerClientRequest, FreshInv, msgVars
<1>2. PICK prl : prl = seachForOption(reqOpts, PARAMETER_REQUEST_LIST)
  OBVIOUS
<1>3. \/ count > Len(prl.data) /\ pc' = "lease" /\ UNCHANGED <<count, replyOpts, oom>>
      \/ pc' = "nullDeref"
      \/ /\ ~(count > Len(prl.data)) /\ prl.data[count] \notin DOMAIN Answers
         /\ count' = count + 1 /\ pc' = "answer" /\ UNCHANGED <<replyOpts, oom>>
      \/ /\ ~(count > Len(prl.data)) /\ prl.data[count] \in DOMAIN Answers
         /\ count' = count + 1 /\ pc' = "answer"
         /\ \E m \in Malloc(heap) : \E n \in Malloc(m.heap) :
              /\ replyOpts' = IF n.ok
                    THEN Append(replyOpts, createOption(prl.data[count], Answers[prl.data[count]], m))
                    ELSE replyOpts
              /\ oom' = (oom \/ ~m.ok \/ ~n.ok)
  BY <1>1, <1>2 DEF answerClientRequest, memVars
<1>4. FreshInv'
  BY <1>1, <1>3 DEF FreshInv
<1>5. SUFFICES ASSUME ~oom', pc' # "nullDeref" PROVE ListInv'
  BY <1>4 DEF ListInv
<1>6. oom \in BOOLEAN /\ heap \in Int /\ count \in Nat \ {0} /\ replyOpts \in Seq(Node)
      /\ reqOpts \in Seq(Node)
  BY DEF Inv, TypeOK
<1>7. ~oom
  BY <1>3, <1>5, <1>6
<1>8. /\ req' \in Datagrams /\ ParsedUpTo(Len(req.opts))'
      /\ \E t \in Byte : TypeOfRequest(t)' /\ kind' = HandlerOf(t)
  BY <1>1, <1>7, HandlerKeeps
<1>9. PICK o \in Seq(Option) : o = req.opts /\ o = req'.opts
  BY <1>1, <1>8, OptsOf
<1>10. PICK a \in Seq(Byte) : a = AskedFor(o) /\ Len(a) \in Nat /\ IsKnown(KnownOf(a), a, Len(a))
  BY AskedType
<1>11. /\ HasOption(o, PARAMETER_REQUEST_LIST) /\ count - 1 <= Len(a)
       /\ AnswersTo(replyOpts, KnownOf(a)[count - 1])
  BY <1>1, <1>7, <1>9, <1>10 DEF ListInv
<1>12. prl.data = a
  <2>1. ParsedUpTo(Len(req.opts))
    BY <1>1, <1>7 DEF ListInv
  <2>2. prl = Stored(seachForOption(o, PARAMETER_REQUEST_LIST))
    BY <1>2, <1>6, <1>9, <1>11, <2>1, SearchParsed
  <2> QED
    BY <1>10, <1>11, <2>2 DEF Stored, AskedFor
<1>13. PICK K \in [0..Len(a) -> Seq(Codes)] :
         /\ K = KnownOf(a)
         /\ \A i \in 1..Len(a) : K[i] = IF a[i] \in Codes THEN Append(K[i - 1], a[i]) ELSE K[i - 1]
  BY <1>10 DEF IsKnown
<1>14. PICK k \in Nat : count = k + 1 /\ k <= Len(a) /\ count - 1 = k
  <2>1. count - 1 \in Nat /\ count = (count - 1) + 1
    BY <1>6
  <2> QED
    BY <1>11, <2>1
<1>15. AnswersTo(replyOpts, K[k]) /\ K[k] \in Seq(Codes)
  <2>1. k \in 0..Len(a)
    BY <1>10, <1>14
  <2>2. K[k] \in Seq(Codes)
    BY <1>13, <2>1
  <2>3. AnswersTo(replyOpts, K[k])
    BY <1>11, <1>13, <1>14, Zenon
  <2> QED
    BY <2>2, <2>3
<1>16. DOMAIN Answers = Codes
  BY DEF Answers, Codes
<1>17. CASE pc' = "lease"
  <2>1. k = Len(a) /\ replyOpts' = replyOpts
    BY <1>3, <1>10, <1>12, <1>14, <1>17
  <2>2. AnswersTo(replyOpts, K[Len(a)])'
    BY <1>1, <1>15, <2>1 DEF AnswersTo
  <2> QED
    BY <1>8, <1>9, <1>10, <1>13, <1>17, <2>2 DEF ListInv
<1>18. ASSUME pc' = "answer", count' = count + 1, ~(count > Len(a)), AnswersTo(replyOpts, K[k + 1])'
       PROVE  ListInv'
  <2>1. count' - 1 = k + 1 /\ k + 1 <= Len(a)
    BY <1>10, <1>14, <1>18
  <2> QED
    BY <1>8, <1>9, <1>10, <1>11, <1>13, <1>18, <2>1 DEF ListInv
<1>19. ~(count > Len(a)) => k + 1 \in 1..Len(a) /\ k + 1 - 1 = k
  BY <1>10, <1>14
<1>20. CASE pc' = "answer" /\ prl.data[count] \notin DOMAIN Answers
  <2>1. ~(count > Len(a)) /\ count' = count + 1 /\ replyOpts' = replyOpts /\ a[k + 1] \notin Codes
    BY <1>3, <1>12, <1>14, <1>16, <1>20
  <2>2. K[k + 1] = K[k]
    BY <1>13, <1>19, <2>1
  <2>3. AnswersTo(replyOpts, K[k + 1])'
    BY <1>1, <1>15, <2>1, <2>2 DEF AnswersTo
  <2> QED
    BY <1>18, <1>20, <2>1, <2>3
<1>21. CASE pc' = "answer" /\ prl.data[count] \in DOMAIN Answers
  <2>1. PICK c \in Codes : c = prl.data[count] /\ c = a[k + 1]
    BY <1>12, <1>14, <1>16, <1>21
  <2>2. /\ ~(count > Len(a)) /\ count' = count + 1
        /\ \E m \in Malloc(heap) : \E n \in Malloc(m.heap) :
              /\ replyOpts' = IF n.ok THEN Append(replyOpts, createOption(c, Answers[c], m))
                              ELSE replyOpts
              /\ oom' = (oom \/ ~m.ok \/ ~n.ok)
    BY <1>3, <1>12, <1>21, <2>1
  <2>3. PICK m \in Malloc(heap) : \E n \in Malloc(m.heap) :
              /\ replyOpts' = IF n.ok THEN Append(replyOpts, createOption(c, Answers[c], m))
                              ELSE replyOpts
              /\ oom' = (oom \/ ~m.ok \/ ~n.ok)
    BY <2>2
  <2>4. m.ok \in BOOLEAN
    BY <1>6, MallocOutcome
  <2>5. m.ok = TRUE /\ replyOpts' = Append(replyOpts, createOption(c, Answers[c], m))
    BY <1>5, <2>3, <2>4
  <2>6. PICK x : x = createOption(c, Answers[c], m)
    OBVIOUS
  <2>7. x = [id |-> c, data |-> Answers[c], ok |-> TRUE]
    BY <2>5, <2>6 DEF createOption
  <2>8. x \in Node
    <3>1. c \in Byte /\ Answers[c] \in Seq(Byte)
      BY <1>16, AnswersAreOptions
    <3> QED
      BY <1>6, <2>6, <3>1, NodeType
  <2>9. AnswersTo(Append(replyOpts, x), Append(K[k], c))
    BY <1>6, <1>15, <2>7, <2>8, AnswerAppended
  <2>10. K[k + 1] = Append(K[k], c)
    <3>1. k + 1 \in 1..Len(a) /\ k + 1 - 1 = k
      BY <1>19, <2>2
    <3>2. PICK i \in 1..Len(a) : i = k + 1 /\ i - 1 = k
      BY <3>1
    <3>3. K[i] = Append(K[i - 1], a[i])
      BY <1>13, <2>1, <3>2
    <3> QED
      BY <2>1, <3>2, <3>3, Zenon
  <2>11. AnswersTo(replyOpts, K[k + 1])'
    BY <1>1, <2>5, <2>6, <2>9, <2>10 DEF AnswersTo
  <2> QED
    BY <1>18, <1>21, <2>2, <2>11
<1> QED
  BY <1>3, <1>5, <1>17, <1>20, <1>21

(* Appending one element, and putting one before.                          *)
LEMMA Appended ==
    ASSUME NEW S, NEW s \in Seq(S), NEW x \in S
    PROVE  /\ Append(s, x) \in Seq(S) /\ Len(Append(s, x)) = Len(s) + 1
           /\ Append(s, x)[Len(s) + 1] = x
           /\ \A i \in 1..Len(s) : Append(s, x)[i] = s[i]
OBVIOUS

LEMMA Joined ==
    ASSUME NEW S, NEW s \in Seq(S), NEW x \in S
    PROVE  /\ s \o <<x>> \in Seq(S) /\ Len(s \o <<x>>) = Len(s) + 1
           /\ (s \o <<x>>)[Len(s) + 1] = x
           /\ \A i \in 1..Len(s) : (s \o <<x>>)[i] = s[i]
           /\ <<x>> \o s \in Seq(S) /\ Len(<<x>> \o s) = Len(s) + 1
           /\ (<<x>> \o s)[1] = x
           /\ \A i \in 1..Len(s) : (<<x>> \o s)[i + 1] = s[i]
<1>1. /\ s \o <<x>> \in Seq(S) /\ Len(s \o <<x>>) = Len(s) + 1
      /\ <<x>> \o s \in Seq(S) /\ Len(<<x>> \o s) = Len(s) + 1
  OBVIOUS
<1>2. (s \o <<x>>)[Len(s) + 1] = x /\ (<<x>> \o s)[1] = x
  OBVIOUS
<1>3. \A i \in 1..Len(s) : (s \o <<x>>)[i] = s[i]
  OBVIOUS
<1>4. \A i \in 1..Len(s) : (<<x>> \o s)[i + 1] = s[i]
  OBVIOUS
<1> QED
  BY <1>1, <1>2, <1>3, <1>4

(* What is serialised of a list element is an option.                      *)
LEMMA OptionOfNode ==
    \A x \in Node : OptionOf(x) \in Option /\ OptionOf(x) = [id |-> x.id, data |-> x.data]
BY DEF Node, Option, OptionOf

(* The serialised reply list is the reply of the reference definition.     *)
LEMMA SerialisedReply ==
    ASSUME NEW list \in Seq(Node), NEW opts \in Seq(Option), NEW t, NEW last \in Node,
           AnswersTo(list, KnownOf(AskedFor(opts))[Len(AskedFor(opts))]),
           kind = IF t = DHCP_DISCOVER THEN DHCP_OFFER ELSE DHCP_ACK,
           last = [id |-> IP_ADDRESS_LEASE_TIME, data |-> infLeaseTime, ok |-> TRUE],
           NEW l, l = Append(list, last)
    PROVE  [i \in DOMAIN l |-> OptionOf(l[i])] = ReplyTo(t, opts)
<1>1. PICK a \in Seq(Byte) : a = AskedFor(opts) /\ Len(a) \in Nat /\ IsKnown(KnownOf(a), a, Len(a))
  BY AskedType
<1>2. PICK known \in Seq(Codes) : known = KnownOf(a)[Len(a)]
  <2>1. Len(a) \in 0..Len(a) /\ KnownOf(a) \in [0..Len(a) -> Seq(Codes)]
    BY <1>1 DEF IsKnown
  <2> QED
    BY <2>1
<1>3. PICK n \in Nat : n = Len(known) /\ Len(list) = n + 1
  BY <1>1, <1>2 DEF AnswersTo
<1>4. /\ list[1] = [id |-> DHCP_MESSAGE_TYPE, data |-> <<kind>>, ok |-> TRUE]
      /\ \A j \in 1..n : list[j + 1] = [id |-> known[j], data |-> Answers[known[j]], ok |-> TRUE]
  BY <1>1, <1>2, <1>3 DEF AnswersTo
<1>5. /\ l \in Seq(Node) /\ Len(l) = n + 2 /\ DOMAIN l = 1..(n + 2) /\ l[n + 2] = last
      /\ \A i \in 1..(n + 1) : l[i] = list[i]
  <2>1. PICK k \in Nat : k = Len(list) /\ k = n + 1 /\ k + 1 = n + 2
    BY <1>3
  <2>2. /\ l \in Seq(Node) /\ Len(l) = k + 1 /\ l[k + 1] = last
        /\ \A i \in 1..k : l[i] = list[i]
    <3>1. /\ Append(list, last) \in Seq(Node) /\ Len(Append(list, last)) = Len(list) + 1
          /\ Append(list, last)[Len(list) + 1] = last
          /\ \A i \in 1..Len(list) : Append(list, last)[i] = list[i]
      BY Appended
    <3> QED
      BY <2>1, <3>1, Zenon
  <2>3. DOMAIN l = 1..Len(l)
    BY <2>2
  <2> QED
    BY <2>1, <2>2, <2>3, Zenon
<1>6. PICK w : w = [i \in DOMAIN l |-> OptionOf(l[i])]
  OBVIOUS
<1>7. w = [i \in 1..(n + 2) |-> OptionOf(l[i])] /\ \A i \in 1..(n + 2) : w[i] = OptionOf(l[i])
  BY <1>5, <1>6
<1>8. w[1] = [id |-> DHCP_MESSAGE_TYPE, data |-> <<kind>>]
  <2>1. 1 \in 1..(n + 2) /\ 1 \in 1..(n + 1)
    OBVIOUS
  <2> QED
    BY <1>4, <1>5, <1>7, <2>1 DEF OptionOf
<1>9. w[n + 2] = [id |-> IP_ADDRESS_LEASE_TIME, data |-> infLeaseTime]
  <2>1. n + 2 \in 1..(n + 2)
    OBVIOUS
  <2> QED
    BY <1>5, <1>7, <2>1 DEF OptionOf
<1>10. \A j \in 1..n : w[j + 1] = [id |-> known[j], data |-> Answers[known[j]]]
  <2> SUFFICES ASSUME NEW j \in 1..n PROVE w[j + 1] = [id |-> known[j], data |-> Answers[known[j]]]
    OBVIOUS
  <2>1. j + 1 \in 1..(n + 1) /\ j + 1 \in 1..(n + 2)
    OBVIOUS
  <2>2. l[j + 1] = [id |-> known[j], data |-> Answers[known[j]], ok |-> TRUE]
    BY <1>4, <1>5, <2>1
  <2>3. w[j + 1] = OptionOf(l[j + 1])
    BY <1>7, <2>1
  <2>4. OptionOf([id |-> known[j], data |-> Answers[known[j]], ok |-> TRUE])
           = [id |-> known[j], data |-> Answers[known[j]]]
    BY DEF OptionOf
  <2> QED
    BY <2>2, <2>3, <2>4, Zenon
<1>11. \A j \in 1..n : Answers[known[j]] = IF known[j] = SUBNET_MASK THEN netmask ELSE gw
  <2>1. \A j \in 1..n : known[j] \in Codes
    BY <1>3
  <2> QED
    BY <2>1 DEF Codes, Answers
<1>12. PICK mid : mid = [i \in DOMAIN known |->
              [id |-> known[i], data |-> IF known[i] = SUBNET_MASK THEN netmask ELSE gw]]
  OBVIOUS
<1>13. DOMAIN known = 1..n
  <2>1. DOMAIN known = 1..Len(known)
    OBVIOUS
  <2> QED
    BY <1>3, <2>1
<1>14. \A j \in 1..n : mid[j] = [id |-> known[j], data |-> Answers[known[j]]]
  BY <1>11, <1>12, <1>13
<1>15. \A i \in 1..(n + 2) : w[i] \in Option
  <2>1. \A i \in 1..(n + 2) : l[i] \in Node
    BY <1>5
  <2> QED
    BY <1>7, <2>1, OptionOfNode
<1>16. mid \in Seq(Option) /\ Len(mid) = n
  <2>1. mid \in [1..n -> Option]
    <3>1. \A j \in 1..n : mid[j] = w[j + 1]
      BY <1>10, <1>14
    <3>2. \A j \in 1..n : mid[j] \in Option
      <4>1. \A j \in 1..n : j + 1 \in 1..(n + 2)
        OBVIOUS
      <4>2. \A j \in 1..n : w[j + 1] \in Option
        BY <1>15, <4>1, Zenon
      <4> QED
        BY <3>1, <4>2, Zenon
    <3> QED
      BY <1>12, <1>13, <3>2
  <2> QED
    BY <2>1
<1>17. PICK h \in Option : h = w[1]
  BY <1>15
<1>18. PICK z \in Option : z = w[n + 2]
  BY <1>15
<1>19. ReplyTo(t, opts) = <<h>> \o mid \o <<z>>
  BY <1>1, <1>2, <1>8, <1>9, <1>12, <1>17, <1>18 DEF ReplyTo
<1>20. PICK r : r = <<h>> \o mid \o <<z>>
  OBVIOUS
<1>21. PICK f \in Seq(Option) : f = <<h>> \o mid /\ Len(f) = n + 1 /\ f[1] = h
                                /\ \A j \in 1..n : f[j + 1] = mid[j]
  <2>1. /\ <<h>> \o mid \in Seq(Option) /\ Len(<<h>> \o mid) = Len(mid) + 1
        /\ (<<h>> \o mid)[1] = h
        /\ \A i \in 1..Len(mid) : (<<h>> \o mid)[i + 1] = mid[i]
    BY <1>16, Joined, SMTT(30)
  <2> QED
    BY <1>16, <2>1, Zenon
<1>22. /\ r \in Seq(Option) /\ Len(r) = n + 2 /\ r[n + 2] = z
       /\ \A i \in 1..(n + 1) : r[i] = f[i]
  <2>1. PICK k \in Nat : k = Len(f) /\ k = n + 1 /\ k + 1 = n + 2
    BY <1>21
  <2>2. /\ f \o <<z>> \in Seq(Option) /\ Len(f \o <<z>>) = Len(f) + 1
        /\ (f \o <<z>>)[Len(f) + 1] = z
        /\ \A i \in 1..Len(f) : (f \o <<z>>)[i] = f[i]
    BY Joined
  <2>3. r = f \o <<z>>
    BY <1>20, <1>21
  <2> QED
    BY <2>1, <2>2, <2>3, Zenon
<1>23. \A i \in 1..(n + 2) : r[i] = w[i]
  <2> SUFFICES ASSUME NEW i \in 1..(n + 2) PROVE r[i] = w[i]
    OBVIOUS
  <2>1. CASE i = 1
    BY <1>17, <1>21, <1>22, <2>1
  <2>2. CASE i = n + 2
    BY <1>18, <1>22, <2>2
  <2>3. CASE i \in 2..(n + 1)
    <3>1. PICK j \in 1..n : i = j + 1
      <4>1. i - 1 \in 1..n /\ i = (i - 1) + 1
        BY <2>3
      <4> QED
        BY <4>1
    <3>2. r[i] = mid[j]
      BY <1>21, <1>22, <2>3, <3>1
    <3> QED
      BY <1>10, <1>14, <3>1, <3>2
  <2> QED
    BY <2>1, <2>2, <2>3
<1>24. r = w
  <2>1. DOMAIN r = 1..(n + 2)
    BY <1>22
  <2>2. r = [i \in 1..(n + 2) |-> r[i]]
    <3>1. r \in [1..Len(r) -> Option]
      BY <1>22
    <3>2. r = [i \in 1..Len(r) |-> r[i]]
      BY <3>1
    <3> QED
      BY <1>22, <3>2, Zenon
  <2>3. w = [i \in 1..(n + 2) |-> w[i]]
    BY <1>7
  <2> QED
    BY <1>23, <2>2, <2>3
<1> QED
  BY <1>6, <1>19, <1>20, <1>24

(* The end of a handler.                                                   *)
LEMMA FinishLists ==
    ASSUME Inv, FreshInv, ListInv, FinishReply
    PROVE  FreshInv' /\ ListInv'
<1>1. /\ pc = "lease" /\ returnStatus = 0 /\ hdr.to = req.client
      /\ UNCHANGED <<req, pos, reqOpts, kind>>
  BY DEF FinishReply, FreshInv, msgVars
<1>2. /\ heap \in Int /\ oom \in BOOLEAN /\ replyOpts \in Seq(Node)
      /\ hdr \in [to : Clients \union {NoClient}, wire : Seq(Option)]
  BY DEF Inv, TypeOK
<1> DEFINE ListOf(mm) == Append(replyOpts, createOption(IP_ADDRESS_LEASE_TIME, infLeaseTime, mm))
<1>3. PICK m \in Malloc(heap) : \E n \in Malloc(m.heap) :
        /\ oom' = (oom \/ ~m.ok \/ ~n.ok)
        /\ \/ pc' \in {"reply", "nullDeref"} /\ returnStatus' = returnStatus
           \/ /\ pc' = "reply"
              /\ hdr' = [hdr EXCEPT !.wire = [i \in DOMAIN ListOf(m) |-> OptionOf(ListOf(m)[i])]]
              /\ returnStatus' = StatusOf(kind)
  BY DEF FinishReply
<1>4. CASE pc' \in {"reply", "nullDeref"} /\ returnStatus' = returnStatus
  BY <1>1, <1>4 DEF FreshInv, ListInv
<1>5. CASE /\ pc' = "reply"
           /\ hdr' = [hdr EXCEPT !.wire = [i \in DOMAIN ListOf(m) |-> OptionOf(ListOf(m)[i])]]
           /\ returnStatus' = StatusOf(kind)
  <2>1. hdr'.to = hdr.to /\ hdr'.wire = [i \in DOMAIN ListOf(m) |-> OptionOf(ListOf(m)[i])]
    BY <1>2, <1>5
  <2>2. FreshInv'
    BY <1>1, <1>5, <2>1 DEF FreshInv
  <2>3. SUFFICES ASSUME ~oom' PROVE ListInv'
    BY <2>2 DEF ListInv
  <2>4. m.ok \in BOOLEAN
    BY <1>2, MallocOutcome
  <2>5. m.ok = TRUE /\ ~oom
    BY <1>2, <1>3, <2>3, <2>4
  <2>6. PICK t \in Byte : TypeOfRequest(t) /\ kind = HandlerOf(t)
    BY <1>1, <2>5 DEF ListInv
  <2>7. PICK o \in Seq(Option) : o = req.opts /\ o = req'.opts
    BY <1>1, <2>5, OptsOf DEF ListInv
  <2>8. AnswersTo(replyOpts, KnownOf(AskedFor(o))[Len(AskedFor(o))])
    BY <1>1, <2>5, <2>7 DEF ListInv
  <2>9. PICK last : last = createOption(IP_ADDRESS_LEASE_TIME, infLeaseTime, m)
    OBVIOUS
  <2>10. last \in Node
    <3>1. IP_ADDRESS_LEASE_TIME \in Byte /\ infLeaseTime \in Seq(Byte)
      BY DEF IP_ADDRESS_LEASE_TIME, infLeaseTime, Byte
    <3> QED
      BY <1>2, <2>9, <3>1, NodeType
  <2>11. last = [id |-> IP_ADDRESS_LEASE_TIME, data |-> infLeaseTime, ok |-> TRUE]
    BY <2>5, <2>9 DEF createOption
  <2>12. /\ kind = IF t = DHCP_DISCOVER THEN DHCP_OFFER ELSE DHCP_ACK
         /\ StatusOf(kind) = IF t = DHCP_DISCOVER THEN 1 ELSE 2
    BY <2>6 DEF TypeOfRequest, HandlerOf, StatusOf, DHCP_DISCOVER, DHCP_REQUEST, DHCP_OFFER, DHCP_ACK
  <2>13. PICK l : l = Append(replyOpts, last)
    OBVIOUS
  <2>14. [i \in DOMAIN l |-> OptionOf(l[i])] = ReplyTo(t, o)
    BY <1>2, <2>8, <2>10, <2>11, <2>12, <2>13, SerialisedReply
  <2>15. hdr'.wire = ReplyTo(t, req'.opts)
    BY <2>1, <2>7, <2>9, <2>13, <2>14
  <2>16. TypeOfRequest(t)'
    BY <1>1, <2>6 DEF TypeOfRequest
  <2> QED
    BY <1>5, <2>12, <2>15, <2>16 DEF ListInv
<1> QED
  BY <1>3, <1>4, <1>5

(* Every step of the server, with a stack of zeros.                        *)
LEMMA ListsStep ==
    ASSUME StackGarbage = {0}, Inv, FreshInv, ListInv, [Next]_vars
    PROVE  FreshInv' /\ ListInv'
<1>1. CASE EnterListener
  BY <1>1 DEF EnterListener, FreshInv, ListInv, msgVars
<1>2. CASE deleteOptionLists
  BY <1>2 DEF deleteOptionLists, AfterListener, FreshInv, ListInv
<1>3. CASE start_application \/ sendDhcpReply \/ closeApplication \/ ResumeHttp \/ SuspendSelf
  <2>1. /\ pc' \in {"call", "clean", "resume", "suspend", "suspended"}
        /\ pc' = "call" => pc = "start" /\ UNCHANGED reqOpts
    BY <1>3 DEF start_application, sendDhcpReply, closeApplication, ResumeHttp, SuspendSelf, msgVars
  <2> QED
    BY <2>1 DEF FreshInv, ListInv
<1>4. CASE PollEmpty \/ Halted \/ (\E d \in Datagrams : Arrive(d)) \/ UNCHANGED vars
  <2>1. UNCHANGED <<pc, msgVars, replyVars, returnStatus, oom>>
    BY <1>4 DEF PollEmpty, Halted, Arrive, vars, memVars
  <2> QED
    BY <2>1 DEF FreshInv, ListInv, ParsedUpTo, TypeOfRequest, AnswersTo, msgVars, replyVars
<1> QED
  BY <1>1, <1>2, <1>3, <1>4, ReceiveLists, ParseLists, DispatchLists, FillLists, AnswerLists,
     FinishLists DEF Next, dhcpTask, dhcpListener

(* With a stack of zeros and as long as no malloc fails, the reply that    *)
(* sendDhcpReply broadcasts goes to the client of the request in hand, has *)
(* the type that answers its type, and carries the parameters it asked for *)
(* and the server knows, in its order, and the lease time last. A request  *)
(* may ask for any number of parameters, known or not, and repeat them.    *)
THEOREM RepliesAnswerRequests ==
    ASSUME StackGarbage = {0}
    PROVE  Spec => []ReplyAnswersRequest
<1>1. Init => FreshInv /\ ListInv
  BY DEF Init, FreshInv, ListInv
<1>2. Inv /\ FreshInv /\ ListInv /\ [Next]_vars => (FreshInv /\ ListInv)'
  BY ListsStep
<1>3. FreshInv /\ ListInv => ReplyAnswersRequest
  BY DEF FreshInv, ListInv, TypeOfRequest, ReplyAnswersRequest
<1> QED
  BY <1>1, <1>2, <1>3, Invariance, PTL DEF Spec
=============================================================================
