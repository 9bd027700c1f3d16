------------------------- MODULE DhcpExchangeProofs -------------------------
(***************************************************************************)
(* Theorems about the server and its clients on one cable, for any hosts,  *)
(* any bounds and any stack garbage.  They rest on the invariant of the    *)
(* server alone (DhcpServerProofs).                                        *)
(***************************************************************************)
EXTENDS DhcpExchange, DhcpServerProofs

(* The options area of a finished reply: its type, known parameters, and   *)
(* the infinite lease.                                                     *)
Complete(w) ==
    /\ w \in Seq(Option) /\ 2 <= Len(w)
    /\ w[1].id = DHCP_MESSAGE_TYPE /\ w[1].data \in {<<DHCP_OFFER>>, <<DHCP_ACK>>}
    /\ w[Len(w)].id = IP_ADDRESS_LEASE_TIME /\ w[Len(w)].data = infLeaseTime
    /\ \A i \in 2..(Len(w) - 1) : w[i].id \in {SUBNET_MASK, ROUTER}

(* Behind the type of a reply list there are known parameters only.        *)
Known(list) == \A i \in 2..Len(list) : list[i].id \in {SUBNET_MASK, ROUTER}

(* What the server has in hand is empty or finished, on every path.        *)
WireInv ==
    /\ pc \in {"answer", "lease"} => Known(replyOpts)
    /\ hdr.wire = <<>> \/ Complete(hdr.wire)

(* The server acknowledged the address to h.                               *)
Acknowledged(h) == \E i \in DOMAIN acks : acks[i][1] = h

(* Every reply under way is empty or finished, and a DHCPACK among them    *)
(* has been counted.                                                       *)
Genuine(m) ==
    /\ m.wire = <<>> \/ Complete(m.wire)
    /\ IsAck(m) => \E i \in DOMAIN acks : acks[i] = m.to
FlightInv ==
    /\ IsFiniteSet(toServer) /\ Cardinality(toServer) <= MaxFlight
    /\ toServer \subseteq Datagrams
    /\ IsFiniteSet(toClient) /\ Cardinality(toClient) <= MaxFlight
    /\ \A m \in toClient : Genuine(m)

(* A host that negotiates has a transaction, one that has the address is   *)
(* bound, and no lease ever expires.                                       *)
HostState == [state : States, xid : 0..MaxXid, tries : 0..(RequestTries + 1),
              armed : BOOLEAN, has : BOOLEAN, expires : BOOLEAN, rebinds : BOOLEAN]
GoodHost(c) ==
    /\ c \in HostState
    /\ c.state # "OFF" => 1 <= c.xid
    /\ c.has => c.state \in {"BOUND", "REBINDING"}
    /\ ~c.expires

(* A host that checks or uses the address was acknowledged.                *)
Granted == {"CHECKING", "BOUND", "REBINDING"}
HostInv ==
    /\ cl \in [Hosts -> HostState]
    /\ \A h \in Hosts : GoodHost(cl[h]) /\ (cl[h].state \in Granted => Acknowledged(h))

ExchangeInv == Inv /\ WireInv /\ FlightInv /\ HostInv /\ StalledOnlyByOffer

-----------------------------------------------------------------------------
(* A reply list with the lease appended serialises to a finished reply.    *)
LEMMA SerialisedComplete ==
    ASSUME NEW list \in Seq(Node), list # <<>>, Known(list),
           list[1].id = DHCP_MESSAGE_TYPE, list[1].data \in {<<DHCP_OFFER>>, <<DHCP_ACK>>},
           NEW last \in Node, last.id = IP_ADDRESS_LEASE_TIME, last.data = infLeaseTime,
           NEW l, l = Append(list, last)
    PROVE  Complete([i \in DOMAIN l |-> OptionOf(l[i])])
<1>1. PICK n \in Nat : n = Len(list) /\ n >= 1
  OBVIOUS
<1>2. /\ l \in Seq(Node) /\ Len(l) = n + 1 /\ DOMAIN l = 1..(n + 1)
      /\ l[n + 1] = last /\ \A i \in 1..n : l[i] = list[i]
  BY <1>1
<1>3. PICK w : w = [i \in DOMAIN l |-> OptionOf(l[i])]
  OBVIOUS
<1>4. \A x \in Node : OptionOf(x) \in Option /\ OptionOf(x).id = x.id /\ OptionOf(x).data = x.data
  BY DEF OptionOf, Node, Option
<1>5. \A i \in 1..(n + 1) : l[i] \in Node
  BY <1>2
<1>6. w = [i \in 1..(n + 1) |-> OptionOf(l[i])]
  BY <1>2, <1>3
<1>7. \A i \in 1..(n + 1) : w[i] \in Option /\ w[i].id = l[i].id /\ w[i].data = l[i].data
  <2>1. \A i \in 1..(n + 1) : w[i] = OptionOf(l[i])
    BY <1>6, Zenon
  <2> QED
    BY <1>4, <1>5, <2>1
<1>8. w \in Seq(Option) /\ Len(w) = n + 1
  <2>1. PICK k \in Nat : k = n + 1
    OBVIOUS
  <2>2. w \in [1..k -> Option]
    BY <1>6, <1>7, <2>1
  <2> QED
    BY <2>1, <2>2
<1>9. w[1].id = list[1].id /\ w[1].data = list[1].data
  BY <1>1, <1>2, <1>7
<1>10. w[n + 1].id = last.id /\ w[n + 1].data = last.data
  BY <1>1, <1>2, <1>7
<1>11. \A i \in 2..n : w[i].id \in {SUBNET_MASK, ROUTER}
  <2>1. \A i \in 2..n : i \in 1..n /\ i \in 1..(n + 1)
    OBVIOUS
  <2> QED
    BY <1>1, <1>2, <1>7, <2>1 DEF Known
<1>12. Complete(w)
  BY <1>1, <1>8, <1>9, <1>10, <1>11 DEF Complete
<1> QED
  BY <1>3, <1>12

(* What a client reads in a finished reply: its type, and that the lease   *)
(* is infinite.                                                            *)
LEMMA ReadComplete ==
    ASSUME NEW m, Complete(m.wire)
    PROVE  /\ m.wire # <<>>
           /\ MsgType(m) \in {DHCP_OFFER, DHCP_ACK}
           /\ MsgType(m) = DHCP_ACK <=> IsAck(m)
           /\ ~Expires(Lease(m))
<1>1. PICK w : w = m.wire
  OBVIOUS
<1>2. Complete(w)
  BY <1>1
<1>3. PICK n \in Nat : n = Len(w) /\ 2 <= n
  BY <1>2 DEF Complete
<1>4. DOMAIN w = 1..n /\ w # <<>> /\ w[1] \in Option
  BY <1>2, <1>3 DEF Complete
<1>5. seachForOption(w, DHCP_MESSAGE_TYPE) = w[1]
  <2> DEFINE P(i) == /\ w[i].id = DHCP_MESSAGE_TYPE
                     /\ \A j \in 1..(i - 1) : w[j].id # DHCP_MESSAGE_TYPE
  <2>1. 1 \in DOMAIN w /\ P(1)
    BY <1>2, <1>3, <1>4 DEF Complete
  <2>2. \A i \in DOMAIN w : P(i) => i = 1
    <3>1. \A i \in DOMAIN w : i # 1 => 1 \in 1..(i - 1)
      BY <1>4
    <3> QED
      BY <2>1, <3>1
  <2>3. (CHOOSE i \in DOMAIN w : P(i)) = 1
    <3> HIDE DEF P
    <3> QED
      BY <2>1, <2>2
  <2> QED
    BY <2>3 DEF seachForOption
<1>6. /\ w[n].id = IP_ADDRESS_LEASE_TIME /\ w[n].data = infLeaseTime
      /\ \A j \in 1..(n - 1) : w[j].id # IP_ADDRESS_LEASE_TIME
  <2>1. w[1].id # IP_ADDRESS_LEASE_TIME
    BY <1>2 DEF Complete, DHCP_MESSAGE_TYPE, IP_ADDRESS_LEASE_TIME
  <2>2. \A j \in 2..(n - 1) : w[j].id # IP_ADDRESS_LEASE_TIME
    <3>1. \A j \in 2..(n - 1) : w[j].id \in {SUBNET_MASK, ROUTER}
      BY <1>2, <1>3, Zenon DEF Complete
    <3>2. IP_ADDRESS_LEASE_TIME \notin {SUBNET_MASK, ROUTER}
      BY DEF SUBNET_MASK, ROUTER, IP_ADDRESS_LEASE_TIME
    <3> QED
      BY <3>1, <3>2, Zenon
  <2>3. \A j \in 1..(n - 1) : j = 1 \/ j \in 2..(n - 1)
    OBVIOUS
  <2> QED
    BY <1>2, <1>3, <2>1, <2>2, <2>3 DEF Complete
<1>7. seachForOption(w, IP_ADDRESS_LEASE_TIME) = w[n]
  <2> DEFINE P(i) == /\ w[i].id = IP_ADDRESS_LEASE_TIME
                     /\ \A j \in 1..(i - 1) : w[j].id # IP_ADDRESS_LEASE_TIME
  <2>1. n \in DOMAIN w /\ P(n)
    BY <1>3, <1>4, <1>6
  <2>2. \A i \in DOMAIN w : P(i) => i = n
    <3>1. \A i \in DOMAIN w : i # n => i \in 1..(n - 1)
      BY <1>4
    <3> QED
      BY <1>6, <3>1
  <2>3. (CHOOSE i \in DOMAIN w : P(i)) = n
    <3> HIDE DEF P
    <3> QED
      BY <2>1, <2>2
  <2> QED
    BY <2>3 DEF seachForOption
<1>8. MsgType(m) = w[1].data[1]
  BY <1>1, <1>5 DEF MsgType
<1>9. /\ w[1].data = <<DHCP_OFFER>> \/ w[1].data = <<DHCP_ACK>>
      /\ w[1].id = DHCP_MESSAGE_TYPE
  BY <1>2 DEF Complete
<1>10. HasOption(w, IP_ADDRESS_LEASE_TIME)
  BY <1>3, <1>4, <1>6 DEF HasOption
<1>11. Lease(m) = infLeaseTime
  BY <1>1, <1>6, <1>7, <1>10 DEF Lease
<1>12. IsAck(m) <=> w[1].data = <<DHCP_ACK>>
  BY <1>1, <1>4, <1>9 DEF IsAck, Option
<1>13. <<DHCP_OFFER>>[1] = DHCP_OFFER /\ <<DHCP_ACK>>[1] = DHCP_ACK /\ DHCP_OFFER # DHCP_ACK
  BY DEF DHCP_OFFER, DHCP_ACK
<1> QED
  BY <1>1, <1>4, <1>8, <1>9, <1>11, <1>12, <1>13 DEF Expires

-----------------------------------------------------------------------------
(* Adding an answer to a reply list leaves known parameters only.          *)
LEMMA AnswerKnown ==
    ASSUME Inv, WireInv, answerClientRequest
    PROVE  Known(replyOpts')
<1>1. pc = "answer" /\ replyOpts \in Seq(Node) /\ Known(replyOpts) /\ replyOpts # <<>> /\ heap \in Int
  BY DEF answerClientRequest, Inv, TypeOK, HandlerInv, WireInv
<1> DEFINE prl == seachForOption(reqOpts, PARAMETER_REQUEST_LIST)
           code == prl.data[count]
<1>2. \/ replyOpts' = replyOpts
      \/ /\ code \in DOMAIN Answers
         /\ \E m \in Malloc(heap) :
              replyOpts' = Append(replyOpts, createOption(code, Answers[code], m))
  BY DEF answerClientRequest, memVars
<1>3. CASE replyOpts' = replyOpts
  BY <1>1, <1>3
<1>4. CASE replyOpts' # replyOpts
  <2>1. code \in DOMAIN Answers
    BY <1>2, <1>4
  <2>2. PICK m \in Malloc(heap) : replyOpts' = Append(replyOpts, createOption(code, Answers[code], m))
    BY <1>2, <1>4
  <2>3. code \in {SUBNET_MASK, ROUTER}
    BY <2>1 DEF Answers
  <2>4. PICK x : x = createOption(code, Answers[code], m)
    OBVIOUS
  <2>5. x.id = code /\ x \in Node
    <3>1. code \in Byte /\ Answers[code] \in Seq(Byte)
      BY <2>1, AnswersAreOptions
    <3>2. createOption(code, Answers[code], m) \in Node
      BY <1>1, <3>1, NodeType
    <3>3. createOption(code, Answers[code], m).id = code
      BY DEF createOption
    <3> QED
      BY <2>4, <3>2, <3>3
  <2>6. replyOpts' = Append(replyOpts, x)
    BY <2>2, <2>4
  <2> HIDE DEF code
  <2>7. PICK n \in Nat : n = Len(replyOpts)
    BY <1>1
  <2>8. /\ Len(replyOpts') = n + 1 /\ replyOpts'[n + 1] = x
        /\ \A i \in 1..n : replyOpts'[i] = replyOpts[i]
    BY <1>1, <2>5, <2>6, <2>7
  <2>9. \A i \in 2..n : replyOpts[i].id \in {SUBNET_MASK, ROUTER}
    BY <1>1, <2>7 DEF Known
  <2>10. \A i \in 2..(n + 1) : i = n + 1 \/ (i \in 2..n /\ i \in 1..n)
    OBVIOUS
  <2>11. \A i \in 2..(n + 1) : replyOpts'[i].id \in {SUBNET_MASK, ROUTER}
    BY <2>3, <2>5, <2>8, <2>9, <2>10
  <2> QED
    BY <2>8, <2>11 DEF Known
<1> QED
  BY <1>3, <1>4

(* A handler that gets to its end has finished the options area, and one   *)
(* that does not leaves it empty.                                          *)
LEMMA FinishWire ==
    ASSUME Inv, WireInv, FinishReply
    PROVE  WireInv'
<1>1. /\ pc = "lease" /\ heap \in Int
      /\ kind \in {DHCP_OFFER, DHCP_ACK}
      /\ replyOpts \in Seq(Node) /\ replyOpts # <<>>
      /\ replyOpts[1].id = DHCP_MESSAGE_TYPE /\ replyOpts[1].data = <<kind>>
      /\ hdr \in [to : Clients \union {NoClient}, wire : Seq(Option)]
      /\ Known(replyOpts)
  BY DEF FinishReply, Inv, HandlerInv, TypeOK, WireInv
<1> DEFINE ListOf(mm) == Append(replyOpts, createOption(IP_ADDRESS_LEASE_TIME, infLeaseTime, mm))
<1>2. PICK m \in Malloc(heap) :
        \/ pc' \in {"reply", "nullDeref"} /\ UNCHANGED hdr
        \/ /\ pc' = "reply"
           /\ hdr' = [hdr EXCEPT !.wire = [i \in DOMAIN ListOf(m) |-> OptionOf(ListOf(m)[i])]]
  BY DEF FinishReply
<1>3. CASE pc' \in {"reply", "nullDeref"} /\ UNCHANGED hdr
  BY <1>3 DEF WireInv
<1>4. CASE /\ pc' = "reply"
           /\ hdr' = [hdr EXCEPT !.wire = [i \in DOMAIN ListOf(m) |-> OptionOf(ListOf(m)[i])]]
  <2>1. PICK last : last = createOption(IP_ADDRESS_LEASE_TIME, infLeaseTime, m)
    OBVIOUS
  <2>2. last \in Node /\ last.id = IP_ADDRESS_LEASE_TIME /\ last.data = infLeaseTime
    <3>1. IP_ADDRESS_LEASE_TIME \in Byte /\ infLeaseTime \in Seq(Byte)
      BY DEF IP_ADDRESS_LEASE_TIME, infLeaseTime, Byte
    <3>2. createOption(IP_ADDRESS_LEASE_TIME, infLeaseTime, m) \in Node
      BY <1>1, <3>1, NodeType
    <3>3. /\ createOption(IP_ADDRESS_LEASE_TIME, infLeaseTime, m).id = IP_ADDRESS_LEASE_TIME
          /\ createOption(IP_ADDRESS_LEASE_TIME, infLeaseTime, m).data = infLeaseTime
      BY DEF createOption
    <3> QED
      BY <2>1, <3>2, <3>3
  <2>3. PICK l : l = Append(replyOpts, last)
    OBVIOUS
  <2>4. hdr' = [hdr EXCEPT !.wire = [i \in DOMAIN l |-> OptionOf(l[i])]]
    BY <1>4, <2>1, <2>3
  <2>5. replyOpts[1].data \in {<<DHCP_OFFER>>, <<DHCP_ACK>>}
    BY <1>1
  <2>6. Complete([i \in DOMAIN l |-> OptionOf(l[i])])
    BY <1>1, <2>2, <2>3, <2>5, SerialisedComplete
  <2>7. hdr'.wire = [i \in DOMAIN l |-> OptionOf(l[i])]
    BY <1>1, <2>4
  <2> QED
    BY <1>4, <2>6, <2>7 DEF WireInv
<1> QED
  BY <1>2, <1>3, <1>4

(* Every step of the server preserves WireInv.                             *)
LEMMA WireStep == Inv /\ WireInv /\ [Next]_vars => WireInv'
<1> SUFFICES ASSUME Inv, WireInv, [Next]_vars PROVE WireInv'
  OBVIOUS
<1>1. CASE FinishReply
  BY <1>1, FinishWire
<1>2. CASE answerClientRequest
  <2>1. Known(replyOpts')
    BY <1>2, AnswerKnown
  <2>2. UNCHANGED hdr
    BY <1>2 DEF answerClientRequest
  <2> QED
    BY <2>1, <2>2 DEF WireInv
<1>3. CASE fillDhcpPacket
  <2>1. \/ pc' = "nullDeref" /\ UNCHANGED hdr
        \/ /\ hdr'.wire = <<>>
           /\ \E m : replyOpts' = <<createOption(DHCP_MESSAGE_TYPE, <<kind>>, m)>>
    BY <1>3 DEF fillDhcpPacket
  <2>2. CASE pc' = "nullDeref" /\ UNCHANGED hdr
    BY <2>2 DEF WireInv
  <2>3. CASE /\ hdr'.wire = <<>>
             /\ \E m : replyOpts' = <<createOption(DHCP_MESSAGE_TYPE, <<kind>>, m)>>
    <3>1. Len(replyOpts') = 1
      BY <2>3
    <3>2. Known(replyOpts')
      BY <3>1 DEF Known
    <3> QED
      BY <2>3, <3>2 DEF WireInv
  <2> QED
    BY <2>1, <2>2, <2>3
<1>4. CASE EnterListener
  BY <1>4 DEF EnterListener, WireInv, Junk
<1>5. CASE Receive \/ ParseRound \/ Dispatch
  <2>1. /\ pc' \in {"fellOff", "nullDeref", "recv", "parse", "dispatch", "fill", "reply"}
        /\ UNCHANGED hdr
    BY <1>5 DEF Receive, ParseRound, StoreOption, Dispatch, replyVars
  <2> QED
    BY <2>1 DEF WireInv
<1>6. CASE deleteOptionLists
  BY <1>6 DEF deleteOptionLists, AfterListener, WireInv
<1>7. CASE ~(FinishReply \/ EnterListener \/ deleteOptionLists \/ Receive \/ ParseRound
             \/ Dispatch \/ fillDhcpPacket \/ answerClientRequest)
  <2>1. UNCHANGED <<hdr, replyOpts>> /\ (pc' \in {"answer", "lease"} => pc' = pc)
    BY <1>7 DEF Next, dhcpTask, dhcpListener, start_application, PollEmpty, sendDhcpReply,
       closeApplication, ResumeHttp, SuspendSelf, Arrive, Halted, vars, replyVars
  <2> QED
    BY <2>1 DEF WireInv
<1> QED
  BY <1>1, <1>2, <1>3, <1>4, <1>5, <1>6, <1>7

-----------------------------------------------------------------------------
(* A datagram that is sent: the network stays bounded, and has nothing     *)
(* else that is new.                                                       *)
LEMMA SentFacts ==
    ASSUME NEW F, IsFiniteSet(F), Cardinality(F) <= MaxFlight, NEW d, NEW G \in Sent(F, d)
    PROVE  IsFiniteSet(G) /\ Cardinality(G) <= MaxFlight /\ G \subseteq F \union {d}
<1>1. IsFiniteSet(F \union {d})
  BY FS_AddElement
<1>2. G = F \/ (G = F \union {d} /\ Cardinality(G) <= MaxFlight)
  BY DEF Sent
<1> QED
  BY <1>1, <1>2

(* A datagram that arrives, or is lost on the way.                         *)
LEMMA TakenFacts ==
    ASSUME NEW F, IsFiniteSet(F), Cardinality(F) <= MaxFlight, NEW d
    PROVE  IsFiniteSet(F \ {d}) /\ Cardinality(F \ {d}) <= MaxFlight
<1>1. IsFiniteSet(F \ {d})
  BY FS_Subset
<1>2. Cardinality(F \ {d}) <= Cardinality(F)
  BY FS_Subset
<1>3. Cardinality(F \ {d}) \in Nat /\ Cardinality(F) \in Nat
  BY <1>1, FS_CardinalityType
<1> QED
  BY <1>1, <1>2, <1>3, ClientAssumption

(* dhcp_set_state changes the state, the tries and the timer.              *)
LEMMA EnteredFacts ==
    ASSUME NEW c \in HostState, NEW s \in States
    PROVE  /\ Entered(c, s) \in HostState
           /\ Entered(c, s).state = s
           /\ Entered(c, s).xid = c.xid /\ Entered(c, s).has = c.has
           /\ Entered(c, s).expires = c.expires
           /\ c.state # s => Entered(c, s).tries = 0
<1>1. 0 \in 0..(RequestTries + 1)
  BY ClientAssumption
<1>2. CASE c.state = s
  BY <1>2 DEF Entered
<1>3. CASE c.state # s
  BY <1>1, <1>3 DEF Entered, HostState
<1> QED
  BY <1>2, <1>3

(* Another try starts the timer.                                           *)
LEMMA TriedFacts ==
    ASSUME NEW c, NEW X, c \in [state : States, xid : X, tries : 0..(RequestTries + 1),
                                armed : BOOLEAN, has : BOOLEAN, expires : BOOLEAN,
                                rebinds : BOOLEAN]
    PROVE  /\ Tried(c) \in [state : States, xid : X, tries : 0..(RequestTries + 1),
                            armed : BOOLEAN, has : BOOLEAN, expires : BOOLEAN,
                            rebinds : BOOLEAN]
           /\ Tried(c).state = c.state /\ Tried(c).xid = c.xid /\ Tried(c).has = c.has
           /\ Tried(c).expires = c.expires /\ Tried(c).armed
<1>1. PICK n : n = c.tries
  OBVIOUS
<1>2. n \in 0..(RequestTries + 1)
  BY <1>1
<1>3. Saturated(n + 1) \in 0..(RequestTries + 1)
  BY <1>2, ClientAssumption DEF Saturated
<1>4. PICK k \in 0..(RequestTries + 1) : k = Saturated(n + 1)
  BY <1>3
<1>5. Tried(c) = [c EXCEPT !.tries = k, !.armed = TRUE]
  BY <1>1, <1>4 DEF Tried
<1> QED
  BY <1>5

(* What dhcp_discover, dhcp_select, dhcp_rebind and dhcp_decline make of a *)
(* host: in the new state, with its timer running and a transaction.       *)
LEMMA SendingFacts ==
    ASSUME NEW c \in HostState, NEW s \in States, NEW t, NEW d,
           d = Sending(c, s, t), d.xid <= MaxXid
    PROVE  /\ d \in HostState
           /\ d.state = s /\ d.armed /\ d.has = c.has /\ d.expires = c.expires
           /\ c.xid <= d.xid
           /\ c.state # s /\ t # DHCP_REQUEST => 1 <= d.xid
<1>1. PICK e \in HostState : e = Entered(c, s)
  BY EnteredFacts
<1>2. /\ e.state = s /\ e.xid = c.xid /\ e.has = c.has /\ e.expires = c.expires
      /\ c.state # s => e.tries = 0
  BY <1>1, EnteredFacts
<1>3. e.xid \in Nat /\ e.xid + 1 \in Nat
  BY <1>1 DEF HostState
<1>4. PICK x \in Nat : /\ x \in {e.xid, e.xid + 1}
                       /\ x = IF t # DHCP_REQUEST /\ e.tries = 0 THEN e.xid + 1 ELSE e.xid
  BY <1>3
<1>5. PICK f : f = Created(e, t)
  OBVIOUS
<1>6. f = [e EXCEPT !.xid = x]
  BY <1>1, <1>4, <1>5 DEF Created, HostState
<1>7. f \in [state : States, xid : Nat, tries : 0..(RequestTries + 1),
             armed : BOOLEAN, has : BOOLEAN, expires : BOOLEAN, rebinds : BOOLEAN]
  BY <1>1, <1>4, <1>6 DEF HostState
<1>8. f.state = e.state /\ f.xid = x /\ f.has = e.has /\ f.expires = e.expires
  BY <1>1, <1>6 DEF HostState
<1>9. d = Tried(f)
  BY <1>1, <1>5 DEF Sending
<1>10. /\ d \in [state : States, xid : Nat, tries : 0..(RequestTries + 1),
                 armed : BOOLEAN, has : BOOLEAN, expires : BOOLEAN, rebinds : BOOLEAN]
       /\ d.state = f.state /\ d.xid = f.xid /\ d.has = f.has
       /\ d.expires = f.expires /\ d.armed
  BY <1>7, <1>9, TriedFacts
<1>11. d.xid \in 0..MaxXid
  <2>1. d.xid \in Nat
    BY <1>10
  <2> QED
    BY <2>1, ClientAssumption
<1>12. d \in HostState
  BY <1>10, <1>11 DEF HostState
<1>13. c.xid \in Nat
  BY DEF HostState
<1>14. c.xid <= d.xid
  BY <1>2, <1>3, <1>4, <1>8, <1>10, <1>13
<1>15. c.state # s /\ t # DHCP_REQUEST => 1 <= d.xid
  BY <1>2, <1>3, <1>4, <1>8, <1>10, <1>13
<1> QED
  BY <1>2, <1>8, <1>10, <1>12, <1>14, <1>15

-----------------------------------------------------------------------------
(* Who has the address keeps it.                                           *)
Kept == \A h \in Hosts : cl[h].has => cl'[h].has

(* One host changes, soundly.                                              *)
LEMMA HostChange ==
    ASSUME ExchangeInv, NEW h \in Hosts, NEW d, GoodHost(d),
           cl' = [cl EXCEPT ![h] = d],
           d.state \in Granted => Acknowledged(h),
           d.state \in Negotiating /\ ~d.armed => h \in ignored' \ lenient /\ d.state = "SELECTING",
           cl[h].has => d.has,
           ignored \subseteq ignored', lenient' = lenient, acks' = acks
    PROVE  HostInv' /\ StalledOnlyByOffer' /\ Kept
<1>1. cl \in [Hosts -> HostState] /\ d \in HostState
  BY DEF ExchangeInv, HostInv, GoodHost
<1>2. cl' \in [Hosts -> HostState] /\ cl'[h] = d /\ \A g \in Hosts \ {h} : cl'[g] = cl[g]
  BY <1>1
<1>3. ASSUME NEW g \in Hosts
      PROVE  /\ GoodHost(cl'[g]) /\ (cl'[g].state \in Granted => Acknowledged(g))
             /\ cl'[g].state \in Negotiating /\ ~cl'[g].armed =>
                  g \in ignored' \ lenient' /\ cl'[g].state = "SELECTING"
             /\ cl[g].has => cl'[g].has
  <2>1. CASE g = h
    BY <1>2, <2>1
  <2>2. CASE g # h
    <3>1. cl'[g] = cl[g]
      BY <1>2, <2>2
    <3>2. GoodHost(cl[g]) /\ (cl[g].state \in Granted => Acknowledged(g))
      BY DEF ExchangeInv, HostInv
    <3>3. cl[g].state \in Negotiating /\ ~cl[g].armed =>
             g \in ignored \ lenient /\ cl[g].state = "SELECTING"
      BY DEF ExchangeInv, StalledOnlyByOffer
    <3> QED
      BY <3>1, <3>2, <3>3
  <2> QED
    BY <2>1, <2>2
<1>4. \A g \in Hosts : Acknowledged(g)' <=> Acknowledged(g)
  BY DEF Acknowledged
<1>5. \A g \in Hosts : GoodHost(cl[g])' <=> GoodHost(cl'[g])
  BY DEF GoodHost
<1>6. HostInv'
  BY <1>2, <1>3, <1>4, <1>5 DEF HostInv
<1>7. StalledOnlyByOffer' /\ Kept
  BY <1>3 DEF StalledOnlyByOffer, Kept
<1> QED
  BY <1>6, <1>7

(* One host changes its state and sends.                                   *)
LEMMA SendsStep ==
    ASSUME ExchangeInv, NEW h \in Hosts, NEW c \in HostState, NEW s \in States,
           NEW t \in {DHCP_DISCOVER, DHCP_REQUEST, DHCP_DECLINE},
           Sends(h, c, s, t),
           c.has => s = "REBINDING", ~c.expires,
           c.state = s \/ t = DHCP_REQUEST => 1 <= c.xid,
           s \in Granted => Acknowledged(h), cl[h].has => c.has,
           ignored \subseteq ignored', lenient' = lenient, acks' = acks
    PROVE  /\ HostInv' /\ StalledOnlyByOffer' /\ Kept
           /\ IsFiniteSet(toServer') /\ Cardinality(toServer') <= MaxFlight
           /\ toServer' \subseteq Datagrams
<1>1. PICK d : d = Sending(c, s, t)
  OBVIOUS
<1>2. /\ d.xid <= MaxXid
      /\ cl' = [cl EXCEPT ![h] = d]
      /\ toServer' \in Sent(toServer, Message(h, d.xid, t))
  BY <1>1 DEF Sends
<1>3. /\ d \in HostState
      /\ d.state = s /\ d.armed /\ d.has = c.has /\ d.expires = c.expires
      /\ c.xid <= d.xid
      /\ c.state # s /\ t # DHCP_REQUEST => 1 <= d.xid
  BY <1>1, <1>2, SendingFacts
<1>4. 1 <= d.xid /\ d.xid \in 1..MaxXid
  <2>1. c.xid \in Nat /\ d.xid \in 0..MaxXid
    BY <1>3 DEF HostState
  <2>2. 1 <= d.xid
    BY <1>3, <2>1
  <2> QED
    BY <2>1, <2>2, ClientAssumption
<1>5. GoodHost(d)
  BY <1>3, <1>4 DEF GoodHost
<1>6. HostInv' /\ StalledOnlyByOffer' /\ Kept
  BY <1>2, <1>3, <1>5, HostChange
<1>7. Message(h, d.xid, t) \in Datagrams
  BY <1>4, ExchangeAssumption
<1>8. /\ IsFiniteSet(toServer) /\ Cardinality(toServer) <= MaxFlight
      /\ toServer \subseteq Datagrams
  BY DEF ExchangeInv, FlightInv
<1>9. /\ IsFiniteSet(toServer') /\ Cardinality(toServer') <= MaxFlight
      /\ toServer' \subseteq toServer \union {Message(h, d.xid, t)}
  BY <1>2, <1>8, SentFacts
<1> QED
  BY <1>6, <1>7, <1>8, <1>9

(* The network after a step of a host or of the cable, which take replies  *)
(* away but add none.                                                      *)
LEMMA FlightStep ==
    ASSUME ExchangeInv, acks' = acks,
           IsFiniteSet(toServer'), Cardinality(toServer') <= MaxFlight,
           toServer' \subseteq Datagrams,
           toClient' = toClient \/ \E m : toClient' = toClient \ {m}
    PROVE  FlightInv'
<1>1. /\ IsFiniteSet(toClient) /\ Cardinality(toClient) <= MaxFlight
      /\ \A m \in toClient : Genuine(m)
  BY DEF ExchangeInv, FlightInv
<1>2. IsFiniteSet(toClient') /\ Cardinality(toClient') <= MaxFlight /\ toClient' \subseteq toClient
  BY <1>1, TakenFacts
<1>3. \A m \in toClient' : Genuine(m)'
  BY <1>1, <1>2 DEF Genuine
<1> QED
  BY <1>2, <1>3 DEF FlightInv

(* The invariant after a step that leaves the server alone.                *)
LEMMA ServerIdle ==
    ASSUME ExchangeInv, UNCHANGED serverVars, FlightInv', HostInv', StalledOnlyByOffer'
    PROVE  ExchangeInv'
<1>1. Inv'
  BY StutterStep DEF ExchangeInv, serverVars
<1>2. WireInv'
  BY WireStep DEF ExchangeInv, serverVars
<1> QED
  BY <1>1, <1>2 DEF ExchangeInv

-----------------------------------------------------------------------------
(* The states and the message types are what they are.                     *)
LEMMA StateFacts ==
    /\ {"OFF", "SELECTING", "REQUESTING", "CHECKING", "BACKING_OFF", "BOUND", "REBINDING"} = States
    /\ "SELECTING" \notin Granted /\ "REQUESTING" \notin Granted /\ "BACKING_OFF" \notin Granted
    /\ "REBINDING" \in Granted /\ "CHECKING" \in Granted /\ "BOUND" \in Granted
    /\ DHCP_DISCOVER # DHCP_REQUEST /\ DHCP_DECLINE # DHCP_REQUEST
BY DEF States, Granted, DHCP_DISCOVER, DHCP_REQUEST, DHCP_DECLINE

(* dhcp_start.                                                             *)
LEMMA StartStep ==
    ASSUME ExchangeInv, NEW h \in Hosts, dhcp_start(h), UNCHANGED serverVars
    PROVE  ExchangeInv' /\ Kept
<1>1. PICK c : c = cl[h]
  OBVIOUS
<1>2. GoodHost(c) /\ c.state = "OFF"
  BY <1>1 DEF ExchangeInv, HostInv, dhcp_start
<1>3. c \in HostState /\ ~c.has /\ ~c.expires
  BY <1>2 DEF GoodHost
<1>4. Sends(h, c, "SELECTING", DHCP_DISCOVER) /\ UNCHANGED <<lenient, toClient, ignored>>
  BY <1>1 DEF dhcp_start
<1>5. acks' = acks
  BY DEF serverVars, vars
<1>6. /\ HostInv' /\ StalledOnlyByOffer' /\ Kept
      /\ IsFiniteSet(toServer') /\ Cardinality(toServer') <= MaxFlight
      /\ toServer' \subseteq Datagrams
  BY <1>1, <1>2, <1>3, <1>4, <1>5, StateFacts, SendsStep
<1>7. FlightInv'
  BY <1>4, <1>5, <1>6, FlightStep
<1> QED
  BY <1>6, <1>7, ServerIdle

(* dhcp_arp_reply from another machine.                                    *)
LEMMA ArpStep ==
    ASSUME ExchangeInv, NEW h \in Hosts, dhcp_arp_reply(h), UNCHANGED serverVars
    PROVE  ExchangeInv' /\ Kept
<1>1. PICK c : c = cl[h]
  OBVIOUS
<1>2. GoodHost(c) /\ c.state = "CHECKING"
  BY <1>1 DEF ExchangeInv, HostInv, dhcp_arp_reply
<1>3. c \in HostState /\ ~c.has /\ ~c.expires
  BY <1>2 DEF GoodHost
<1>4. Sends(h, c, "BACKING_OFF", DHCP_DECLINE) /\ UNCHANGED <<lenient, toClient, ignored>>
  BY <1>1 DEF dhcp_arp_reply
<1>5. acks' = acks
  BY DEF serverVars, vars
<1>6. /\ HostInv' /\ StalledOnlyByOffer' /\ Kept
      /\ IsFiniteSet(toServer') /\ Cardinality(toServer') <= MaxFlight
      /\ toServer' \subseteq Datagrams
  BY <1>1, <1>2, <1>3, <1>4, <1>5, StateFacts, SendsStep
<1>7. FlightInv'
  BY <1>4, <1>5, <1>6, FlightStep
<1> QED
  BY <1>6, <1>7, ServerIdle

(* dhcp_coarse_tmr: the lease does not expire, so the host rebinds it and  *)
(* goes on using the address.                                              *)
LEMMA CoarseStep ==
    ASSUME ExchangeInv, NEW h \in Hosts, dhcp_coarse_tmr(h), UNCHANGED serverVars
    PROVE  ExchangeInv' /\ Kept
<1>1. PICK c : c = cl[h]
  OBVIOUS
<1>2. GoodHost(c) /\ c.has /\ (c.state \in Granted => Acknowledged(h))
  BY <1>1 DEF ExchangeInv, HostInv, dhcp_coarse_tmr
<1>3. c \in HostState /\ ~c.expires /\ c.state \in {"BOUND", "REBINDING"} /\ 1 <= c.xid
  BY <1>2 DEF GoodHost
<1>4. PICK d : d = [c EXCEPT !.rebinds = FALSE]
  OBVIOUS
<1>5. d \in HostState /\ d.has = c.has /\ d.expires = c.expires /\ d.xid = c.xid
  BY <1>3, <1>4 DEF HostState
<1>6. Sends(h, d, "REBINDING", DHCP_REQUEST) /\ UNCHANGED <<lenient, toClient, ignored>>
  BY <1>1, <1>3, <1>4 DEF dhcp_coarse_tmr
<1>7. acks' = acks
  BY DEF serverVars, vars
<1>8. Acknowledged(h)
  BY <1>2, <1>3, StateFacts
<1>9. /\ HostInv' /\ StalledOnlyByOffer' /\ Kept
      /\ IsFiniteSet(toServer') /\ Cardinality(toServer') <= MaxFlight
      /\ toServer' \subseteq Datagrams
  BY <1>1, <1>2, <1>3, <1>5, <1>6, <1>7, <1>8, StateFacts, SendsStep
<1>10. FlightInv'
  BY <1>6, <1>7, <1>9, FlightStep
<1> QED
  BY <1>9, <1>10, ServerIdle

(* dhcp_check and dhcp_bind.                                               *)
LEMMA CheckFacts ==
    ASSUME NEW c \in HostState
    PROVE  /\ dhcp_check(c) \in HostState
           /\ dhcp_check(c).state = "CHECKING" /\ dhcp_check(c).armed
           /\ dhcp_check(c).xid = c.xid /\ dhcp_check(c).has = c.has
           /\ dhcp_check(c).expires = c.expires
<1>1. PICK e \in HostState : e = Entered(c, "CHECKING")
  BY EnteredFacts, StateFacts
<1>2. e.state = "CHECKING" /\ e.xid = c.xid /\ e.has = c.has /\ e.expires = c.expires
  BY <1>1, EnteredFacts, StateFacts
<1>3. dhcp_check(c) = Tried(e)
  BY <1>1 DEF dhcp_check
<1>4. /\ Tried(e) \in HostState
      /\ Tried(e).state = e.state /\ Tried(e).xid = e.xid /\ Tried(e).has = e.has
      /\ Tried(e).expires = e.expires /\ Tried(e).armed
  BY <1>1, TriedFacts DEF HostState
<1> QED
  BY <1>2, <1>3, <1>4

(* The address is on the interface, and nothing else that matters changes. *)
LEMMA BindFacts ==
    ASSUME NEW c \in HostState
    PROVE  /\ dhcp_bind(c) \in HostState
           /\ dhcp_bind(c).state = "BOUND" /\ dhcp_bind(c).has
           /\ dhcp_bind(c).xid = c.xid /\ dhcp_bind(c).expires = c.expires
<1>1. PICK e \in HostState : e = Entered(c, "BOUND")
  BY EnteredFacts, StateFacts
<1>2. e.state = "BOUND" /\ e.xid = c.xid /\ e.expires = c.expires
  BY <1>1, EnteredFacts, StateFacts
<1>3. dhcp_bind(c) = [e EXCEPT !.has = TRUE, !.rebinds = TRUE]
  BY <1>1 DEF dhcp_bind
<1> QED
  BY <1>2, <1>3 DEF HostState

(* dhcp_release.                                                           *)
LEMMA ReleaseFacts ==
    ASSUME NEW c \in HostState
    PROVE  /\ dhcp_release(c) \in HostState
           /\ dhcp_release(c).state = "OFF" /\ ~dhcp_release(c).has
           /\ dhcp_release(c).xid = c.xid /\ ~dhcp_release(c).expires
<1>1. PICK e \in HostState : e = Entered(c, "OFF")
  BY EnteredFacts, StateFacts
<1>2. e.state = "OFF" /\ e.xid = c.xid
  BY <1>1, EnteredFacts, StateFacts
<1>3. dhcp_release(c) = [e EXCEPT !.has = FALSE, !.expires = FALSE, !.rebinds = FALSE]
  BY <1>1 DEF dhcp_release
<1> QED
  BY <1>2, <1>3 DEF HostState

(* dhcp_timeout, in each state.                                            *)
LEMMA TimeoutStep ==
    ASSUME ExchangeInv, NEW h \in Hosts, dhcp_timeout(h), UNCHANGED serverVars
    PROVE  ExchangeInv' /\ Kept
<1>1. PICK b : b = cl[h]
  OBVIOUS
<1>2. GoodHost(b) /\ (b.state \in Granted => Acknowledged(h))
  BY <1>1 DEF ExchangeInv, HostInv
<1>3. PICK c : c = [b EXCEPT !.armed = FALSE]
  OBVIOUS
<1>4. /\ c \in HostState /\ c.state = b.state /\ c.xid = b.xid /\ c.has = b.has
      /\ c.expires = b.expires
  BY <1>2, <1>3 DEF GoodHost, HostState
<1>5. /\ ~c.expires /\ (c.has => c.state \in {"BOUND", "REBINDING"})
      /\ c.state # "OFF" => 1 <= c.xid
  BY <1>2, <1>4 DEF GoodHost
<1>6. acks' = acks /\ UNCHANGED <<lenient, toClient, ignored>>
  BY DEF serverVars, vars, dhcp_timeout
<1>7. SUFFICES /\ HostInv' /\ StalledOnlyByOffer' /\ Kept
               /\ IsFiniteSet(toServer') /\ Cardinality(toServer') <= MaxFlight
               /\ toServer' \subseteq Datagrams
  <2>1. FlightInv'
    BY <1>6, <1>7, FlightStep
  <2> QED
    BY <1>7, <2>1, ServerIdle
<1>8. CASE c.state \in {"BACKING_OFF", "SELECTING"}
  <2>1. Sends(h, c, "SELECTING", DHCP_DISCOVER)
    BY <1>1, <1>3, <1>8 DEF dhcp_timeout
  <2> QED
    BY <1>1, <1>4, <1>5, <1>6, <1>8, <2>1, StateFacts, SendsStep
<1>9. CASE c.state = "REQUESTING" /\ ~GivesUp(c)
  <2>1. Sends(h, c, "REQUESTING", DHCP_REQUEST)
    BY <1>1, <1>3, <1>9 DEF dhcp_timeout
  <2> QED
    BY <1>1, <1>4, <1>5, <1>6, <1>9, <2>1, StateFacts, SendsStep
<1>10. CASE c.state = "REQUESTING" /\ GivesUp(c)
  <2>1. Sends(h, dhcp_release(c), "SELECTING", DHCP_DISCOVER)
    BY <1>1, <1>3, <1>10 DEF dhcp_timeout
  <2>2. PICK r \in HostState : r = dhcp_release(c)
    BY <1>4, ReleaseFacts
  <2>3. r.state = "OFF" /\ ~r.has /\ ~r.expires
    BY <1>4, <2>2, ReleaseFacts
  <2>4. Sends(h, r, "SELECTING", DHCP_DISCOVER) /\ ~cl[h].has
    BY <1>1, <1>4, <1>5, <1>10, <2>1, <2>2
  <2> QED
    BY <1>6, <2>3, <2>4, StateFacts, SendsStep
<1>11. ASSUME NEW d, GoodHost(d), cl' = [cl EXCEPT ![h] = d], UNCHANGED toServer,
              c.state \in Granted, d.state \in Granted, d.state = "CHECKING" => d.armed,
              c.has => d.has
       PROVE  /\ HostInv' /\ StalledOnlyByOffer' /\ Kept
              /\ IsFiniteSet(toServer') /\ Cardinality(toServer') <= MaxFlight
              /\ toServer' \subseteq Datagrams
  <2>1. d.state \in Negotiating => d.state = "CHECKING"
    BY <1>11 DEF Negotiating, Granted
  <2>2. HostInv' /\ StalledOnlyByOffer' /\ Kept
    BY <1>1, <1>2, <1>4, <1>6, <1>11, <2>1, HostChange
  <2> QED
    BY <1>11, <2>2 DEF ExchangeInv, FlightInv
<1>12. CASE c.state = "CHECKING"
  <2>1. PICK d : d = IF c.tries <= 1 THEN dhcp_check(c) ELSE dhcp_bind(c)
    OBVIOUS
  <2>2. cl' = [cl EXCEPT ![h] = d] /\ UNCHANGED toServer
    BY <1>1, <1>3, <1>12, <2>1 DEF dhcp_timeout
  <2>3. /\ d \in HostState /\ d.xid = c.xid /\ d.expires = c.expires
        /\ \/ d.state = "CHECKING" /\ d.armed /\ d.has = c.has
           \/ d.state = "BOUND" /\ d.has
    BY <1>4, <2>1, CheckFacts, BindFacts
  <2>4. GoodHost(d)
    BY <1>5, <1>12, <2>3 DEF GoodHost
  <2> QED
    BY <1>11, <1>12, <2>2, <2>3, <2>4, StateFacts
<1>13. CASE c.state \in {"BOUND", "REBINDING"}
  <2>1. cl' = [cl EXCEPT ![h] = c] /\ UNCHANGED toServer
    BY <1>1, <1>3, <1>13 DEF dhcp_timeout
  <2>2. GoodHost(c)
    BY <1>4, <1>5 DEF GoodHost
  <2> QED
    BY <1>11, <1>13, <2>1, <2>2, StateFacts
<1>14. \/ c.state \in {"BACKING_OFF", "SELECTING"}
       \/ c.state = "REQUESTING" /\ ~GivesUp(c)
       \/ c.state = "REQUESTING" /\ GivesUp(c)
       \/ c.state = "CHECKING"
       \/ c.state \in {"BOUND", "REBINDING"}
  BY <1>1, <1>3 DEF dhcp_timeout
<1> QED
  BY <1>8, <1>9, <1>10, <1>12, <1>13, <1>14

(* dhcp_recv.  An ack that a host takes is for its own transaction, and    *)
(* has been counted; its lease is infinite.                                *)
LEMMA RecvStep ==
    ASSUME ExchangeInv, NEW h \in Hosts, NEW m \in toClient, dhcp_recv(h, m), UNCHANGED serverVars
    PROVE  ExchangeInv' /\ Kept
<1>1. PICK c : c = cl[h]
  OBVIOUS
<1>2. GoodHost(c) /\ (c.state \in Granted => Acknowledged(h))
  BY <1>1 DEF ExchangeInv, HostInv
<1>3. /\ c \in HostState /\ ~c.expires /\ (c.has => c.state \in {"BOUND", "REBINDING"})
      /\ c.state # "OFF" => 1 <= c.xid
  BY <1>2 DEF GoodHost
<1>4. /\ m.to = <<h, c.xid>> /\ m.wire # <<>> /\ toClient' = toClient \ {m}
      /\ UNCHANGED lenient
  BY <1>1 DEF dhcp_recv, ForHost
<1>5. Complete(m.wire) /\ (IsAck(m) => \E i \in DOMAIN acks : acks[i] = m.to)
  BY <1>4 DEF ExchangeInv, FlightInv, Genuine
<1>6. /\ MsgType(m) \in {DHCP_OFFER, DHCP_ACK}
      /\ MsgType(m) = DHCP_ACK <=> IsAck(m)
      /\ ~Expires(Lease(m))
  BY <1>5, ReadComplete
<1>7. acks' = acks
  BY DEF serverVars, vars
<1>8. SUFFICES /\ HostInv' /\ StalledOnlyByOffer' /\ Kept
               /\ IsFiniteSet(toServer') /\ Cardinality(toServer') <= MaxFlight
               /\ toServer' \subseteq Datagrams
  <2>1. FlightInv'
    BY <1>4, <1>7, <1>8, FlightStep
  <2> QED
    BY <1>8, <2>1, ServerIdle
<1>9. UNCHANGED toServer => /\ IsFiniteSet(toServer') /\ Cardinality(toServer') <= MaxFlight
                            /\ toServer' \subseteq Datagrams
  BY DEF ExchangeInv, FlightInv
<1>10. CASE /\ c.state = "SELECTING" /\ UNCHANGED ignored
            /\ Sends(h, c, "REQUESTING", DHCP_REQUEST)
  BY <1>1, <1>3, <1>4, <1>7, <1>10, StateFacts, SendsStep
<1>11. CASE /\ c.state = "SELECTING" /\ h \notin lenient
            /\ cl' = [cl EXCEPT ![h].armed = FALSE]
            /\ ignored' = ignored \union {h} /\ UNCHANGED toServer
  <2>1. PICK d : d = [c EXCEPT !.armed = FALSE]
    OBVIOUS
  <2>2. /\ d \in HostState /\ d.state = c.state /\ d.xid = c.xid /\ d.has = c.has
        /\ d.expires = c.expires
    BY <1>3, <2>1 DEF HostState
  <2>3. GoodHost(d)
    BY <1>3, <2>2 DEF GoodHost
  <2>4. cl' = [cl EXCEPT ![h] = d]
    BY <1>1, <1>11, <2>1
  <2>5. HostInv' /\ StalledOnlyByOffer' /\ Kept
    <3>1. ignored \subseteq ignored' /\ h \in ignored' \ lenient
      BY <1>11
    <3>2. d.state = "SELECTING" /\ d.state \notin Granted /\ (cl[h].has => d.has)
      BY <1>1, <1>11, <2>2, StateFacts
    <3> QED
      BY <1>4, <1>7, <2>3, <2>4, <3>1, <3>2, HostChange
  <2> QED
    BY <1>9, <1>11, <2>5
<1>12. CASE /\ MsgType(m) = DHCP_ACK /\ c.state \in AckStates
            /\ LET taken == IF c.state = "REBINDING" THEN dhcp_bind(c) ELSE dhcp_check(c)
               IN  cl' = [cl EXCEPT ![h] = [taken EXCEPT !.expires = Expires(Lease(m))]]
            /\ UNCHANGED <<ignored, toServer>>
  <2>1. Acknowledged(h)
    <3>1. PICK i \in DOMAIN acks : acks[i] = <<h, c.xid>>
      BY <1>4, <1>5, <1>6, <1>12
    <3>2. acks[i][1] = h
      BY <3>1
    <3> QED
      BY <3>2 DEF Acknowledged
  <2>2. PICK b : b = IF c.state = "REBINDING" THEN dhcp_bind(c) ELSE dhcp_check(c)
    OBVIOUS
  <2>3. /\ b \in HostState /\ b.xid = c.xid
        /\ \/ b.state = "CHECKING" /\ b.armed /\ b.has = c.has /\ c.state = "REQUESTING"
           \/ b.state = "BOUND" /\ b.has /\ c.state = "REBINDING"
    BY <1>3, <1>12, <2>2, CheckFacts, BindFacts DEF AckStates
  <2>4. PICK d : d = [b EXCEPT !.expires = FALSE]
    OBVIOUS
  <2>5. /\ d \in HostState /\ d.state = b.state /\ d.xid = b.xid /\ d.has = b.has
        /\ d.armed = b.armed /\ ~d.expires
    BY <2>3, <2>4 DEF HostState
  <2>6. cl' = [cl EXCEPT ![h] = d]
    <3>1. Expires(Lease(m)) = FALSE
      BY <1>6 DEF Expires
    <3> QED
      BY <1>12, <2>2, <2>4, <3>1
  <2>7. GoodHost(d) /\ (c.has => d.has) /\ (d.state \in Negotiating => d.armed)
    BY <1>3, <1>12, <2>3, <2>5 DEF GoodHost, AckStates, Negotiating
  <2>8. HostInv' /\ StalledOnlyByOffer' /\ Kept
    BY <1>1, <1>4, <1>7, <1>12, <2>1, <2>6, <2>7, HostChange
  <2> QED
    BY <1>9, <1>12, <2>8
<1>13. CASE UNCHANGED <<cl, ignored, toServer>>
  <2>1. HostInv' /\ StalledOnlyByOffer' /\ Kept
    BY <1>4, <1>7, <1>13 DEF ExchangeInv, HostInv, GoodHost, Acknowledged, StalledOnlyByOffer, Kept
  <2> QED
    BY <1>9, <1>13, <2>1
<1> QED
  BY <1>1, <1>10, <1>11, <1>12, <1>13 DEF dhcp_recv

(* A reply that nobody takes, and a request that reaches the server.       *)
LEMMA UnclaimedStep ==
    ASSUME ExchangeInv, NEW m \in toClient, Unclaimed(m), UNCHANGED serverVars
    PROVE  ExchangeInv' /\ Kept
<1>1. /\ toClient' = toClient \ {m} /\ UNCHANGED <<lenient, cl, toServer, ignored>>
      /\ acks' = acks
  BY DEF Unclaimed, serverVars, vars
<1>2. HostInv' /\ StalledOnlyByOffer' /\ Kept
  BY <1>1 DEF ExchangeInv, HostInv, GoodHost, Acknowledged, StalledOnlyByOffer, Kept
<1>3. /\ IsFiniteSet(toServer') /\ Cardinality(toServer') <= MaxFlight
      /\ toServer' \subseteq Datagrams
  BY <1>1 DEF ExchangeInv, FlightInv
<1>4. FlightInv'
  BY <1>1, <1>3, FlightStep
<1> QED
  BY <1>2, <1>4, ServerIdle

(* The mailbox takes only what the server is specified for.                *)
LEMMA DeliverStep ==
    ASSUME ExchangeInv, NEW d \in toServer, Deliver(d)
    PROVE  ExchangeInv' /\ Kept
<1>1. /\ toServer' = toServer \ {d} /\ UNCHANGED <<lenient, cl, toClient, ignored>>
      /\ acks' = acks /\ Arrive(d)
  BY DEF Deliver, Arrive
<1>2. d \in Datagrams
  BY DEF ExchangeInv, FlightInv
<1>3. [Next]_vars
  BY <1>1, <1>2 DEF Next
<1>4. Inv' /\ WireInv'
  BY <1>3, NextInv, WireStep DEF ExchangeInv
<1>5. HostInv' /\ StalledOnlyByOffer' /\ Kept
  BY <1>1 DEF ExchangeInv, HostInv, GoodHost, Acknowledged, StalledOnlyByOffer, Kept
<1>6. /\ IsFiniteSet(toServer) /\ Cardinality(toServer) <= MaxFlight
      /\ toServer \subseteq Datagrams
  BY DEF ExchangeInv, FlightInv
<1>7. /\ IsFiniteSet(toServer') /\ Cardinality(toServer') <= MaxFlight
      /\ toServer' \subseteq Datagrams
  BY <1>1, <1>6, TakenFacts
<1>8. FlightInv'
  BY <1>1, <1>7, FlightStep
<1> QED
  BY <1>4, <1>5, <1>8 DEF ExchangeInv

(* The only thing that adds to the history of DHCPACKs.                    *)
LEMMA AcksGrow ==
    ASSUME Inv, dhcpTask
    PROVE  \/ acks' = acks
           \/ acks' = Append(acks, hdr.to) /\ Broadcasts
<1>1. CASE sendDhcpReply
  BY <1>1 DEF sendDhcpReply, Broadcasts
<1>2. CASE ~sendDhcpReply
  BY <1>2 DEF dhcpTask, dhcpListener, start_application, EnterListener, PollEmpty, Receive,
     ParseRound, StoreOption, Dispatch, fillDhcpPacket, answerClientRequest, FinishReply,
     deleteOptionLists, closeApplication, ResumeHttp, SuspendSelf, vars
<1> QED
  BY <1>1, <1>2

(* A step of the server: what it broadcasts is genuine.                    *)
LEMMA ServerStep ==
    ASSUME ExchangeInv, Server
    PROVE  ExchangeInv' /\ Kept
<1>1. dhcpTask /\ UNCHANGED <<lenient, cl, toServer, ignored>>
  BY DEF Server
<1>2. [Next]_vars
  BY <1>1 DEF Next
<1>3. Inv' /\ WireInv'
  BY <1>2, NextInv, WireStep DEF ExchangeInv
<1>4. acks \in Seq(Clients) /\ acks' \in Seq(Clients)
  BY <1>3 DEF ExchangeInv, Inv, TypeOK
<1>5. acks' = acks \/ (acks' = Append(acks, hdr.to) /\ Broadcasts)
  BY <1>1, AcksGrow DEF ExchangeInv
<1>6. \A i \in DOMAIN acks : i \in DOMAIN acks' /\ acks'[i] = acks[i]
  <2>1. CASE acks' = acks
    BY <2>1
  <2>2. CASE acks' = Append(acks, hdr.to)
    BY <1>4, <2>2
  <2> QED
    BY <1>5, <2>1, <2>2
<1>7. \A h \in Hosts : Acknowledged(h) => Acknowledged(h)'
  BY <1>6 DEF Acknowledged
<1>8. HostInv' /\ StalledOnlyByOffer' /\ Kept
  BY <1>1, <1>7 DEF ExchangeInv, HostInv, GoodHost, StalledOnlyByOffer, Kept
<1>9. /\ IsFiniteSet(toClient) /\ Cardinality(toClient) <= MaxFlight
      /\ \A m \in toClient : Genuine(m)
  BY DEF ExchangeInv, FlightInv
<1>10. \A m \in toClient : Genuine(m)'
  BY <1>6, <1>9 DEF Genuine
<1>11. /\ IsFiniteSet(toClient') /\ Cardinality(toClient') <= MaxFlight
       /\ \A m \in toClient' : Genuine(m)'
  <2>1. CASE ~Broadcasts
    BY <1>9, <1>10, <2>1 DEF Server
  <2>2. CASE Broadcasts
    <3>1. /\ toClient' \in Sent(toClient, hdr)
          /\ hdr \in toClient' /\ IsAck(hdr) => acks' # acks
      BY <2>2 DEF Server
    <3>2. /\ IsFiniteSet(toClient') /\ Cardinality(toClient') <= MaxFlight
          /\ toClient' \subseteq toClient \union {hdr}
      BY <1>9, <3>1, SentFacts
    <3>3. PICK r : r = hdr
      OBVIOUS
    <3>4. r \in toClient' => Genuine(r)'
      <4>1. r.wire = <<>> \/ Complete(r.wire)
        BY <3>3 DEF ExchangeInv, WireInv
      <4>2. ASSUME r \in toClient', IsAck(r) PROVE \E i \in DOMAIN acks' : acks'[i] = r.to
        <5>1. acks' = Append(acks, r.to)
          BY <1>5, <3>1, <3>3, <4>2
        <5>2. r.to \in Clients
          BY <3>3, <4>2 DEF ExchangeInv, Inv, AckInv
        <5>3. Len(acks) + 1 \in DOMAIN acks' /\ acks'[Len(acks) + 1] = r.to
          BY <1>4, <5>1, <5>2
        <5> QED
          BY <5>3
      <4> QED
        BY <4>1, <4>2 DEF Genuine
    <3>5. toClient' \subseteq toClient \union {r}
      BY <3>2, <3>3
    <3> QED
      BY <1>10, <3>2, <3>4, <3>5
  <2> QED
    BY <2>1, <2>2
<1>12. FlightInv'
  BY <1>1, <1>11 DEF ExchangeInv, FlightInv
<1> QED
  BY <1>3, <1>8, <1>12 DEF ExchangeInv

-----------------------------------------------------------------------------
(* The initial states.                                                     *)
LEMMA ExchangeInitInv == ExchangeInit => ExchangeInv
<1> SUFFICES ASSUME ExchangeInit PROVE ExchangeInv
  OBVIOUS
<1>1. Init /\ ClientInit
  BY DEF ExchangeInit
<1>2. Inv
  BY <1>1, InitInv
<1>3. WireInv
  BY <1>1 DEF Init, WireInv, Junk
<1>4. FlightInv
  BY <1>1, FS_EmptySet, ClientAssumption DEF ClientInit, FlightInv
<1>5. PICK c : c = [state |-> "OFF", xid |-> 0, tries |-> 0, armed |-> FALSE,
                    has |-> FALSE, expires |-> FALSE, rebinds |-> FALSE]
  OBVIOUS
<1>6. c \in HostState
  BY <1>5, ClientAssumption DEF HostState, States
<1>7. c.state = "OFF" /\ ~c.has /\ ~c.expires
  BY <1>5
<1>8. cl = [h \in Hosts |-> c]
  BY <1>1, <1>5 DEF ClientInit
<1>9. cl \in [Hosts -> HostState] /\ \A h \in Hosts : cl[h] = c
  BY <1>6, <1>8
<1>10. HostInv /\ StalledOnlyByOffer
  BY <1>6, <1>7, <1>9 DEF HostInv, GoodHost, Granted, StalledOnlyByOffer, Negotiating
<1> QED
  BY <1>2, <1>3, <1>4, <1>10 DEF ExchangeInv

(* Every step of the server, of a host and of the cable.                   *)
LEMMA ExchangeNextInv == ExchangeInv /\ [ExchangeNext]_allVars => ExchangeInv' /\ Kept
<1> SUFFICES ASSUME ExchangeInv, [ExchangeNext]_allVars PROVE ExchangeInv' /\ Kept
  OBVIOUS
<1>1. CASE Server
  BY <1>1, ServerStep
<1>2. CASE Replies
  <2>1. PICK m \in toClient : Unclaimed(m) \/ \E h \in Hosts : dhcp_recv(h, m)
    BY <1>2 DEF Replies
  <2>2. UNCHANGED serverVars
    BY <1>2 DEF Replies
  <2> QED
    BY <2>1, <2>2, UnclaimedStep, RecvStep
<1>3. CASE \E d \in toServer : Deliver(d)
  BY <1>3, DeliverStep
<1>4. CASE \E h \in Hosts : Host(h)
  BY <1>4, StartStep, TimeoutStep, CoarseStep, ArpStep DEF Host, ClientStep
<1>5. CASE UNCHANGED allVars
  <2>1. UNCHANGED serverVars /\ UNCHANGED <<lenient, cl, toServer, toClient, ignored>> /\ acks' = acks
    BY <1>5 DEF allVars, serverVars, clientVars, vars
  <2>2. HostInv' /\ StalledOnlyByOffer' /\ Kept
    BY <2>1 DEF ExchangeInv, HostInv, GoodHost, Acknowledged, StalledOnlyByOffer, Kept
  <2>3. FlightInv'
    BY <2>1, FlightStep DEF ExchangeInv, FlightInv
  <2> QED
    BY <2>1, <2>2, <2>3, ServerIdle
<1> QED
  BY <1>1, <1>2, <1>3, <1>4, <1>5 DEF ExchangeNext, Network

(* The invariant of the exchange holds, for any hosts and any server.      *)
THEOREM ExchangeInvariance == ExchangeSpec => []ExchangeInv
<1>1. ExchangeInv /\ [ExchangeNext]_allVars => ExchangeInv'
  BY ExchangeNextInv
<1> QED
  BY <1>1, ExchangeInitInv, PTL DEF ExchangeSpec

(* The address is on at most one host, the one it was acknowledged to:     *)
(* late and stolen replies are for other transactions, and the server      *)
(* counts at most one DHCPACK.                                             *)
THEOREM OneHolderOnly == ExchangeSpec => []OneHolder
<1>1. ASSUME ExchangeInv PROVE OneHolder
  <2>1. \A h \in Holders : h \in Hosts /\ Acknowledged(h)
    <3>1. \A h \in Hosts : cl[h].has => cl[h].state \in {"BOUND", "REBINDING"}
      BY <1>1 DEF ExchangeInv, HostInv, GoodHost
    <3> QED
      BY <1>1, <3>1, StateFacts DEF ExchangeInv, HostInv, Holders
  <2>2. acks \in Seq(Clients) /\ Len(acks) <= 1
    BY <1>1 DEF ExchangeInv, Inv, TypeOK, GrantInv
  <2>3. \A i \in DOMAIN acks : i = 1
    BY <2>2
  <2>4. Holders \subseteq {acks[1][1]}
    BY <2>1, <2>3 DEF Acknowledged
  <2>5. IsFiniteSet({acks[1][1]}) /\ Cardinality({acks[1][1]}) = 1
    BY FS_Singleton
  <2>6. Cardinality(Holders) <= Cardinality({acks[1][1]})
    BY <2>4, <2>5, FS_Subset
  <2> QED
    BY <2>1, <2>5, <2>6 DEF OneHolder, Acknowledged
<1> QED
  BY <1>1, ExchangeInvariance, PTL

(* No host waits for an answer without a timer, but for an offer that did  *)
(* not name its server (dhcp.c:1782); and the types of all variables.      *)
THEOREM NegotiationsAreTimed == ExchangeSpec => []NegotiationTimed
<1>1. ExchangeInv => NegotiationTimed
  BY DEF ExchangeInv, Inv, FlightInv, HostInv, HostState, NegotiationTimed, ExchangeTypeOK
<1> QED
  BY <1>1, ExchangeInvariance, PTL

(* Whoever has the address keeps it, although nobody answers a renewal:    *)
(* the lease is infinite in every DHCPACK that can be under way.           *)
THEOREM LeaseIsKept == ExchangeSpec => LeaseKept
<1>1. ExchangeInv /\ [ExchangeNext]_allVars => [\A h \in Hosts : cl[h].has => cl'[h].has]_allVars
  BY ExchangeNextInv DEF Kept
<1> QED
  BY <1>1, ExchangeInvariance, PTL DEF ExchangeSpec, LeaseKept

=============================================================================
