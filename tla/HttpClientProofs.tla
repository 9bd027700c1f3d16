-------------------------- MODULE HttpClientProofs --------------------------
(***************************************************************************)
(* Theorems about HttpClient and the socket of Netconn below it: for any   *)
(* responses, mailbox, buffer and number of posts.                         *)
(***************************************************************************)
EXTENDS HttpClient, SequenceTheorems, TLAPS

Msgs == [data : Seq(Tokens), push : BOOLEAN]
Refusals == [data : Seq(Tokens), push : BOOLEAN, fin : BOOLEAN]

(* The types that NetTypeOK and TypeOK leave open.                         *)
DataTypes ==
    /\ mbox \in Seq(Msgs) /\ lastdata \in Msgs /\ refused \in Refusals
    /\ got \in Seq(Tokens) /\ stream \in Seq(Tokens)
    /\ buf \in Seq(Tokens) /\ sent \in Seq(Tokens)
    /\ refusedPosts \in Nat /\ answered \in Nat /\ dropped \in Nat
    /\ lastErr # "CLSD"

(* Which call of the socket the task is in.                                *)
CallInv ==
    /\ call = "connect" => pc = "connecting"
    /\ call = "write" => pc = "sending"
    /\ call \in {"recv", "fetch", "null", "shut"} => pc = "receiving"
    /\ call = "delete" => pc = "closing"

(* The states of the pcb, as the state of the netconn and the place of the *)
(* task restrict them.                                                     *)
PcbInv ==
    /\ pcb = "synSent" <=> state = "CONNECT"
    /\ pcb \in {"finWait", "lastAck", "freed"} => state = "CLOSE"
    /\ closePend => state = "CLOSE"
    /\ refused # NoRefused => pcb \notin {"null", "closed", "synSent"}
    /\ pcb \in {"closed", "synSent"} => mbox = <<>> /\ lastdata = NullMsg /\ mboxValid
    /\ pc = "connect" => pcb = "closed" /\ ret = 0
    /\ pc = "connecting" /\ pcb = "closed" => call = "none" /\ ret = -1
    /\ pcb = "closed" => pc \in {"idle", "connect", "connecting"}
    /\ call = "connect" /\ state = "NONE" /\ msgErr # "OK" => pcb = "null"
    /\ call = "delete" /\ state = "NONE" => pcb = "null"
    /\ pc = "idle" \/ (pc = "connecting" /\ call = "none" /\ ret = -1) => pcb \in {"null", "closed"}
    /\ pc = "closing" /\ call = "none" => pcb = "null"

(* The mailbox: rcvevent counts its messages until the connection fails.   *)
MboxInv ==
    /\ mboxValid /\ lastErr \notin FatalErrors => rcvevent = Len(mbox)
    /\ mboxValid /\ pcb = "null" => lastErr \in FatalErrors
    /\ ~mboxValid => mbox = <<>>
    /\ call = "delete" => ~mboxValid
    /\ call \in {"fetch", "null", "shut"} => mboxValid /\ lastdata = NullMsg
    /\ call = "recv" /\ got # <<>> => rcvevent > 0 /\ lastdata = NullMsg
    /\ pc \in {"post", "send", "sending", "wait"} \/ (pc = "connecting" /\ pcb # "closed")
          => mboxValid /\ lastdata = NullMsg

(* What the task has of the response, and the part a list holds from an    *)
(* offset on.                                                              *)
Taken == IF pc = "receiving" THEN buf \o got ELSE buf
Part(s, off, whole) ==
    off + Len(s) <= Len(whole) /\ \A j \in 1..Len(s) : s[j] = whole[off + j]

(* A connection in use: what the peer sent lies in order in BUF, lastdata, *)
(* the mailbox, the refused data and what is still to come; cut[i] is what *)
(* lies before the end of the i-th message.                                *)
Live == /\ pc \in {"connecting", "post", "send", "sending", "wait", "recv", "receiving"}
        /\ pcb # "closed"
Cuts(cut) ==
    LET n == Len(mbox) IN
    /\ Part(Taken, 0, sent)
    /\ Part(lastdata.data, Len(Taken), sent)
    /\ cut[0] = Len(Taken) + Len(lastdata.data)
    /\ \A i \in 1..n : /\ cut[i] = cut[i - 1] + Len(mbox[i].data)
                       /\ Part(mbox[i].data, cut[i - 1], sent)
    /\ pcb # "null" => /\ Part(refused.data, cut[n], sent)
                       /\ Part(stream, cut[n] + Len(refused.data), sent)
                       /\ cut[n] + Len(refused.data) + Len(stream) = Len(sent)
FlowInv == Live => \E cut \in [0..Len(mbox) -> Nat] : Cuts(cut)

(* Messages carry data, but for the NULL message; on a connection that has *)
(* not failed that one is behind all data.                                 *)
MessageInv ==
    /\ \A i \in 1..Len(mbox) : mbox[i] = NullMsg \/ mbox[i].data # <<>>
    /\ lastdata = NullMsg \/ lastdata.data # <<>>
    /\ refused = NoRefused \/ refused.data # <<>>
    /\ refused.fin => stream = <<>> /\ pcb \in {"closeWait", "lastAck", "freed"}
    /\ pcb # "null" => \A i \in 1..Len(mbox) : mbox[i] = NullMsg =>
          /\ i = Len(mbox) /\ refused = NoRefused /\ stream = <<>>
          /\ pcb \notin {"synSent", "established"}
    /\ call \in {"null", "shut"} /\ pcb # "null" =>
          stream = <<>> /\ refused = NoRefused /\ pcb \notin {"synSent", "established"}

(* The end of the connection is reported when all data was taken.          *)
Complete == lastdata = NullMsg /\ Len(Taken) = Len(sent)
CompleteInv ==
    /\ call = "null" /\ pcb # "null" => Complete
    /\ call = "shut" => Complete
    /\ pc \in {"recv", "receiving"} /\ ~mboxValid => Complete
    /\ pc = "receiving" /\ call = "none" /\ ret = 0 => Complete \/ Len(buf) = BufSize

(* After an error no recv returns data.                                    *)
Dead == /\ mboxValid /\ lastErr \in FatalErrors /\ lastdata = NullMsg
        /\ call \in {"none", "recv"}
ReceiveInv ==
    /\ pc \in {"recv", "receiving"} => /\ totalRecv <= Len(buf) /\ Len(buf) <= BufSize
                                       /\ totalRecv # Len(buf) => Dead
    /\ pc = "receiving" =>
          /\ totalRecv + Len(got) <= BufSize
          /\ totalRecv > -MaxSpin
          /\ totalRecv # Len(buf) => got = <<>>
          /\ call # "none" => room = BufSize - totalRecv - Len(got)
          /\ call = "none" => \/ ret = Len(got)
                              \/ ret = 0 /\ got = <<>>
                              \/ ret = -1 /\ got = <<>> /\ Dead
    /\ pc = "parse" => /\ Part(buf, 0, sent)
                       /\ Len(buf) = Len(sent) \/ Len(buf) = BufSize

(* What is allocated, at each place of the task.                           *)
HeapInv ==
    /\ answer = "live" => pc \in {"recv", "receiving", "parse", "close", "closing"} \union Undefined
    /\ pc \in {"recv", "receiving", "parse"} => answer = "live"
    /\ answer = "lost" => pc \in {"close", "closing"}
    /\ pc \notin Undefined =>
          heap = 4 * answered + dropped + (IF pc \in {"send", "sending"} THEN 1 ELSE 0)
                                        + (IF answer = "live" THEN 1 ELSE 0)
    /\ pc \notin {"recv", "receiving", "parse", "close", "closing"} \union Undefined => buf = <<>>

Inv == /\ TypeOK /\ DataTypes /\ CallInv /\ PcbInv /\ OperationProtocol /\ MboxInv
       /\ ReaderWoken /\ FlowInv /\ MessageInv /\ CompleteInv /\ ReceiveInv 
       /\ HeapInv /\ SocketsAccounted

-----------------------------------------------------------------------------
(* A list cut in two.                                                      *)
LEMMA CutInTwo ==
    ASSUME NEW s \in Seq(Tokens), NEW n \in 0..Len(s)
    PROVE  /\ SubSeq(s, 1, n) \in Seq(Tokens) /\ Len(SubSeq(s, 1, n)) = n
           /\ SubSeq(s, n + 1, Len(s)) \in Seq(Tokens)
           /\ Len(SubSeq(s, n + 1, Len(s))) = Len(s) - n
  OBVIOUS

(* Parts of a list.                                                        *)
LEMMA PartOfPart ==
    ASSUME NEW s \in Seq(Tokens), NEW whole \in Seq(Tokens), NEW off \in Nat,
           NEW n \in 0..Len(s), Part(s, off, whole)
    PROVE  /\ SubSeq(s, 1, n) \in Seq(Tokens) /\ Len(SubSeq(s, 1, n)) = n
           /\ SubSeq(s, n + 1, Len(s)) \in Seq(Tokens)
           /\ Len(SubSeq(s, n + 1, Len(s))) = Len(s) - n
           /\ Part(SubSeq(s, 1, n), off, whole)
           /\ Part(SubSeq(s, n + 1, Len(s)), off + n, whole)
<1>1. /\ SubSeq(s, 1, n) \in Seq(Tokens) /\ Len(SubSeq(s, 1, n)) = n
      /\ \A j \in 1..n : SubSeq(s, 1, n)[j] = s[j]
  OBVIOUS
<1>2. /\ SubSeq(s, n + 1, Len(s)) \in Seq(Tokens)
      /\ Len(SubSeq(s, n + 1, Len(s))) = Len(s) - n
      /\ \A j \in 1..(Len(s) - n) : SubSeq(s, n + 1, Len(s))[j] = s[n + j]
  OBVIOUS
<1>3. Part(SubSeq(s, 1, n), off, whole)
  BY <1>1 DEF Part
<1>4. Part(SubSeq(s, n + 1, Len(s)), off + n, whole)
  <2>1. \A j \in 1..(Len(s) - n) : s[n + j] = whole[off + n + j]
    <3> TAKE j \in 1..(Len(s) - n)
    <3>1. n + j \in 1..Len(s) /\ off + (n + j) = off + n + j
      OBVIOUS
    <3> QED
      BY <3>1 DEF Part
  <2>2. off + n + (Len(s) - n) <= Len(whole)
    BY DEF Part
  <2> QED
    BY <1>2, <2>1, <2>2 DEF Part
<1> QED
  BY <1>1, <1>2, <1>3, <1>4

(* Two parts that follow each other make one.                              *)
LEMMA PartsJoined ==
    ASSUME NEW s \in Seq(Tokens), NEW r \in Seq(Tokens), NEW whole \in Seq(Tokens),
           NEW off \in Nat, Part(s, off, whole), Part(r, off + Len(s), whole)
    PROVE  /\ s \o r \in Seq(Tokens) /\ Len(s \o r) = Len(s) + Len(r)
           /\ Part(s \o r, off, whole)
<1>1. s \o r \in Seq(Tokens) /\ Len(s \o r) = Len(s) + Len(r)
  OBVIOUS
<1>2. ASSUME NEW j \in 1..(Len(s) + Len(r)) PROVE (s \o r)[j] = whole[off + j]
  <2>1. CASE j <= Len(s)
    <3>1. (s \o r)[j] = s[j]
      BY <2>1
    <3> QED
      BY <2>1, <3>1 DEF Part
  <2>2. CASE j > Len(s)
    <3>1. (s \o r)[j] = r[j - Len(s)] /\ j - Len(s) \in 1..Len(r)
      BY <2>2
    <3>2. r[j - Len(s)] = whole[off + Len(s) + (j - Len(s))]
      BY <3>1 DEF Part
    <3>3. off + Len(s) + (j - Len(s)) = off + j
      OBVIOUS
    <3> QED
      BY <3>1, <3>2, <3>3
  <2> QED
    BY <2>1, <2>2
<1> QED
  BY <1>1, <1>2 DEF Part

(* A part at the start is a prefix.                                        *)
LEMMA PartIsPrefix ==
    ASSUME NEW s \in Seq(Tokens), NEW whole \in Seq(Tokens), Part(s, 0, whole)
    PROVE  IsPrefixOf(s, whole)
<1>1. Len(s) <= Len(whole) /\ Len(s) \in Nat
  BY DEF Part
<1>2. SubSeq(whole, 1, Len(s)) \in Seq(Tokens) /\ Len(SubSeq(whole, 1, Len(s))) = Len(s)
  BY <1>1
<1>3. \A i \in 1..Len(s) : SubSeq(whole, 1, Len(s))[i] = s[i]
  BY <1>1 DEF Part
<1>4. s = SubSeq(whole, 1, Len(s))
  BY <1>2, <1>3, SMTT(30)
<1> QED
  BY <1>1, <1>4 DEF IsPrefixOf

(* A part that is as long as the whole.                                    *)
LEMMA PartIsWhole ==
    ASSUME NEW s \in Seq(Tokens), NEW whole \in Seq(Tokens), Part(s, 0, whole),
           Len(s) = Len(whole)
    PROVE  s = whole
  BY DEF Part

(* Appending is associative.                                               *)
LEMMA ConcatInOrder ==
    ASSUME NEW s \in Seq(Tokens), NEW r \in Seq(Tokens), NEW q \in Seq(Tokens)
    PROVE  (s \o r) \o q = s \o (r \o q)
  BY ConcatAssociative

(* The NULL message, and no refused data.                                  *)
LEMMA Nulls ==
    /\ NullMsg \in Msgs /\ NullMsg.data = <<>>
    /\ NoRefused \in Refusals /\ NoRefused.data = <<>> /\ ~NoRefused.fin
  BY DEF NullMsg, NoRefused, Pbuf, Nothing, Msgs, Refusals

-----------------------------------------------------------------------------
(* The initial state.                                                      *)
LEMMA InitInv == Init => Inv
<1> SUFFICES ASSUME Init PROVE Inv
  OBVIOUS
<1> USE NetconnAssumption, HttpAssumption DEF Init, NetInit, NullMsg, NoRefused, Pbuf, Nothing
<1>1. NetTypeOK
  <2>1. Len(mbox) <= MboxSize /\ used \in 0..NumSockets /\ pollsLeft \in 0..MaxPolls
    OBVIOUS
  <2>2. lastErr \in Errors /\ msgErr \in Errors
    BY DEF Errors
  <2>3. mboxValid \in BOOLEAN /\ unacked \in BOOLEAN /\ closePend \in BOOLEAN
    OBVIOUS
  <2> QED
    BY <2>1, <2>2, <2>3 DEF NetTypeOK
<1>1a. TypeOK
  BY <1>1 DEF TypeOK, Undefined
<1>1b. DataTypes
  BY DEF DataTypes, Msgs, Refusals
<1>2. CallInv /\ PcbInv /\ OperationProtocol /\ MboxInv /\ ReaderWoken
  BY DEF CallInv, PcbInv, OperationProtocol, SignalledOnce, Waiting, OperationHasWaiter, MboxInv,
         FatalErrors, ReaderWoken, NeverWaitsHoldingData, FailureWakesReader
<1>3. FlowInv /\ MessageInv /\ CompleteInv /\ ReceiveInv /\ HeapInv /\ SocketsAccounted
  BY DEF FlowInv, Live, MessageInv, CompleteInv, ReceiveInv, HeapInv, SocketsAccounted, Holding,
         Undefined
<1> QED
  BY <1>1a, <1>1b, <1>2, <1>3 DEF Inv

-----------------------------------------------------------------------------
(* What a step that leaves the data where it is keeps.                     *)
LEMMA FlowKept ==
    ASSUME Inv, UNCHANGED <<mbox, lastdata, refused, stream, sent>>, Taken' = Taken,
           Live' => Live, pcb' # "null" => pcb # "null"
    PROVE  FlowInv'
<1> SUFFICES ASSUME Live' PROVE \E cut \in [0..Len(mbox) -> Nat] : Cuts(cut)'
  BY DEF FlowInv
<1>1. PICK cut \in [0..Len(mbox) -> Nat] : Cuts(cut)
  BY DEF Inv, FlowInv
<1>2. Cuts(cut)'
  BY <1>1 DEF Cuts
<1> QED
  BY <1>1, <1>2

(* What shows that the data is in order after a step: a choice of cuts.    *)
LEMMA FlowMade ==
    ASSUME NEW c \in [0..Len(mbox') -> Nat],
           Part(Taken', 0, sent'), Part(lastdata'.data, Len(Taken'), sent'),
           c[0] = Len(Taken') + Len(lastdata'.data),
           \A i \in 1..Len(mbox') : /\ c[i] = c[i - 1] + Len(mbox'[i].data)
                                   /\ Part(mbox'[i].data, c[i - 1], sent'),
           pcb' # "null" => /\ Part(refused'.data, c[Len(mbox')], sent')
                            /\ Part(stream', c[Len(mbox')] + Len(refused'.data), sent')
                            /\ c[Len(mbox')] + Len(refused'.data) + Len(stream') = Len(sent')
    PROVE  FlowInv'
<1>1. Cuts(c)'
  BY DEF Cuts
<1> QED
  BY <1>1 DEF FlowInv

(* A step of the task outside the socket.                                  *)
LEMMA SocketKept ==
    ASSUME Inv, UNCHANGED netVars
    PROVE  NetTypeOK' /\ OperationProtocol' /\ ReaderWoken' /\ MessageInv'
<1> USE DEF Inv, netVars, callVars, connVars, coreVars
<1>1. NetTypeOK'
  BY DEF TypeOK, NetTypeOK
<1>2. OperationProtocol' /\ ReaderWoken'
  BY DEF OperationProtocol, SignalledOnce, Waiting, OperationHasWaiter,
         ReaderWoken, NeverWaitsHoldingData, FailureWakesReader
<1>3. MessageInv'
  BY DEF MessageInv
<1> QED
  BY <1>1, <1>2, <1>3

(* connect() returns to createSocket.                                      *)
LEMMA ConnectedStep == ASSUME Inv, Connected PROVE Inv'
<1> USE NetconnAssumption, HttpAssumption
    DEF Inv, Connected, appVars, netVars, callVars, connVars, coreVars
<1>0. NetTypeOK' /\ OperationProtocol' /\ ReaderWoken' /\ MessageInv'
  BY SocketKept
<1>1. TypeOK' /\ DataTypes'
  BY <1>0 DEF TypeOK, DataTypes
<1>2. CallInv' /\ PcbInv' /\ MboxInv'
  BY DEF CallInv, PcbInv, MboxInv
<1>3. Taken' = Taken
  BY DEF Taken
<1>4. FlowInv'
  BY <1>3, FlowKept DEF Live, PcbInv
<1>5. CompleteInv' /\ ReceiveInv' /\ HeapInv'
  BY DEF CompleteInv, ReceiveInv, HeapInv, Undefined
<1>6. SocketsAccounted'
  BY DEF SocketsAccounted, Holding, Undefined, TypeOK, NetTypeOK, DataTypes
<1> QED
  BY <1>0, <1>1, <1>2, <1>4, <1>5, <1>6

(* httpPost builds the packet, or not.                                     *)
LEMMA HttpPostStep == ASSUME Inv, httpPost PROVE Inv'
<1> USE NetconnAssumption, HttpAssumption
    DEF Inv, httpPost, history, netVars, callVars, connVars, coreVars
<1>0. NetTypeOK' /\ OperationProtocol' /\ ReaderWoken' /\ MessageInv'
  BY SocketKept
<1>1. TypeOK' /\ DataTypes'
  BY <1>0 DEF TypeOK, DataTypes, Undefined
<1>2. CallInv' /\ PcbInv' /\ MboxInv'
  BY DEF CallInv, PcbInv, MboxInv
<1>3. Taken' = Taken
  BY DEF Taken
<1>4. FlowInv'
  BY <1>3, FlowKept DEF Live
<1>5. CompleteInv' /\ ReceiveInv'
  BY DEF CompleteInv, CallInv, ReceiveInv
<1>5a. SocketsAccounted'
  BY DEF SocketsAccounted, Holding, Undefined
<1>6. HeapInv'
  BY DEF HeapInv, Undefined, TypeOK, DataTypes
<1> QED
  BY <1>0, <1>1, <1>2, <1>4, <1>5, <1>5a, <1>6

(* send() returned; the packet is freed.                                   *)
LEMMA FreePacketStep == ASSUME Inv, FreePacket PROVE Inv'
<1> USE NetconnAssumption, HttpAssumption
    DEF Inv, FreePacket, history, netVars, callVars, connVars, coreVars
<1>0. NetTypeOK' /\ OperationProtocol' /\ ReaderWoken' /\ MessageInv'
  BY SocketKept
<1>1. heap' \in Nat
  BY DEF HeapInv, Undefined, TypeOK, DataTypes
<1>2. TypeOK' /\ DataTypes'
  BY <1>0, <1>1 DEF TypeOK, DataTypes
<1>3. CallInv' /\ PcbInv' /\ MboxInv'
  BY DEF CallInv, PcbInv, MboxInv
<1>4. Taken' = Taken
  BY DEF Taken
<1>5. FlowInv'
  BY <1>4, FlowKept DEF Live
<1>6. CompleteInv' /\ ReceiveInv' /\ SocketsAccounted'
  BY DEF CompleteInv, ReceiveInv, SocketsAccounted, Holding, Undefined
<1>7. HeapInv'
  BY DEF HeapInv, Undefined, TypeOK, DataTypes
<1> QED
  BY <1>0, <1>2, <1>3, <1>5, <1>6, <1>7

(* waitHttpResponse allocates the answer.                                  *)
LEMMA WaitStep == ASSUME Inv, waitHttpResponse PROVE Inv'
<1> USE NetconnAssumption, HttpAssumption
    DEF Inv, waitHttpResponse, history, netVars, callVars, connVars, coreVars
<1>0. NetTypeOK' /\ OperationProtocol' /\ ReaderWoken' /\ MessageInv'
  BY SocketKept
<1>1. buf = <<>> /\ buf' = <<>> /\ call = "none"
  BY DEF HeapInv, CallInv, TypeOK, NetTypeOK, Undefined
<1>2. TypeOK' /\ DataTypes'
  <2>1. totalRecv' \in (-MaxSpin)..BufSize /\ heap' \in Nat
    BY DEF TypeOK
  <2>2. pc' \in {"recv", "close"} /\ answer' \in {"null", "live", "lost"}
    BY DEF TypeOK
  <2>3. TypeOK'
    BY <1>0, <2>1, <2>2 DEF TypeOK
  <2> QED
    BY <1>1, <2>3 DEF DataTypes
<1>3. CallInv' /\ PcbInv' /\ MboxInv'
  BY <1>1 DEF CallInv, PcbInv, MboxInv
<1>4. Taken' = Taken
  BY <1>1 DEF Taken
<1>5. FlowInv'
  BY <1>4, FlowKept DEF Live
<1>6. CompleteInv' /\ ReceiveInv' /\ SocketsAccounted'
  BY <1>1 DEF CompleteInv, MboxInv, ReceiveInv, SocketsAccounted, Holding, Undefined
<1>7. HeapInv'
  <2>1. heap = 4 * answered + dropped /\ answer = "null"
    BY DEF HeapInv, Undefined, TypeOK, DataTypes
  <2>2. heap \in Nat /\ answered' = answered /\ dropped' = dropped
    BY DEF TypeOK
  <2>3. CASE pc' = "recv" /\ answer' = "live" /\ heap' = heap + 1
    <3>1. heap' = 4 * answered + dropped + 0 + 1
      BY <2>1, <2>2, <2>3 DEF DataTypes
    <3> QED
      BY <3>1, <2>2, <2>3 DEF HeapInv, Undefined
  <2>4. CASE pc' = "close" /\ answer' = answer /\ heap' = heap
    <3>1. heap' = 4 * answered + dropped + 0 + 0
      BY <2>1, <2>2, <2>4 DEF DataTypes
    <3> QED
      BY <3>1, <2>1, <2>2, <2>4 DEF HeapInv, Undefined
  <2> QED
    BY <2>3, <2>4
<1> QED
  BY <1>0, <1>2, <1>3, <1>5, <1>6, <1>7

(* recv() returned to the receive loop.                                    *)
LEMMA ReceivedStep == ASSUME Inv, Received PROVE Inv'
<1> USE NetconnAssumption, HttpAssumption
    DEF Inv, Received, history, netVars, callVars, connVars, coreVars
<1>0. NetTypeOK' /\ OperationProtocol' /\ ReaderWoken' /\ MessageInv'
  BY SocketKept
<1>1. /\ ret = Len(got) \/ (ret = 0 /\ got = <<>>) \/ (ret = -1 /\ got = <<>> /\ Dead)
      /\ totalRecv + Len(got) <= BufSize /\ totalRecv > -MaxSpin
      /\ got # <<>> => totalRecv = Len(buf)
      /\ totalRecv <= Len(buf) /\ Len(buf) <= BufSize
      /\ totalRecv # Len(buf) => Dead
  BY DEF ReceiveInv
<1>2. buf \in Seq(Tokens) /\ got \in Seq(Tokens) /\ sent \in Seq(Tokens) /\ totalRecv \in Int
  BY DEF DataTypes, TypeOK
<1>3. /\ buf' \in Seq(Tokens) /\ Len(buf') = Len(buf) + Len(got)
      /\ buf' = Taken /\ Taken' = Taken
  <2>1. CASE got = <<>>
    <3>1. buf' = buf /\ buf \o got = buf
      BY <1>1, <1>2, <2>1
    <3> QED
      BY <3>1, <1>2, <2>1 DEF Taken
  <2>2. CASE got # <<>>
    <3>1. ret > 0 /\ buf' = buf \o got
      BY <1>1, <1>2, <2>2
    <3> QED
      BY <3>1, <1>2 DEF Taken
  <2> QED
    BY <2>1, <2>2
<1>4. TypeOK' /\ DataTypes'
  <2>1. totalRecv' \in (-MaxSpin)..BufSize
    BY <1>1, <1>2
  <2> QED
    BY <1>0, <1>3, <2>1 DEF TypeOK, DataTypes
<1>5. CallInv' /\ PcbInv' /\ MboxInv'
  BY DEF CallInv, PcbInv, MboxInv
<1>6. FlowInv'
  BY <1>3, FlowKept DEF Live
<1>7. CompleteInv'
  <2>1. ~mboxValid => Complete
    BY DEF CompleteInv
  <2>2. Complete' <=> Complete
    BY <1>3 DEF Complete
  <2> QED
    BY <2>1, <2>2 DEF CompleteInv
<1>8. ReceiveInv'
  <2>1. pc' = "recv" => /\ totalRecv' <= Len(buf') /\ Len(buf') <= BufSize
                        /\ totalRecv' # Len(buf') => Dead'
    <3>1. Dead' <=> Dead
      BY DEF Dead
    <3> QED
      BY <3>1, <1>1, <1>2, <1>3
  <2>2. ASSUME pc' = "parse"
        PROVE  Part(buf', 0, sent) /\ (Len(buf') = Len(sent) \/ Len(buf') = BufSize)
    <3>1. ret = 0 /\ Len(buf') = Len(buf)
      BY <2>2, <1>1, <1>2, <1>3
    <3>2. Complete \/ Len(buf) = BufSize
      BY <3>1 DEF CompleteInv
    <3>3. Part(Taken, 0, sent)
      BY DEF FlowInv, Live, Cuts, PcbInv
    <3> QED
      BY <3>1, <3>2, <3>3, <1>3 DEF Complete
  <2> QED
    BY <2>1, <2>2 DEF ReceiveInv
<1>9. HeapInv' /\ SocketsAccounted'
  BY DEF HeapInv, SocketsAccounted, Holding, Undefined
<1> QED
  BY <1>0, <1>4, <1>5, <1>6, <1>7, <1>8, <1>9

(* The rest of waitHttpResponse.                                           *)
LEMMA ParseStep == ASSUME Inv, Parse PROVE Inv'
<1> USE NetconnAssumption, HttpAssumption
    DEF Inv, Parse, netVars, callVars, connVars, coreVars
<1>0. NetTypeOK' /\ OperationProtocol' /\ ReaderWoken' /\ MessageInv'
  BY SocketKept
<1>1. pc' \in {"close", "nullDeref", "heapOverrun"}
  OBVIOUS
<1>2. TypeOK'
  BY <1>0, <1>1 DEF TypeOK, DataTypes, Undefined
<1>3. DataTypes'
  BY DEF DataTypes
<1>4. CallInv' /\ PcbInv' /\ MboxInv'
  BY <1>1 DEF CallInv, PcbInv, MboxInv
<1>5. FlowInv' /\ CompleteInv' /\ ReceiveInv'
  BY <1>1 DEF FlowInv, Live, CompleteInv, CallInv, ReceiveInv
<1>6. SocketsAccounted'
  BY <1>1 DEF SocketsAccounted, Holding, Undefined
<1>7. HeapInv'
  BY <1>1 DEF HeapInv, Undefined, TypeOK, DataTypes
<1> QED
  BY <1>0, <1>2, <1>3, <1>4, <1>5, <1>6, <1>7

(* close() returned; the answer is freed.                                  *)
LEMMA FreeResponseStep == ASSUME Inv, FreeResponse PROVE Inv'
<1> USE NetconnAssumption, HttpAssumption
    DEF Inv, FreeResponse, history, netVars, callVars, connVars, coreVars
<1>0. NetTypeOK' /\ OperationProtocol' /\ ReaderWoken' /\ MessageInv'
  BY SocketKept
<1>1. heap' \in Nat /\ heap' = 4 * answered + dropped
  BY DEF HeapInv, Undefined, TypeOK, DataTypes
<1>2. TypeOK' /\ DataTypes'
  BY <1>0, <1>1 DEF TypeOK, DataTypes
<1>3. CallInv' /\ PcbInv' /\ MboxInv'
  BY DEF CallInv, PcbInv, MboxInv
<1>4. FlowInv' /\ CompleteInv' /\ ReceiveInv'
  BY DEF FlowInv, Live, CompleteInv, ReceiveInv
<1>5. SocketsAccounted'
  BY DEF SocketsAccounted, Holding, Undefined
<1>6. HeapInv'
  BY <1>1 DEF HeapInv, Undefined
<1> QED
  BY <1>0, <1>2, <1>3, <1>4, <1>5, <1>6

-----------------------------------------------------------------------------
(* The task enters a call of the socket.                                   *)

(* Outside a call no operation is under way, and nothing is signalled.     *)
LEMMA Quiet ==
    ASSUME Inv, call = "none"
    PROVE  /\ state = "NONE" /\ sem = 0 /\ ~closePend
           /\ pcb \notin {"synSent", "finWait", "lastAck", "freed"}
<1>1. state = "NONE"
  BY DEF Inv, OperationProtocol, OperationHasWaiter, TypeOK, NetTypeOK
<1>2. sem = 0
  BY DEF Inv, OperationProtocol, SignalledOnce, Waiting
<1> QED
  BY <1>1, <1>2 DEF Inv, PcbInv

(* socket() of createSocket.                                               *)
LEMMA CreateSocketStep == ASSUME Inv, createSocket PROVE Inv'
<1> USE NetconnAssumption, HttpAssumption
<1>0. pc = "idle" /\ call = "none" /\ posts < MaxPosts
  BY DEF createSocket, lwip_socket
<1>1. /\ UNCHANGED <<appVars, refusedPosts, answered, dropped>>
      /\ posts' = posts + 1 /\ pc' = IF ret' = -1 THEN "idle" ELSE "connect"
  BY DEF createSocket
<1>2. CASE ret' = -1 /\ UNCHANGED <<call, room, got, todo, connVars, coreVars, used, lastdata>>
  <2> USE <1>0, <1>1, <1>2 DEF Inv, appVars, connVars, coreVars
  <2>0. NetTypeOK'
    BY DEF TypeOK, NetTypeOK
  <2>1. OperationProtocol' /\ ReaderWoken'
    BY DEF OperationProtocol, SignalledOnce, Waiting, OperationHasWaiter,
           ReaderWoken, NeverWaitsHoldingData, FailureWakesReader
  <2>2. TypeOK' /\ DataTypes'
    BY <2>0 DEF TypeOK, DataTypes
  <2>3. CallInv' /\ PcbInv' /\ MboxInv' /\ MessageInv'
    BY DEF CallInv, PcbInv, MboxInv, MessageInv
  <2>4. FlowInv' /\ CompleteInv' /\ ReceiveInv' /\ HeapInv' /\ SocketsAccounted'
    BY DEF FlowInv, Live, CompleteInv, ReceiveInv, HeapInv, SocketsAccounted, Holding, Undefined
  <2> QED
    BY <2>1, <2>2, <2>3, <2>4
<1>3. CASE /\ used < NumSockets /\ used' = used + 1 /\ ret' = 0
           /\ state' = "NONE" /\ pcb' = "closed" /\ lastErr' = "OK" /\ msgErr' = "OK"
           /\ sem' = 0 /\ mbox' = <<>> /\ mboxValid' = TRUE /\ rcvevent' = 0
           /\ lastdata' = NullMsg
           /\ UNCHANGED <<call, room, got, todo, pollsLeft, coreVars>>
  <2> USE <1>0, <1>1, <1>3 DEF Inv, appVars, coreVars
  <2>0. pc' = "connect" /\ ~closePend /\ refused = NoRefused
    <3>2. ~closePend
      BY Quiet
    <3>3. pcb \in {"null", "closed"}
      BY DEF PcbInv
    <3> QED
      BY <3>2, <3>3 DEF PcbInv
  <2>1. NetTypeOK'
    <3>1. used' \in 0..NumSockets
      BY DEF TypeOK, NetTypeOK
    <3>2. lastErr' \in Errors /\ msgErr' \in Errors
      BY DEF Errors
    <3>3. mboxValid' \in BOOLEAN
      OBVIOUS
    <3>4. Len(mbox') <= MboxSize
      OBVIOUS
    <3> QED
      BY <3>1, <3>2, <3>3, <3>4 DEF TypeOK, NetTypeOK
  <2>2. OperationProtocol' /\ ReaderWoken'
    BY DEF OperationProtocol, SignalledOnce, Waiting, OperationHasWaiter,
           ReaderWoken, NeverWaitsHoldingData, FailureWakesReader
  <2>3. TypeOK'
    BY <2>0, <2>1 DEF TypeOK
  <2>4. DataTypes'
    BY DEF DataTypes, NullMsg, Pbuf, Nothing, Msgs
  <2>5. CallInv' /\ PcbInv' /\ MboxInv' /\ MessageInv'
    BY <2>0 DEF CallInv, PcbInv, MboxInv, MessageInv, FatalErrors, NoRefused
  <2>6. FlowInv' /\ CompleteInv' /\ ReceiveInv'
    BY <2>0 DEF FlowInv, Live, CompleteInv, ReceiveInv
  <2>7. HeapInv' /\ SocketsAccounted'
    BY <2>0 DEF HeapInv, SocketsAccounted, Holding, Undefined, TypeOK, NetTypeOK, DataTypes
  <2> QED
    BY <2>1, <2>2, <2>3, <2>4, <2>5, <2>6, <2>7
<1> QED
  BY <1>2, <1>3 DEF createSocket, lwip_socket

(* connect() of createSocket is called.                                    *)
LEMMA ConnectStep == ASSUME Inv, Connect PROVE Inv'
<1> USE NetconnAssumption, HttpAssumption
<1>0. /\ pc = "connect" /\ pc' = "connecting" /\ call = "none"
      /\ UNCHANGED <<buf, totalRecv, answer, heap, history>>
      /\ UNCHANGED <<room, got, todo, lastErr, msgErr, sem, mbox, mboxValid, rcvevent,
                     pollsLeft, used, lastdata>>
  BY DEF Connect, lwip_connect
<1>1. pcb = "closed" /\ ret = 0 /\ mbox = <<>> /\ lastdata = NullMsg /\ refused = NoRefused
      /\ buf = <<>>
  BY <1>0 DEF Inv, PcbInv, HeapInv, Undefined
<1>2. state = "NONE" /\ sem = 0 /\ ~closePend
  BY <1>0, Quiet
<1>3. PICK r \in Responses : lwip_connect(r) /\ sent' = r
  BY DEF Connect
<1>4. r \in Seq(Tokens)
  OBVIOUS
<1>5. CASE ret' = -1 /\ UNCHANGED <<call, state, pcb, coreVars>>
  <2> USE <1>0, <1>1, <1>2, <1>3, <1>4, <1>5 DEF Inv, coreVars, history
  <2>1. NetTypeOK'
    BY DEF TypeOK, NetTypeOK
  <2>2. TypeOK' /\ DataTypes'
    BY <2>1 DEF TypeOK, DataTypes
  <2>3. OperationProtocol' /\ ReaderWoken'
    BY DEF OperationProtocol, SignalledOnce, Waiting, OperationHasWaiter,
           ReaderWoken, NeverWaitsHoldingData, FailureWakesReader
  <2>4. CallInv' /\ PcbInv' /\ MboxInv'
    BY DEF CallInv, PcbInv, MboxInv
  <2>5. MessageInv'
    BY DEF MessageInv
  <2>6. FlowInv' /\ CompleteInv' /\ ReceiveInv' /\ HeapInv' /\ SocketsAccounted'
    BY DEF FlowInv, Live, CompleteInv, ReceiveInv, HeapInv, SocketsAccounted, Holding, Undefined
  <2> QED
    BY <2>2, <2>3, <2>4, <2>5, <2>6
<1>6. CASE /\ state' = "CONNECT" /\ pcb' = "synSent" /\ call' = "connect" /\ ret' = ret
           /\ stream' = r /\ unacked' = FALSE /\ refused' = NoRefused /\ closePend' = FALSE
  <2> USE <1>0, <1>1, <1>2, <1>3, <1>4, <1>6 DEF Inv, history
  <2>1. NetTypeOK'
    <3>1. unacked' \in BOOLEAN /\ closePend' \in BOOLEAN
      OBVIOUS
    <3>2. pcb' \in {"null", "closed", "freed"} \union Active
      BY DEF Active
    <3> QED
      BY <3>1, <3>2 DEF TypeOK, NetTypeOK
  <2>2. TypeOK' /\ DataTypes'
    BY <2>1 DEF TypeOK, DataTypes, NoRefused, Nothing, Refusals
  <2>3. OperationProtocol' /\ ReaderWoken'
    BY DEF OperationProtocol, SignalledOnce, Waiting, OperationHasWaiter,
           ReaderWoken, NeverWaitsHoldingData, FailureWakesReader
  <2>4. CallInv' /\ PcbInv' /\ MboxInv'
    BY DEF CallInv, PcbInv, MboxInv
  <2>5. MessageInv'
    BY DEF MessageInv, NoRefused
  <2>6. FlowInv'
    <3> DEFINE cut == [i \in 0..0 |-> 0]
    <3>1. Taken' = <<>>
      BY DEF Taken
    <3>2. lastdata.data = <<>> /\ refused.data = <<>>
      BY DEF NullMsg, Pbuf, Nothing, NoRefused
    <3>3. cut \in [0..Len(mbox') -> Nat]
      OBVIOUS
    <3>4. Part(stream', 0, r) /\ Part(<<>>, 0, r)
      BY DEF Part
    <3>5. Cuts(cut)'
      BY <3>1, <3>2, <3>4 DEF Cuts
    <3> QED
      BY <3>3, <3>5 DEF FlowInv
  <2>7. CompleteInv' /\ ReceiveInv' /\ HeapInv' /\ SocketsAccounted'
    BY DEF CompleteInv, ReceiveInv, HeapInv, SocketsAccounted, Holding, Undefined
  <2> QED
    BY <2>2, <2>3, <2>4, <2>5, <2>6, <2>7
<1> QED
  BY <1>3, <1>5, <1>6 DEF lwip_connect

(* lwip_netconn_do_writemore, in the calling thread or in a callback.      *)
LEMMA WriteEffect ==
    ASSUME Inv, NEW n \in Nat, NEW delayed \in BOOLEAN, NEW waits \in BOOLEAN,
           WriteStep(n, delayed, waits)
    PROVE  /\ todo' \in Nat /\ unacked' \in BOOLEAN
           /\ state' \in {"NONE", "WRITE"}
           /\ msgErr' \in Errors
           /\ lastErr' \in Errors /\ lastErr' # "CLSD"
           /\ lastErr' \in FatalErrors <=> lastErr \in FatalErrors
           /\ sem' = IF state' = "NONE" THEN Signal(delayed) ELSE sem
           /\ delayed => UNCHANGED <<call, ret>>
           /\ ~delayed => /\ call' = IF state' = "NONE" THEN "none" ELSE "write"
                          /\ ret' \in {-1, 0}
           /\ UNCHANGED <<room, got, pcb, mbox, mboxValid, rcvevent, pollsLeft,
                          refused, closePend, stream, used, lastdata>>
<1>1. PICK r \in WriteResults(n) :
        /\ WriteMore(n, r)
        /\ todo' = IF r.done THEN 0 ELSE r.left
        /\ unacked' = (waits \/ r.left < n)
        /\ state' = IF r.done THEN "NONE" ELSE "WRITE"
        /\ msgErr' = r.err
        /\ lastErr' = IF r.done THEN SafeErr(lastErr, r.err) ELSE lastErr
        /\ sem' = IF r.done THEN Signal(delayed) ELSE sem
        /\ IF delayed THEN UNCHANGED <<call, ret>>
           ELSE /\ call' = IF r.done THEN "none" ELSE "write"
                /\ ret' = IF r.done /\ r.err # "OK" THEN -1 ELSE 0
        /\ UNCHANGED <<room, got, pcb, mbox, mboxValid, rcvevent, pollsLeft,
                       refused, closePend, stream, used, lastdata>>
  BY DEF WriteStep
<1>2. r.left \in 0..n /\ r.done \in BOOLEAN /\ r.err \in {"OK", "RTE"}
  BY DEF WriteResults
<1>3. todo' \in Nat /\ msgErr' \in Errors
  BY <1>1, <1>2 DEF Errors
<1>4. unacked' \in BOOLEAN
  BY <1>1
<1>5. /\ lastErr' \in Errors /\ lastErr' # "CLSD"
      /\ lastErr' \in FatalErrors <=> lastErr \in FatalErrors
  BY <1>1, <1>2 DEF Inv, TypeOK, NetTypeOK, DataTypes, SafeErr, Errors, FatalErrors
<1>6. /\ state' \in {"NONE", "WRITE"}
      /\ sem' = IF state' = "NONE" THEN Signal(delayed) ELSE sem
  BY <1>1
<1>7. /\ delayed => UNCHANGED <<call, ret>>
      /\ ~delayed => /\ call' = IF state' = "NONE" THEN "none" ELSE "write"
                     /\ ret' \in {-1, 0}
  BY <1>1
<1> QED
  BY <1>1, <1>3, <1>4, <1>5, <1>6, <1>7

(* send() is called.                                                       *)
LEMMA SendStep == ASSUME Inv, sendHttpRequest PROVE Inv'
<1> USE NetconnAssumption, HttpAssumption
<1>0. pc = "send" /\ pc' = "sending" /\ call = "none" /\ UNCHANGED <<appVars, history>>
  BY DEF sendHttpRequest, lwip_send
<1>1. state = "NONE" /\ sem = 0 /\ ~closePend /\ pcb # "synSent" /\ pcb # "closed"
  BY <1>0, Quiet DEF Inv, PcbInv
<1>2. CASE ret' = -1 /\ UNCHANGED <<call, room, got, todo, connVars, coreVars, used, lastdata>>
  <2> USE <1>0, <1>1, <1>2 DEF Inv, connVars, coreVars, appVars, history
  <2>1. NetTypeOK'
    BY DEF TypeOK, NetTypeOK
  <2>2. TypeOK' /\ DataTypes'
    BY <2>1 DEF TypeOK, DataTypes
  <2>3. OperationProtocol' /\ ReaderWoken'
    BY DEF OperationProtocol, SignalledOnce, Waiting, OperationHasWaiter,
           ReaderWoken, NeverWaitsHoldingData, FailureWakesReader
  <2>4. CallInv' /\ PcbInv' /\ MboxInv' /\ MessageInv'
    BY DEF CallInv, PcbInv, MboxInv, MessageInv
  <2>5. FlowInv'
    BY FlowKept DEF Live, Taken
  <2>6. CompleteInv' /\ ReceiveInv' /\ HeapInv' /\ SocketsAccounted'
    BY DEF CompleteInv, ReceiveInv, HeapInv, SocketsAccounted, Holding, Undefined
  <2> QED
    BY <2>2, <2>3, <2>4, <2>5, <2>6
<1>3. CASE WriteStep(ReqLen, FALSE, unacked)
  <2>1. unacked \in BOOLEAN /\ ReqLen \in Nat /\ FALSE \in BOOLEAN
    BY DEF Inv, TypeOK, NetTypeOK
  <2>2. /\ todo' \in Nat /\ unacked' \in BOOLEAN
        /\ state' \in {"NONE", "WRITE"} /\ msgErr' \in Errors
        /\ lastErr' \in Errors /\ lastErr' # "CLSD"
        /\ lastErr' \in FatalErrors <=> lastErr \in FatalErrors
        /\ sem' = 0
        /\ call' = IF state' = "NONE" THEN "none" ELSE "write"
        /\ ret' \in {-1, 0}
        /\ UNCHANGED <<room, got, pcb, mbox, mboxValid, rcvevent, pollsLeft,
                       refused, closePend, stream, used, lastdata>>
    BY <1>1, <1>3, <2>1, WriteEffect DEF Signal
  <2> USE <1>0, <1>1, <2>2 DEF Inv, appVars, history
  <2>3. NetTypeOK'
    BY DEF TypeOK, NetTypeOK
  <2>4. TypeOK' /\ DataTypes'
    BY <2>3 DEF TypeOK, DataTypes
  <2>5. OperationProtocol' /\ ReaderWoken'
    BY DEF OperationProtocol, SignalledOnce, Waiting, OperationHasWaiter,
           ReaderWoken, NeverWaitsHoldingData, FailureWakesReader
  <2>6. CallInv' /\ PcbInv'
    BY DEF CallInv, PcbInv
  <2>7. MboxInv' /\ MessageInv'
    BY DEF MboxInv, MessageInv
  <2>8. FlowInv'
    BY FlowKept DEF Live, Taken
  <2>9. CompleteInv' /\ ReceiveInv' /\ HeapInv' /\ SocketsAccounted'
    BY DEF CompleteInv, ReceiveInv, HeapInv, SocketsAccounted, Holding, Undefined
  <2> QED
    BY <2>4, <2>5, <2>6, <2>7, <2>8, <2>9
<1> QED
  BY <1>2, <1>3 DEF sendHttpRequest, lwip_send

(* recv() is called.                                                       *)
LEMMA RecvCallStep == ASSUME Inv, RecvCall PROVE Inv'
<1> USE NetconnAssumption, HttpAssumption
    DEF Inv, RecvCall, lwip_recv, connVars, coreVars, appVars, history
<1>1. state = "NONE" /\ sem = 0 /\ ~closePend /\ pcb # "synSent" /\ pcb # "closed"
  BY Quiet DEF PcbInv
<1>2. /\ totalRecv \in Int /\ totalRecv <= Len(buf) /\ Len(buf) <= BufSize
      /\ buf \in Seq(Tokens) /\ Len(buf) \in Nat
      /\ totalRecv # Len(buf) => Dead
  BY DEF ReceiveInv, TypeOK, DataTypes
<1>3. Taken' = Taken
  <2>1. buf \o <<>> = buf
    BY <1>2
  <2> QED
    BY <2>1 DEF Taken
<1>4. NetTypeOK'
  <2>1. room' \in Nat
    BY <1>2
  <2> QED
    BY <2>1 DEF TypeOK, NetTypeOK
<1>5. TypeOK' /\ DataTypes'
  BY <1>4 DEF TypeOK, DataTypes
<1>6. OperationProtocol' /\ ReaderWoken'
  BY <1>1 DEF OperationProtocol, SignalledOnce, Waiting, OperationHasWaiter,
         ReaderWoken, NeverWaitsHoldingData, FailureWakesReader
<1>7. CallInv' /\ PcbInv' /\ MboxInv' /\ MessageInv'
  BY <1>1 DEF CallInv, PcbInv, MboxInv, MessageInv
<1>8. FlowInv'
  BY <1>3, FlowKept DEF Live
<1>9. CompleteInv'
  BY <1>3 DEF CompleteInv, Complete
<1>10. ReceiveInv'
  <2>1. Dead => Dead'
    BY DEF Dead
  <2>2. Len(got') = 0
    OBVIOUS
  <2> QED
    BY <1>2, <2>1, <2>2 DEF ReceiveInv
<1>11. HeapInv' /\ SocketsAccounted'
  BY DEF HeapInv, SocketsAccounted, Holding, Undefined
<1> QED
  BY <1>5, <1>6, <1>7, <1>8, <1>9, <1>10, <1>11

(* lwip_netconn_do_close_internal: done, or waiting.                       *)
LEMMA CloseEffect ==
    ASSUME Inv, NEW delayed \in BOOLEAN, NEW polls \in Nat,
           CloseDone(delayed) \/ CloseDelayed(polls)
    PROVE  /\ pcb' \in {"null", "closed", "freed"} \union Active
           /\ msgErr' \in Errors
           /\ lastErr' \in Errors /\ lastErr' # "CLSD"
           /\ lastErr \in FatalErrors => lastErr' \in FatalErrors
           /\ closePend' \in BOOLEAN /\ refused' \in Refusals
           /\ \/ /\ state' = "NONE" /\ pcb' = "null" /\ ~closePend' /\ refused' = NoRefused
                 /\ sem' = Signal(delayed)
              \/ /\ state' = "CLOSE" /\ closePend' = TRUE /\ pcb \in {"established", "closeWait"}
                 /\ UNCHANGED <<pcb, sem, refused, lastErr, msgErr>>
<1>0. /\ pcb \in {"null", "closed", "freed"} \union Active /\ msgErr \in Errors
      /\ lastErr \in Errors /\ lastErr # "CLSD" /\ refused \in Refusals
  BY DEF Inv, TypeOK, NetTypeOK, DataTypes
<1>1. CASE CloseDone(delayed)
  <2>1. lastErr' \in Errors /\ lastErr' # "CLSD" /\ msgErr' \in Errors
        /\ (lastErr \in FatalErrors => lastErr' \in FatalErrors)
    BY <1>0, <1>1 DEF CloseDone, SafeErr, Errors, FatalErrors
  <2>2. closePend' \in BOOLEAN
    BY <1>1 DEF CloseDone
  <2>3. refused' \in Refusals
    BY <1>1 DEF CloseDone, NoRefused, Nothing, Refusals
  <2> QED
    BY <1>1, <2>1, <2>2, <2>3 DEF CloseDone
<1>2. CASE CloseDelayed(polls)
  <2>1. closePend' \in BOOLEAN
    BY <1>2 DEF CloseDelayed
  <2> QED
    BY <1>0, <1>2, <2>1 DEF CloseDelayed, CloseWaits
<1> QED
  BY <1>1, <1>2

(* close() is called.                                                      *)
LEMMA CloseCallStep == ASSUME Inv, CloseCall PROVE Inv'
<1> USE NetconnAssumption, HttpAssumption
<1>0. /\ pc = "close" /\ pc' = "closing" /\ call = "none" /\ UNCHANGED <<appVars, history>>
      /\ mbox' = <<>> /\ mboxValid' = FALSE /\ pollsLeft' = MaxPolls
      /\ UNCHANGED <<room, got, todo, rcvevent, unacked, stream>>
  BY DEF CloseCall, lwip_close
<1>1. /\ state = "NONE" /\ sem = 0 /\ ~closePend /\ pcb # "closed"
      /\ pcb \notin {"synSent", "finWait", "lastAck", "freed"}
  BY <1>0, Quiet DEF Inv, PcbInv
<1>2. used \in 0..NumSockets /\ used = refusedPosts + 1 /\ refusedPosts \in Nat
  BY <1>0 DEF Inv, SocketsAccounted, Holding, Undefined, TypeOK, NetTypeOK, DataTypes
<1>3. /\ pcb' \in {"null", "closed", "freed"} \union Active
      /\ msgErr' \in Errors /\ lastErr' \in Errors /\ lastErr' # "CLSD"
      /\ closePend' \in BOOLEAN /\ refused' \in Refusals
      /\ \/ /\ state' = "NONE" /\ pcb' = "null" /\ sem' = 0 /\ ~closePend' /\ refused' = NoRefused
            /\ used' = used - 1 /\ lastdata' = NullMsg /\ call' = "none" /\ ret' = 0
         \/ /\ state' = "CLOSE" /\ pcb' = pcb /\ pcb \in {"established", "closeWait"} /\ sem' = 0
            /\ refused' = refused /\ call' = "delete" /\ UNCHANGED <<ret, used, lastdata>>
  <2>1. CASE /\ pcb = "null" /\ FreeSocket
             /\ UNCHANGED <<state, pcb, msgErr, lastErr, sem, closePend, refused>>
    <3>1. refused = NoRefused
      BY <2>1 DEF Inv, PcbInv
    <3> QED
      BY <1>1, <2>1, <3>1 DEF FreeSocket, Inv, TypeOK, NetTypeOK, DataTypes
  <2>2. CASE CloseDone(FALSE) /\ FreeSocket
    <3>1. FALSE \in BOOLEAN /\ MaxPolls \in Nat /\ (CloseDone(FALSE) \/ CloseDelayed(MaxPolls))
      BY <2>2
    <3>2. state' # "CLOSE"
      BY <2>2 DEF CloseDone
    <3> QED
      BY <1>1, <2>2, <3>1, <3>2, CloseEffect DEF FreeSocket, Signal
  <2>3. CASE CloseDelayed(MaxPolls) /\ call' = "delete" /\ UNCHANGED <<ret, used, lastdata>>
    <3>1. FALSE \in BOOLEAN /\ MaxPolls \in Nat /\ (CloseDone(FALSE) \/ CloseDelayed(MaxPolls))
      BY <2>3
    <3>2. state' # "NONE"
      BY <2>3 DEF CloseDelayed
    <3> QED
      BY <1>1, <2>3, <3>1, <3>2, CloseEffect
  <2> QED
    BY <2>1, <2>2, <2>3 DEF CloseCall, lwip_close
<1> USE <1>0, <1>1, <1>3 DEF Inv, appVars, history
<1>4. NetTypeOK'
  <2>1. used' \in 0..NumSockets /\ ret' \in Int /\ sem' \in Nat
    BY <1>2 DEF TypeOK, NetTypeOK
  <2>2. Len(mbox') <= MboxSize
    OBVIOUS
  <2>3. mboxValid' \in BOOLEAN
    OBVIOUS
  <2> QED
    BY <2>1, <2>2, <2>3 DEF TypeOK, NetTypeOK
<1>5. TypeOK' /\ DataTypes'
  BY <1>4, Nulls DEF TypeOK, DataTypes
<1>6. OperationProtocol' /\ ReaderWoken'
  BY DEF OperationProtocol, SignalledOnce, Waiting, OperationHasWaiter,
         ReaderWoken, NeverWaitsHoldingData, FailureWakesReader
<1>7. CallInv' /\ PcbInv' /\ MboxInv'
  BY DEF CallInv, PcbInv, MboxInv
<1>8. MessageInv'
  BY DEF MessageInv, NoRefused
<1>9. FlowInv' /\ CompleteInv' /\ ReceiveInv' /\ HeapInv'
  BY DEF FlowInv, Live, CompleteInv, ReceiveInv, HeapInv, Undefined
<1>10. SocketsAccounted'
  BY <1>2 DEF SocketsAccounted, Holding, Undefined
<1> QED
  BY <1>5, <1>6, <1>7, <1>8, <1>9, <1>10

-----------------------------------------------------------------------------
(* The task goes on inside a call.                                         *)

(* sys_arch_sem_wait returns in connect, write or close.                   *)
LEMMA OpCompletedStep ==
    ASSUME Inv, OpCompleted, UNCHANGED <<pc, appVars, history>>
    PROVE  Inv'
<1> USE NetconnAssumption, HttpAssumption DEF Inv, OpCompleted, FreeSocket, appVars, history, coreVars
<1>1. state = "NONE" /\ sem = 1 /\ sem' = 0
  BY DEF OperationProtocol, SignalledOnce, Waiting
<1>2. call' = "none"
  OBVIOUS
<1>3. call = "delete" => pc = "closing" /\ used = refusedPosts + 1 /\ refusedPosts \in Nat
  BY DEF CallInv, SocketsAccounted, Holding, Undefined, DataTypes
<1>4. NetTypeOK'
  <2>1. used' \in 0..NumSockets /\ ret' \in Int
    BY <1>3 DEF TypeOK, NetTypeOK
  <2> QED
    BY <1>1, <1>2, <2>1 DEF TypeOK, NetTypeOK
<1>5. TypeOK' /\ DataTypes'
  BY <1>4, Nulls DEF TypeOK, DataTypes
<1>6. OperationProtocol' /\ ReaderWoken'
  BY <1>1, <1>2 DEF OperationProtocol, SignalledOnce, Waiting, OperationHasWaiter,
         ReaderWoken, NeverWaitsHoldingData, FailureWakesReader
<1>7. CallInv' /\ MboxInv'
  BY <1>2 DEF CallInv, MboxInv
<1>8. PcbInv'
  BY <1>1, <1>2 DEF PcbInv, CallInv
<1>9. MessageInv'
  BY DEF MessageInv
<1>10. FlowInv'
  <2>1. pc \in {"connecting", "sending", "closing"}
    BY DEF CallInv
  <2>2. Taken' = Taken
    BY DEF Taken
  <2> QED
    BY <2>1, <2>2, FlowKept DEF Live, CallInv, FlowInv
<1>11. CompleteInv' /\ ReceiveInv'
  BY <1>2 DEF CompleteInv, ReceiveInv, CallInv
<1>12. HeapInv'
  BY DEF HeapInv
<1>13. SocketsAccounted'
  BY <1>2, <1>3 DEF SocketsAccounted, Holding, Undefined, CallInv, TypeOK, NetTypeOK
<1> QED
  BY <1>5, <1>6, <1>7, <1>8, <1>9, <1>10, <1>11, <1>12, <1>13

(* Copying from a pbuf that holds what comes next of the response.         *)
LEMMA CopyEffect ==
    ASSUME Inv, pc = "receiving", call # "none", totalRecv = Len(buf),
           NEW p \in Msgs, p.data # <<>>, Part(p.data, Len(buf) + Len(got), sent),
           Part(buf \o got, 0, sent), NEW events \in Int, Copy(p, events)
    PROVE  /\ got' \in Seq(Tokens) /\ room' \in Nat /\ lastdata' \in Msgs
           /\ lastdata' = NullMsg \/ lastdata'.data # <<>>
           /\ Len(got') + Len(lastdata'.data) = Len(got) + Len(p.data)
           /\ room' = BufSize - totalRecv - Len(got')
           /\ Part(buf \o got', 0, sent)
           /\ Part(lastdata'.data, Len(buf) + Len(got'), sent)
           /\ call' \in {"none", "recv"}
           /\ call' = "none" => ret' = Len(got') /\ (ret' = 0 => Len(buf) = BufSize)
           /\ call' = "recv" => events > 0 /\ lastdata' = NullMsg /\ ret' = ret
<1> USE HttpAssumption
<1>0. /\ buf \in Seq(Tokens) /\ got \in Seq(Tokens) /\ sent \in Seq(Tokens) /\ room \in Nat
      /\ p.data \in Seq(Tokens) /\ Len(p.data) \in Nat /\ Len(p.data) > 0
      /\ Len(got) \in Nat /\ Len(buf) \in Nat
      /\ room = BufSize - totalRecv - Len(got)
  BY DEF Inv, DataTypes, TypeOK, NetTypeOK, Msgs, ReceiveInv
<1>1. PICK n \in 0..Len(p.data) : n = IF room < Len(p.data) THEN room ELSE Len(p.data)
  <2>1. (IF room < Len(p.data) THEN room ELSE Len(p.data)) \in 0..Len(p.data)
    BY <1>0
  <2> QED
    BY <2>1
<1>1a. n \in Nat /\ n <= room /\ (n # room => n = Len(p.data)) /\ (n = 0 => room = 0)
  BY <1>0, <1>1
<1>2. PICK new \in Seq(Tokens) : /\ new = SubSeq(p.data, 1, n) /\ Len(new) = n
                                /\ Part(new, Len(buf) + Len(got), sent)
  <2>1. Len(buf) + Len(got) \in Nat
    BY <1>0
  <2>2. /\ SubSeq(p.data, 1, n) \in Seq(Tokens) /\ Len(SubSeq(p.data, 1, n)) = n
        /\ Part(SubSeq(p.data, 1, n), Len(buf) + Len(got), sent)
    BY <2>1, <1>0, PartOfPart
  <2> QED
    BY <2>2
<1>3. PICK rest \in Seq(Tokens) : /\ rest = SubSeq(p.data, n + 1, Len(p.data))
                                 /\ Len(rest) = Len(p.data) - n
                                 /\ Part(rest, Len(buf) + Len(got) + n, sent)
  <2>1. Len(buf) + Len(got) \in Nat
    BY <1>0
  <2>2. /\ SubSeq(p.data, n + 1, Len(p.data)) \in Seq(Tokens)
        /\ Len(SubSeq(p.data, n + 1, Len(p.data))) = Len(p.data) - n
        /\ Part(SubSeq(p.data, n + 1, Len(p.data)), Len(buf) + Len(got) + n, sent)
    BY <2>1, <1>0, PartOfPart
  <2> QED
    BY <2>2
<1>3a. /\ got' = got \o new /\ room' = room - n
       /\ lastdata' = IF rest = <<>> THEN NullMsg ELSE Pbuf(rest, p.push)
       /\ call' = IF room = n \/ p.push \/ events <= 0 THEN "none" ELSE "recv"
       /\ ret' = IF room = n \/ p.push \/ events <= 0 THEN Len(got \o new) ELSE ret
  BY <1>1, <1>2, <1>3 DEF Copy
<1>4. got' \in Seq(Tokens) /\ Len(got') = Len(got) + n
  <2>1. got' = got \o new /\ got \in Seq(Tokens) /\ new \in Seq(Tokens) /\ Len(new) = n
    BY <1>0, <1>2, <1>3a
  <2> QED
    BY <2>1, ConcatProperties
<1>5. Part(buf \o got', 0, sent)
  <2>1. buf \o got \in Seq(Tokens) /\ Len(buf \o got) = Len(buf) + Len(got)
    BY <1>0
  <2>2. Part((buf \o got) \o new, 0, sent)
    <3>1. 0 + Len(buf \o got) = Len(buf) + Len(got)
      BY <2>1, <1>0
    <3> QED
      BY <2>1, <3>1, <1>0, <1>2, PartsJoined
  <2>3. (buf \o got) \o new = buf \o (got \o new)
    <3>1. buf \in Seq(Tokens) /\ got \in Seq(Tokens) /\ new \in Seq(Tokens)
      BY <1>0
    <3> QED
      BY <3>1, ConcatInOrder
  <2> QED
    BY <2>2, <2>3, <1>3a
<1>6. /\ lastdata' \in Msgs /\ lastdata'.data = rest
      /\ lastdata' = NullMsg \/ lastdata'.data # <<>>
  <2>1. CASE rest = <<>>
    BY <2>1, <1>3a, Nulls
  <2>2. CASE rest # <<>>
    <3>1. lastdata' = Pbuf(rest, p.push) /\ p.push \in BOOLEAN
      BY <2>2, <1>3a DEF Msgs
    <3>2. lastdata' \in Msgs /\ lastdata'.data = rest
      BY <3>1 DEF Pbuf, Msgs
    <3> QED
      BY <2>2, <3>2
  <2> QED
    BY <2>1, <2>2
<1>7. Part(lastdata'.data, Len(buf) + Len(got'), sent)
  <2>1. Len(buf) + Len(got) + n = Len(buf) + Len(got')
    BY <1>0, <1>1a, <1>4
  <2> QED
    BY <2>1, <1>3, <1>6
<1>8. Len(got') + Len(lastdata'.data) = Len(got) + Len(p.data)
  <2>1. Len(lastdata'.data) = Len(p.data) - n
    BY <1>3, <1>6
  <2>2. Len(p.data) \in Nat /\ n \in Nat /\ Len(got) \in Nat /\ Len(got') = Len(got) + n
    BY <1>0, <1>1a, <1>4
  <2> QED
    BY <2>1, <2>2
<1>9. room' \in Nat /\ room' = BufSize - totalRecv - Len(got')
  BY <1>0, <1>1a, <1>3a, <1>4
<1>10. call' = "none" => ret' = Len(got') /\ (ret' = 0 => Len(buf) = BufSize)
  <2> SUFFICES ASSUME call' = "none" PROVE ret' = Len(got') /\ (ret' = 0 => Len(buf) = BufSize)
    OBVIOUS
  <2>1. ret' = Len(got')
    BY <1>3a
  <2>2. ASSUME ret' = 0 PROVE Len(buf) = BufSize
    <3>1. n = 0 /\ Len(got) = 0
      <4>1. Len(got) \in Nat /\ n \in Nat /\ Len(got) + n = 0
        BY <2>1, <2>2, <1>0, <1>1a, <1>4
      <4> QED
        BY <4>1
    <3> QED
      BY <3>1, <1>0, <1>1a
  <2> QED
    BY <2>1, <2>2
<1>11. call' = "recv" => events > 0 /\ lastdata' = NullMsg /\ ret' = ret
  <2> SUFFICES ASSUME call' = "recv" PROVE events > 0 /\ lastdata' = NullMsg /\ ret' = ret
    OBVIOUS
  <2>1. room # n /\ events > 0 /\ ret' = ret
    BY <1>3a
  <2>2. Len(rest) = 0
    BY <2>1, <1>0, <1>1a, <1>3
  <2>3. rest = <<>>
    BY <2>2, <1>3
  <2> QED
    BY <2>1, <2>3, <1>3a
<1>12. call' \in {"none", "recv"}
  BY <1>3a
<1> QED
  BY <1>4, <1>5, <1>6, <1>7, <1>8, <1>9, <1>10, <1>11, <1>12

(* The state of affairs inside lwip_recvfrom.                              *)
LEMMA InRecv ==
    ASSUME Inv, call \in {"recv", "fetch", "null", "shut"}
    PROVE  /\ pc = "receiving" /\ state = "NONE" /\ sem = 0 /\ ~closePend
           /\ pcb \notin {"closed", "synSent", "finWait", "lastAck", "freed"} /\ Live
           /\ Taken = buf \o got /\ Taken \in Seq(Tokens) /\ Len(Taken) = Len(buf) + Len(got)
           /\ buf \in Seq(Tokens) /\ got \in Seq(Tokens) /\ sent \in Seq(Tokens)
           /\ Len(buf) \in Nat /\ Len(got) \in Nat /\ totalRecv \in Int /\ rcvevent \in Int
           /\ totalRecv <= Len(buf) /\ Len(buf) <= BufSize
           /\ totalRecv # Len(buf) => Dead /\ got = <<>>
           /\ room = BufSize - totalRecv - Len(got)
           /\ totalRecv + Len(got) <= BufSize
<1>1. pc = "receiving"
  BY DEF Inv, CallInv
<1>2. state = "NONE"
  BY DEF Inv, OperationProtocol, OperationHasWaiter, TypeOK, NetTypeOK
<1>3. sem = 0
  BY DEF Inv, OperationProtocol, SignalledOnce, Waiting
<1>4. ~closePend /\ pcb \notin {"closed", "synSent", "finWait", "lastAck", "freed"}
  BY <1>1, <1>2 DEF Inv, PcbInv
<1>5. buf \in Seq(Tokens) /\ got \in Seq(Tokens) /\ sent \in Seq(Tokens)
      /\ totalRecv \in Int /\ rcvevent \in Int
  BY DEF Inv, DataTypes, TypeOK, NetTypeOK
<1>6. Taken = buf \o got
  BY <1>1 DEF Taken
<1>7. Taken \in Seq(Tokens) /\ Len(Taken) = Len(buf) + Len(got)
  BY <1>5, <1>6, ConcatProperties
<1>8. /\ totalRecv <= Len(buf) /\ Len(buf) <= BufSize
      /\ totalRecv # Len(buf) => Dead /\ got = <<>>
      /\ room = BufSize - totalRecv - Len(got)
      /\ totalRecv + Len(got) <= BufSize
  BY <1>1 DEF Inv, ReceiveInv
<1>9. Live
  BY <1>1, <1>4 DEF Live
<1>10. Len(buf) \in Nat /\ Len(got) \in Nat
  BY <1>5
<1> QED
  BY <1>1, <1>2, <1>3, <1>4, <1>5, <1>6, <1>7, <1>8, <1>9, <1>10

(* What the recv of an end or an error leaves: the data stays as it is.    *)
LEMMA RecvReturnsStep ==
    ASSUME Inv, UNCHANGED <<pc, appVars, history>>,
           call \in {"recv", "null", "shut"}, lastdata = NullMsg,
           NEW err \in Errors, RecvReturns(err, rcvevent),
           ~mboxValid \/ lastErr \in FatalErrors,
           err # "CLSD" => mboxValid /\ lastErr \in FatalErrors,
           err = "CLSD" => Complete,
           UNCHANGED <<room, got, todo, state, pcb, lastErr, msgErr, sem, mbox, mboxValid,
                       pollsLeft, coreVars, used, lastdata>>
    PROVE  Inv'
<1> USE NetconnAssumption, HttpAssumption DEF appVars, history, coreVars
<1>0. /\ pc = "receiving" /\ state = "NONE" /\ sem = 0 /\ ~closePend /\ got \in Seq(Tokens)
      /\ Len(got) \in Nat /\ rcvevent \in Int
      /\ totalRecv # Len(buf) => Dead /\ got = <<>>
      /\ totalRecv + Len(got) <= BufSize
  BY InRecv
<1>1. /\ call' = "none"
      /\ \/ ret' = Len(got) /\ got # <<>>
         \/ ret' = 0 /\ got = <<>> /\ err = "CLSD"
         \/ ret' = -1 /\ got = <<>> /\ err # "CLSD"
      /\ rcvevent' \in Int /\ ret' \in Int
  BY <1>0 DEF RecvReturns
<1> USE DEF Inv
<1>2. NetTypeOK'
  BY <1>1 DEF TypeOK, NetTypeOK
<1>3. TypeOK' /\ DataTypes'
  BY <1>2 DEF TypeOK, DataTypes
<1>4. OperationProtocol' /\ ReaderWoken'
  BY <1>0, <1>1 DEF OperationProtocol, SignalledOnce, Waiting, OperationHasWaiter,
         ReaderWoken, NeverWaitsHoldingData, FailureWakesReader
<1>5. CallInv' /\ PcbInv'
  BY <1>0, <1>1 DEF CallInv, PcbInv
<1>6. MboxInv' /\ MessageInv'
  BY <1>0, <1>1 DEF MboxInv, MessageInv
<1>7. Taken' = Taken
  BY DEF Taken
<1>8. FlowInv'
  BY <1>7, FlowKept DEF Live
<1>9. CompleteInv'
  <2>1. ret' = 0 => err = "CLSD"
    BY <1>0, <1>1
  <2> QED
    BY <2>1, <1>0, <1>1, <1>7 DEF CompleteInv, Complete
<1>10. ReceiveInv'
  <2>1. ret' = -1 => Dead'
    BY <1>0, <1>1 DEF Dead
  <2>2. Dead => Dead'
    BY <1>1 DEF Dead
  <2> QED
    BY <2>1, <2>2, <1>0, <1>1 DEF ReceiveInv
<1>11. HeapInv' /\ SocketsAccounted'
  BY <1>0, <1>1 DEF HeapInv, SocketsAccounted, Holding, Undefined
<1> QED
  BY <1>3, <1>4, <1>5, <1>6, <1>8, <1>9, <1>10, <1>11

(* After Copy: the rest of the invariant.                                  *)
LEMMA CopyStep ==
    ASSUME Inv, UNCHANGED <<pc, appVars, history>>, call \in {"recv", "fetch"},
           totalRecv = Len(buf), mboxValid,
           got' \in Seq(Tokens), room' \in Nat, lastdata' \in Msgs,
           lastdata' = NullMsg \/ lastdata'.data # <<>>,
           room' = BufSize - totalRecv - Len(got'),
           call' \in {"none", "recv"},
           call' = "none" => ret' = Len(got') /\ (ret' = 0 => Len(buf) = BufSize),
           call' = "recv" => rcvevent' > 0 /\ lastdata' = NullMsg /\ ret' = ret,
           mbox' \in Seq(Msgs), Len(mbox') <= MboxSize, rcvevent' \in Int,
           lastErr \notin FatalErrors => rcvevent' = Len(mbox'),
           FlowInv', MessageInv',
           UNCHANGED <<todo, state, pcb, lastErr, msgErr, sem, mboxValid, pollsLeft, coreVars, used>>
    PROVE  Inv'
<1> USE NetconnAssumption, HttpAssumption DEF appVars, history, coreVars
<1>0. /\ pc = "receiving" /\ state = "NONE" /\ sem = 0 /\ ~closePend
      /\ pcb \notin {"closed", "synSent", "finWait", "lastAck", "freed"}
      /\ Len(buf) \in Nat /\ Len(buf) <= BufSize
  BY InRecv
<1>1. Len(got') \in Nat
  OBVIOUS
<1> USE DEF Inv
<1>2. NetTypeOK'
  <2>1. ret' \in Int
    BY <1>1 DEF TypeOK, NetTypeOK
  <2> QED
    BY <2>1 DEF TypeOK, NetTypeOK
<1>3. TypeOK' /\ DataTypes'
  BY <1>2 DEF TypeOK, DataTypes
<1>4. OperationProtocol' /\ ReaderWoken'
  BY <1>0 DEF OperationProtocol, SignalledOnce, Waiting, OperationHasWaiter,
         ReaderWoken, NeverWaitsHoldingData, FailureWakesReader
<1>5. CallInv' /\ PcbInv'
  BY <1>0 DEF CallInv, PcbInv
<1>6. MboxInv'
  BY <1>0 DEF MboxInv
<1>7. CompleteInv'
  BY <1>0 DEF CompleteInv
<1>8. ReceiveInv'
  BY <1>0, <1>1 DEF ReceiveInv
<1>9. HeapInv' /\ SocketsAccounted'
  BY <1>0 DEF HeapInv, SocketsAccounted, Holding, Undefined
<1> QED
  BY <1>3, <1>4, <1>5, <1>6, <1>7, <1>8, <1>9

(* The top of the loop of lwip_recvfrom.                                   *)
LEMMA RecvTopStep ==
    ASSUME Inv, RecvTop, UNCHANGED <<pc, appVars, history>>
    PROVE  Inv'
<1>0. /\ call = "recv"
      /\ UNCHANGED <<todo, state, pcb, lastErr, msgErr, sem, mbox, mboxValid, pollsLeft,
                     coreVars, used>>
  BY DEF RecvTop
<1>1. /\ pc = "receiving" /\ Live /\ state = "NONE" /\ sem = 0 /\ ~closePend
      /\ Taken = buf \o got /\ Len(Taken) = Len(buf) + Len(got)
      /\ Len(buf) \in Nat /\ Len(got) \in Nat /\ rcvevent \in Int
      /\ totalRecv # Len(buf) => Dead
  BY <1>0, InRecv
<1>2. PICK cut \in [0..Len(mbox) -> Nat] : Cuts(cut)
  BY <1>1 DEF Inv, FlowInv
<1>3. CASE lastdata # NullMsg
  <2>1. Copy(lastdata, rcvevent) /\ rcvevent' = rcvevent
    BY <1>3 DEF RecvTop
  <2>2. totalRecv = Len(buf)
    BY <1>1, <1>3 DEF Dead
  <2>3. mboxValid
    BY <1>1, <1>3 DEF Inv, CompleteInv, Complete
  <2>4. /\ Part(lastdata.data, Len(buf) + Len(got), sent) /\ Part(buf \o got, 0, sent)
        /\ cut[0] = Len(buf) + Len(got) + Len(lastdata.data)
    BY <1>1, <1>2 DEF Cuts
  <2>5. lastdata \in Msgs /\ lastdata.data # <<>>
    BY <1>3 DEF Inv, DataTypes, MessageInv
  <2>6. /\ got' \in Seq(Tokens) /\ room' \in Nat /\ lastdata' \in Msgs
        /\ lastdata' = NullMsg \/ lastdata'.data # <<>>
        /\ Len(got') + Len(lastdata'.data) = Len(got) + Len(lastdata.data)
        /\ room' = BufSize - totalRecv - Len(got')
        /\ Part(buf \o got', 0, sent)
        /\ Part(lastdata'.data, Len(buf) + Len(got'), sent)
        /\ call' \in {"none", "recv"}
        /\ call' = "none" => ret' = Len(got') /\ (ret' = 0 => Len(buf) = BufSize)
        /\ call' = "recv" => rcvevent > 0 /\ lastdata' = NullMsg /\ ret' = ret
    BY <1>0, <1>1, <2>1, <2>2, <2>4, <2>5, CopyEffect
  <2>7. FlowInv'
    <3>1. Taken' = buf \o got' /\ Len(Taken') = Len(buf) + Len(got')
      <4>1. Taken' = buf \o got'
        BY <1>1 DEF Taken, appVars
      <4>2. buf \in Seq(Tokens)
        BY DEF Inv, DataTypes
      <4> QED
        BY <4>1, <4>2, <2>6, ConcatProperties
    <3>2. cut[0] = Len(Taken') + Len(lastdata'.data)
      <4>1. Len(lastdata'.data) \in Nat /\ Len(lastdata.data) \in Nat /\ Len(got') \in Nat
        BY <2>5, <2>6 DEF Msgs
      <4>2. Len(got') + Len(lastdata'.data) = Len(got) + Len(lastdata.data)
        BY <2>6
      <4>3. Len(buf) + Len(got') + Len(lastdata'.data) = Len(buf) + Len(got) + Len(lastdata.data)
        <5>1. Len(buf) \in Nat /\ Len(got) \in Nat
          BY <1>1
        <5>2. PICK b \in Nat, c \in Nat : b = Len(got') /\ c = Len(lastdata'.data)
          BY <4>1
        <5>3. PICK a \in Nat, d \in Nat, e \in Nat : a = Len(buf) /\ d = Len(got) /\ e = Len(lastdata.data)
          BY <4>1, <5>1
        <5>4. b + c = d + e
          BY <4>2, <5>2, <5>3
        <5>5. a + b + c = a + d + e
          BY <5>4
        <5> QED
          BY <5>2, <5>3, <5>5
      <4> QED
        BY <4>3, <3>1, <2>4
    <3>3. Cuts(cut)'
      BY <1>0, <1>2, <2>6, <3>1, <3>2 DEF Cuts, coreVars, appVars
    <3> QED
      BY <1>0, <3>3 DEF FlowInv
  <2>8. MessageInv'
    BY <1>0, <2>6 DEF Inv, MessageInv, coreVars
  <2>9. /\ mbox' \in Seq(Msgs) /\ Len(mbox') <= MboxSize /\ rcvevent' \in Int
        /\ lastErr \notin FatalErrors => rcvevent' = Len(mbox')
    BY <1>0, <1>1, <2>1, <2>3 DEF Inv, DataTypes, TypeOK, NetTypeOK, MboxInv
  <2> QED
    BY <1>0, <2>1, <2>2, <2>3, <2>6, <2>7, <2>8, <2>9, CopyStep
<1>4. CASE lastdata = NullMsg
  <2>0. UNCHANGED <<room, got, lastdata>>
    BY <1>4 DEF RecvTop
  <2>1. CASE ~mboxValid
    <3>1. RecvReturns("CLSD", rcvevent)
      BY <1>4, <2>1 DEF RecvTop
    <3>2. Complete /\ "CLSD" \in Errors
      BY <1>1, <2>1 DEF Inv, CompleteInv, Errors, FatalErrors
    <3> QED
      BY <1>0, <1>4, <2>0, <2>1, <3>1, <3>2, RecvReturnsStep
  <2>2. CASE mboxValid /\ lastErr \in FatalErrors
    <3>1. RecvReturns(lastErr, rcvevent)
      BY <1>4, <2>2 DEF RecvTop
    <3>2. lastErr \in Errors /\ lastErr # "CLSD"
      BY DEF Inv, TypeOK, NetTypeOK, DataTypes
    <3> QED
      BY <1>0, <1>4, <2>0, <2>2, <3>1, <3>2, RecvReturnsStep
  <2>3. CASE mboxValid /\ lastErr \notin FatalErrors
    <3>1. call' = "fetch" /\ UNCHANGED <<ret, rcvevent>>
      BY <1>4, <2>3 DEF RecvTop
    <3>2. rcvevent = Len(mbox) /\ pcb # "null"
      BY <2>3 DEF Inv, MboxInv
    <3>3. totalRecv = Len(buf)
      BY <1>1, <2>3 DEF Dead
    <3> USE <1>0, <1>1, <1>4, <2>0, <2>3, <3>1, <3>2, <3>3 DEF Inv, appVars, history, coreVars
    <3>4. NetTypeOK'
      BY DEF TypeOK, NetTypeOK
    <3>5. TypeOK' /\ DataTypes'
      BY <3>4 DEF TypeOK, DataTypes
    <3>6. OperationProtocol'
      BY DEF OperationProtocol, SignalledOnce, Waiting, OperationHasWaiter
    <3>7. ReaderWoken'
      BY DEF ReaderWoken, NeverWaitsHoldingData, FailureWakesReader, MboxInv
    <3>8. CallInv' /\ PcbInv' /\ MboxInv'
      BY DEF CallInv, PcbInv, MboxInv
    <3>9. MessageInv'
      BY DEF MessageInv
    <3>10. FlowInv'
      BY FlowKept DEF Live, Taken
    <3>11. CompleteInv' /\ ReceiveInv'
      BY DEF CompleteInv, ReceiveInv
    <3>12. HeapInv' /\ SocketsAccounted'
      BY DEF HeapInv, SocketsAccounted, Holding, Undefined
    <3> QED
      BY <3>5, <3>6, <3>7, <3>8, <3>9, <3>10, <3>11, <3>12
  <2> QED
    BY <2>1, <2>2, <2>3
<1> QED
  BY <1>3, <1>4

(* The first message leaves the mailbox: the cuts of the others.           *)
LEMMA FetchedCuts ==
    ASSUME Inv, mbox # <<>>, mbox' = Tail(mbox), NEW cut \in [0..Len(mbox) -> Nat], Cuts(cut),
           UNCHANGED <<pcb, coreVars, sent>>,
           cut[1] = Len(Taken') + Len(lastdata'.data),
           Part(Taken', 0, sent), Part(lastdata'.data, Len(Taken'), sent)
    PROVE  FlowInv'
<1>1. /\ mbox \in Seq(Msgs) /\ Len(mbox) \in Nat /\ Len(mbox) >= 1
      /\ Len(mbox') = Len(mbox) - 1
      /\ \A i \in 1..Len(mbox') : mbox'[i] = mbox[i + 1]
  BY DEF Inv, DataTypes
<1>2. PICK c \in [0..Len(mbox') -> Nat] : \A i \in 0..Len(mbox') : c[i] = cut[i + 1]
  <2> DEFINE d == [i \in 0..Len(mbox') |-> cut[i + 1]]
  <2>1. d \in [0..Len(mbox') -> Nat] /\ \A i \in 0..Len(mbox') : d[i] = cut[i + 1]
    BY <1>1
  <2> QED
    BY <2>1
<1>3. c[0] = cut[1] /\ c[Len(mbox')] = cut[Len(mbox)]
  BY <1>1, <1>2
<1>4. ASSUME NEW i \in 1..Len(mbox')
      PROVE  /\ c[i] = c[i - 1] + Len(mbox'[i].data)
             /\ Part(mbox'[i].data, c[i - 1], sent)
  <2>1. i + 1 \in 1..Len(mbox) /\ i - 1 \in 0..Len(mbox') /\ i \in 0..Len(mbox')
        /\ (i + 1) - 1 = i /\ (i - 1) + 1 = i
    BY <1>1
  <2>2. /\ cut[i + 1] = cut[(i + 1) - 1] + Len(mbox[i + 1].data)
        /\ Part(mbox[i + 1].data, cut[(i + 1) - 1], sent)
    BY <2>1 DEF Cuts
  <2>3. c[i] = cut[i + 1] /\ c[i - 1] = cut[i] /\ mbox'[i] = mbox[i + 1]
    BY <2>1, <1>1, <1>2
  <2> QED
    BY <2>1, <2>2, <2>3
<1>5. pcb # "null" => /\ Part(refused.data, cut[Len(mbox)], sent)
                      /\ Part(stream, cut[Len(mbox)] + Len(refused.data), sent)
                      /\ cut[Len(mbox)] + Len(refused.data) + Len(stream) = Len(sent)
  BY DEF Cuts
<1>6. refused' = refused /\ stream' = stream /\ sent' = sent /\ pcb' = pcb
  BY DEF coreVars
<1>7. pcb' # "null" => /\ Part(refused'.data, c[Len(mbox')], sent')
                       /\ Part(stream', c[Len(mbox')] + Len(refused'.data), sent')
                       /\ c[Len(mbox')] + Len(refused'.data) + Len(stream') = Len(sent')
  BY <1>3, <1>5, <1>6
<1>8. \A i \in 1..Len(mbox') : /\ c[i] = c[i - 1] + Len(mbox'[i].data)
                              /\ Part(mbox'[i].data, c[i - 1], sent')
  BY <1>4, <1>6
<1>9. /\ Part(Taken', 0, sent') /\ Part(lastdata'.data, Len(Taken'), sent')
      /\ c[0] = Len(Taken') + Len(lastdata'.data)
  BY <1>3, <1>6
<1> QED
  BY <1>7, <1>8, <1>9, FlowMade

(* sys_arch_mbox_fetch returns a message to lwip_recvfrom.                 *)
LEMMA RecvFetchStep ==
    ASSUME Inv, RecvFetch, UNCHANGED <<pc, appVars, history>>
    PROVE  Inv'
<1>0. /\ call = "fetch" /\ mbox # <<>> /\ mbox' = Tail(mbox) /\ rcvevent' = rcvevent - 1
      /\ UNCHANGED <<todo, state, pcb, lastErr, msgErr, sem, mboxValid, pollsLeft, coreVars, used>>
  BY DEF RecvFetch, RcvMinus
<1>1. /\ pc = "receiving" /\ Live /\ state = "NONE" /\ sem = 0 /\ ~closePend
      /\ pcb \notin {"closed", "synSent", "finWait", "lastAck", "freed"}
      /\ Taken = buf \o got /\ Len(Taken) = Len(buf) + Len(got)
      /\ Len(buf) \in Nat /\ Len(got) \in Nat /\ rcvevent \in Int
      /\ totalRecv # Len(buf) => Dead
      /\ buf \in Seq(Tokens) /\ got \in Seq(Tokens)
  BY <1>0, InRecv
<1>2. PICK cut \in [0..Len(mbox) -> Nat] : Cuts(cut)
  BY <1>1 DEF Inv, FlowInv
<1>3. totalRecv = Len(buf) /\ mboxValid /\ lastdata = NullMsg
  BY <1>0, <1>1 DEF Dead, Inv, MboxInv
<1>4. /\ mbox \in Seq(Msgs) /\ Len(mbox) \in Nat /\ Len(mbox) >= 1 /\ mbox[1] \in Msgs
      /\ Head(mbox) = mbox[1] /\ 1 \in 1..Len(mbox)
      /\ mbox' \in Seq(Msgs) /\ Len(mbox') = Len(mbox) - 1
      /\ \A i \in 1..Len(mbox') : i + 1 \in 1..Len(mbox) /\ mbox'[i] = mbox[i + 1]
  BY <1>0 DEF Inv, DataTypes
<1>5. /\ Part(Taken, 0, sent) /\ cut[0] = Len(Taken) /\ cut[0] \in Nat
      /\ cut[1] = cut[0] + Len(mbox[1].data) /\ Part(mbox[1].data, cut[0], sent)
  <2>1. Len(lastdata.data) = 0
    BY <1>3, Nulls
  <2>2. /\ Part(Taken, 0, sent) /\ cut[0] = Len(Taken) + Len(lastdata.data)
        /\ cut[1] = cut[1 - 1] + Len(mbox[1].data) /\ Part(mbox[1].data, cut[1 - 1], sent)
    BY <1>2, <1>4 DEF Cuts
  <2>3. Len(Taken) \in Nat
    <3>1. Len(buf) \in Nat /\ Len(got) \in Nat /\ Len(Taken) = Len(buf) + Len(got)
      BY <1>1
    <3> QED
      BY <3>1
  <2>4. cut[0] = Len(Taken) /\ 1 - 1 = 0
    BY <2>1, <2>2, <2>3
  <2> QED
    BY <2>2, <2>3, <2>4
<1>6. /\ Len(mbox') <= MboxSize /\ rcvevent' \in Int
      /\ lastErr \notin FatalErrors => rcvevent' = Len(mbox')
  <2>1. Len(mbox) <= MboxSize /\ (lastErr \notin FatalErrors => rcvevent = Len(mbox))
    BY <1>3 DEF Inv, TypeOK, NetTypeOK, MboxInv
  <2>2. Len(mbox) \in Nat /\ Len(mbox') = Len(mbox) - 1 /\ rcvevent \in Int /\ rcvevent' = rcvevent - 1
    BY <1>0, <1>1, <1>4
  <2> QED
    BY <2>1, <2>2, NetconnAssumption
<1>7. /\ \A i \in 1..Len(mbox') : mbox'[i] = NullMsg \/ mbox'[i].data # <<>>
      /\ pcb # "null" => \A i \in 1..Len(mbox') : mbox'[i] = NullMsg =>
            /\ i = Len(mbox') /\ refused = NoRefused /\ stream = <<>>
            /\ pcb \notin {"synSent", "established"}
  <2>1. ASSUME NEW i \in 1..Len(mbox')
        PROVE  /\ i + 1 \in 1..Len(mbox) /\ mbox'[i] = mbox[i + 1]
               /\ i + 1 = Len(mbox) => i = Len(mbox')
    <3>1. i \in Int /\ Len(mbox) \in Nat /\ Len(mbox') = Len(mbox) - 1
      BY <1>4
    <3> QED
      BY <3>1, <1>4
  <2>2. \A k \in 1..Len(mbox) : mbox[k] = NullMsg \/ mbox[k].data # <<>>
    BY DEF Inv, MessageInv
  <2>3. pcb # "null" => \A k \in 1..Len(mbox) : mbox[k] = NullMsg =>
            /\ k = Len(mbox) /\ refused = NoRefused /\ stream = <<>>
            /\ pcb \notin {"synSent", "established"}
    BY DEF Inv, MessageInv
  <2>4. \A i \in 1..Len(mbox') : mbox'[i] = NullMsg \/ mbox'[i].data # <<>>
    BY <2>1, <2>2
  <2> QED
    BY <2>1, <2>3, <2>4
<1>8. CASE Head(mbox) = NullMsg
  <2>1. call' = "null" /\ UNCHANGED <<ret, room, got, lastdata>>
    BY <1>8 DEF RecvFetch
  <2>2. Taken' = Taken /\ sent' = sent
    BY <2>1 DEF Taken, appVars
  <2>3. cut[1] = Len(Taken)
    <3>1. Len(mbox[1].data) = 0
      BY <1>4, <1>8, Nulls
    <3>2. cut[0] = Len(Taken) /\ cut[0] \in Nat /\ cut[1] = cut[0] + Len(mbox[1].data)
      BY <1>5
    <3> QED
      BY <3>1, <3>2
  <2>4. pcb # "null" => /\ Len(Taken) = Len(sent) /\ stream = <<>> /\ refused = NoRefused
                        /\ pcb \notin {"synSent", "established"}
    <3> SUFFICES ASSUME pcb # "null"
                 PROVE  /\ Len(Taken) = Len(sent) /\ stream = <<>> /\ refused = NoRefused
                        /\ pcb \notin {"synSent", "established"}
      OBVIOUS
    <3>1. /\ Len(mbox) = 1 /\ refused = NoRefused /\ stream = <<>>
          /\ pcb \notin {"synSent", "established"}
      BY <1>4, <1>8 DEF Inv, MessageInv
    <3>2. cut[Len(mbox)] + Len(refused.data) + Len(stream) = Len(sent)
      BY <1>2 DEF Cuts
    <3>3. Len(refused.data) = 0 /\ Len(stream) = 0
      BY <3>1, Nulls
    <3> QED
      BY <3>1, <3>2, <3>3, <2>3, <1>1
  <2>5. FlowInv'
    <3>1. /\ cut[1] = Len(Taken') + Len(lastdata'.data)
          /\ Part(Taken', 0, sent) /\ Part(lastdata'.data, Len(Taken'), sent)
      <4>1. lastdata'.data = <<>> /\ Len(lastdata'.data) = 0
        BY <2>1, <1>3, Nulls
      <4>2. Part(<<>>, Len(Taken), sent)
        BY <1>5, <1>1 DEF Part
      <4> QED
        BY <4>1, <4>2, <2>2, <2>3, <1>1, <1>5
    <3> QED
      BY <1>0, <1>2, <2>2, <3>1, FetchedCuts
  <2> USE <1>0, <1>1, <1>3, <2>1 DEF Inv, appVars, history, coreVars
  <2>6. NetTypeOK'
    BY <1>6 DEF TypeOK, NetTypeOK
  <2>7. TypeOK' /\ DataTypes'
    BY <2>6, <1>4 DEF TypeOK, DataTypes
  <2>8. OperationProtocol' /\ ReaderWoken'
    BY DEF OperationProtocol, SignalledOnce, Waiting, OperationHasWaiter,
           ReaderWoken, NeverWaitsHoldingData, FailureWakesReader
  <2>9. CallInv' /\ PcbInv'
    BY DEF CallInv, PcbInv
  <2>10. MboxInv'
    BY <1>6 DEF MboxInv
  <2>11. MessageInv'
    BY <1>7, <2>4 DEF MessageInv
  <2>12. CompleteInv'
    BY <2>2, <2>4 DEF CompleteInv, Complete
  <2>13. ReceiveInv' /\ HeapInv' /\ SocketsAccounted'
    BY DEF ReceiveInv, HeapInv, SocketsAccounted, Holding, Undefined
  <2> QED
    BY <2>5, <2>7, <2>8, <2>9, <2>10, <2>11, <2>12, <2>13
<1>9. CASE Head(mbox) # NullMsg
  <2>1. Copy(mbox[1], rcvevent')
    BY <1>4, <1>9 DEF RecvFetch
  <2>2. mbox[1].data # <<>> /\ Len(mbox[1].data) \in Nat
    BY <1>4, <1>9 DEF Inv, MessageInv, Msgs
  <2>3. Part(mbox[1].data, Len(buf) + Len(got), sent) /\ Part(buf \o got, 0, sent)
    BY <1>1, <1>5
  <2>4. /\ got' \in Seq(Tokens) /\ room' \in Nat /\ lastdata' \in Msgs
        /\ lastdata' = NullMsg \/ lastdata'.data # <<>>
        /\ Len(got') + Len(lastdata'.data) = Len(got) + Len(mbox[1].data)
        /\ room' = BufSize - totalRecv - Len(got')
        /\ Part(buf \o got', 0, sent)
        /\ Part(lastdata'.data, Len(buf) + Len(got'), sent)
        /\ call' \in {"none", "recv"}
        /\ call' = "none" => ret' = Len(got') /\ (ret' = 0 => Len(buf) = BufSize)
        /\ call' = "recv" => rcvevent' > 0 /\ lastdata' = NullMsg /\ ret' = ret
    <3>1. PICK events \in Int : events = rcvevent'
      BY <1>6
    <3>2. Copy(mbox[1], events)
      BY <2>1, <3>1
    <3> QED
      BY <3>1, <3>2, <1>0, <1>1, <1>3, <1>4, <2>2, <2>3, CopyEffect
  <2>5. Taken' = buf \o got' /\ Len(Taken') = Len(buf) + Len(got') /\ sent' = sent
    <3>1. Taken' = buf \o got' /\ sent' = sent
      BY <1>1 DEF Taken, appVars
    <3> QED
      BY <3>1, <1>1, <2>4, ConcatProperties
  <2>6. FlowInv'
    <3>1. cut[1] = Len(Taken') + Len(lastdata'.data)
      <4>1. Len(lastdata'.data) \in Nat /\ Len(got') \in Nat
        BY <2>4 DEF Msgs
      <4>2. Len(got') + Len(lastdata'.data) = Len(got) + Len(mbox[1].data)
        BY <2>4
      <4>3. Len(buf) + Len(got') + Len(lastdata'.data) = Len(buf) + Len(got) + Len(mbox[1].data)
        <5>1. Len(buf) \in Nat /\ Len(got) \in Nat /\ Len(mbox[1].data) \in Nat
          BY <1>1, <2>2
        <5>2. PICK b \in Nat, c \in Nat : b = Len(got') /\ c = Len(lastdata'.data)
          BY <4>1
        <5>3. PICK a \in Nat, d \in Nat, e \in Nat : a = Len(buf) /\ d = Len(got) /\ e = Len(mbox[1].data)
          BY <4>1, <5>1
        <5>4. b + c = d + e
          BY <4>2, <5>2, <5>3
        <5>5. a + b + c = a + d + e
          BY <5>4
        <5> QED
          BY <5>2, <5>3, <5>5
      <4> QED
        BY <4>3, <2>5, <1>1, <1>5
    <3>2. Part(Taken', 0, sent) /\ Part(lastdata'.data, Len(Taken'), sent)
      BY <2>4, <2>5
    <3> QED
      BY <1>0, <1>2, <2>5, <3>1, <3>2, FetchedCuts
  <2>7. MessageInv'
    BY <1>0, <1>7, <2>4 DEF Inv, MessageInv, coreVars
  <2> QED
    BY <1>0, <1>3, <1>4, <1>6, <2>4, <2>6, <2>7, CopyStep
<1> QED
  BY <1>8, <1>9

(* lwip_recvfrom has the NULL message.                                     *)
LEMMA RecvNullStep ==
    ASSUME Inv, RecvNull, UNCHANGED <<pc, appVars, history>>
    PROVE  Inv'
<1> USE NetconnAssumption, HttpAssumption
<1>0. /\ call = "null"
      /\ UNCHANGED <<room, got, todo, state, pcb, lastErr, msgErr, sem, mbox, mboxValid,
                     pollsLeft, coreVars, used, lastdata>>
  BY DEF RecvNull
<1>1. mboxValid /\ lastdata = NullMsg
  BY <1>0 DEF Inv, MboxInv
<1>2. CASE pcb = "null"
  <2>1. lastErr \in FatalErrors /\ lastErr \in Errors /\ lastErr # "CLSD" /\ lastErr # "OK"
    BY <1>1, <1>2 DEF Inv, MboxInv, FatalErrors, Errors, DataTypes
  <2>2. RecvReturns(lastErr, rcvevent)
    BY <1>2, <2>1 DEF RecvNull
  <2> QED
    BY <1>0, <1>1, <2>1, <2>2, RecvReturnsStep
<1>3. CASE pcb # "null"
  <2>1. call' = "shut" /\ UNCHANGED <<ret, rcvevent>>
    BY <1>3 DEF RecvNull
  <2>2. pc = "receiving" /\ state = "NONE" /\ sem = 0
    BY <1>0, InRecv
  <2>3. Complete
    BY <1>0, <1>3 DEF Inv, CompleteInv
  <2> USE <1>0, <1>1, <1>3, <2>1, <2>2 DEF Inv, appVars, history, coreVars
  <2>4. NetTypeOK'
    BY DEF TypeOK, NetTypeOK
  <2>5. TypeOK' /\ DataTypes'
    BY <2>4 DEF TypeOK, DataTypes
  <2>6. OperationProtocol' /\ ReaderWoken'
    BY DEF OperationProtocol, SignalledOnce, Waiting, OperationHasWaiter,
           ReaderWoken, NeverWaitsHoldingData, FailureWakesReader
  <2>7. CallInv' /\ PcbInv' /\ MboxInv' /\ MessageInv'
    BY DEF CallInv, PcbInv, MboxInv, MessageInv
  <2>8. Taken' = Taken
    BY DEF Taken
  <2>9. FlowInv'
    BY <2>8, FlowKept DEF Live
  <2>10. CompleteInv'
    BY <2>3, <2>8 DEF CompleteInv, Complete
  <2>11. ReceiveInv' /\ HeapInv' /\ SocketsAccounted'
    BY DEF ReceiveInv, Dead, HeapInv, SocketsAccounted, Holding, Undefined
  <2> QED
    BY <2>5, <2>6, <2>7, <2>9, <2>10, <2>11
<1> QED
  BY <1>2, <1>3

(* lwip_recvfrom shuts the receiving side down.                            *)
LEMMA RecvShutStep ==
    ASSUME Inv, RecvShut, UNCHANGED <<pc, appVars, history>>
    PROVE  Inv'
<1> USE NetconnAssumption, HttpAssumption
<1>0. /\ call = "shut"
      /\ UNCHANGED <<room, got, todo, state, pcb, lastErr, msgErr, sem, pollsLeft,
                     unacked, closePend, stream, used, lastdata>>
  BY DEF RecvShut
<1>1. mboxValid /\ lastdata = NullMsg /\ Complete
  BY <1>0 DEF Inv, MboxInv, CompleteInv
<1>2. CASE pcb = "null"
  <2>1. RecvReturns("CLSD", rcvevent) /\ UNCHANGED <<mbox, mboxValid, refused>>
    BY <1>2 DEF RecvShut
  <2>2. lastErr \in FatalErrors /\ "CLSD" \in Errors
    BY <1>1, <1>2 DEF Inv, MboxInv, FatalErrors, Errors
  <2> QED
    BY <1>0, <1>1, <2>1, <2>2, RecvReturnsStep DEF coreVars
<1>3. CASE pcb # "null"
  <2>1. /\ mbox' = <<>> /\ mboxValid' = FALSE /\ refused' = NoRefused
        /\ RecvReturns("CLSD", rcvevent + 1)
    BY <1>3 DEF RecvShut
  <2>2. /\ pc = "receiving" /\ state = "NONE" /\ sem = 0 /\ ~closePend /\ Live
        /\ got \in Seq(Tokens) /\ Len(got) \in Nat /\ rcvevent \in Int
        /\ Taken \in Seq(Tokens) /\ sent \in Seq(Tokens)
        /\ totalRecv = Len(buf)
    BY <1>0, InRecv DEF Dead
  <2>3. /\ call' = "none" /\ rcvevent' \in Int /\ ret' \in Int
        /\ \/ ret' = Len(got) /\ got # <<>>
           \/ ret' = 0 /\ got = <<>>
    BY <2>1, <2>2 DEF RecvReturns
  <2>4. stream = <<>> /\ refused = NoRefused /\ Part(Taken, 0, sent)
    BY <1>0, <1>3, <2>2 DEF Inv, MessageInv, FlowInv, Cuts
  <2>5. Taken' = Taken
    BY <1>0 DEF Taken, appVars
  <2>6. FlowInv'
    <3>0. Len(mbox') = 0 /\ Len(sent) \in Nat
      BY <2>1, <2>2
    <3>1. PICK c \in [0..Len(mbox') -> Nat] : c[0] = Len(sent)
      <4> DEFINE d == [i \in 0..Len(mbox') |-> Len(sent)]
      <4>1. d \in [0..Len(mbox') -> Nat] /\ d[0] = Len(sent)
        BY <3>0
      <4> QED
        BY <4>1
    <3>2. Len(Taken) = Len(sent) /\ lastdata'.data = <<>> /\ refused'.data = <<>> /\ stream' = <<>>
      BY <1>0, <1>1, <2>1, <2>4, Nulls DEF Complete
    <3>3. Part(<<>>, Len(sent), sent) /\ Len(<<>>) = 0 /\ Len(sent) + 0 = Len(sent)
      BY <2>2 DEF Part
    <3>4. sent' = sent
      BY DEF appVars
    <3>5. /\ Part(Taken', 0, sent') /\ Part(lastdata'.data, Len(Taken'), sent')
          /\ c[0] = Len(Taken') + Len(lastdata'.data)
      BY <3>0, <3>1, <3>2, <3>3, <3>4, <2>4, <2>5
    <3>6. /\ Part(refused'.data, c[Len(mbox')], sent')
          /\ Part(stream', c[Len(mbox')] + Len(refused'.data), sent')
          /\ c[Len(mbox')] + Len(refused'.data) + Len(stream') = Len(sent')
      BY <3>0, <3>1, <3>2, <3>3, <3>4
    <3>7. 1..Len(mbox') = {}
      BY <3>0
    <3> QED
      BY <3>5, <3>6, <3>7, FlowMade
  <2> USE <1>0, <1>1, <1>3, <2>1, <2>2, <2>3 DEF Inv, appVars, history
  <2>7. NetTypeOK'
    <3>1. Len(mbox') <= MboxSize
      OBVIOUS
    <3>2. mboxValid' \in BOOLEAN
      OBVIOUS
    <3> QED
      BY <3>1, <3>2 DEF TypeOK, NetTypeOK
  <2>8. TypeOK' /\ DataTypes'
    BY <2>7, Nulls DEF TypeOK, DataTypes
  <2>9. OperationProtocol' /\ ReaderWoken'
    BY DEF OperationProtocol, SignalledOnce, Waiting, OperationHasWaiter,
           ReaderWoken, NeverWaitsHoldingData, FailureWakesReader
  <2>10. CallInv' /\ PcbInv'
    BY DEF CallInv, PcbInv
  <2>11. MboxInv' /\ MessageInv'
    BY <2>4 DEF MboxInv, MessageInv
  <2>12. CompleteInv'
    BY <2>5 DEF CompleteInv, Complete
  <2>13. ReceiveInv'
    BY DEF ReceiveInv
  <2>14. HeapInv' /\ SocketsAccounted'
    BY DEF HeapInv, SocketsAccounted, Holding, Undefined
  <2> QED
    BY <2>6, <2>8, <2>9, <2>10, <2>11, <2>12, <2>13, <2>14
<1> QED
  BY <1>2, <1>3

-----------------------------------------------------------------------------
(* The lwIP thread.  What its steps keep of the task.                      *)
LEMMA StackKept ==
    ASSUME Inv,
           UNCHANGED <<pc, appVars, history, call, ret, room, got, used, lastdata, mboxValid>>,
           lastErr \in FatalErrors => lastErr' \in FatalErrors,
           pcb' # "null" => pcb # "null"
    PROVE  /\ CallInv' /\ HeapInv' /\ SocketsAccounted' /\ ReceiveInv' /\ CompleteInv'
           /\ Taken' = Taken
<1> USE DEF Inv, appVars, history
<1>1. CallInv' /\ HeapInv' /\ SocketsAccounted'
  BY DEF CallInv, HeapInv, SocketsAccounted, Holding
<1>2. Taken' = Taken
  BY DEF Taken
<1>3. Dead => Dead'
  BY DEF Dead
<1>4. ReceiveInv'
  BY <1>3 DEF ReceiveInv
<1>5. CompleteInv'
  BY <1>2 DEF CompleteInv, Complete
<1> QED
  BY <1>1, <1>2, <1>4, <1>5

(* The SYN was answered.                                                   *)
LEMMA DoConnectedStep ==
    ASSUME Inv, lwip_netconn_do_connected, UNCHANGED <<pc, appVars, history>>
    PROVE  Inv'
<1>0. /\ pcb = "synSent" /\ state = "CONNECT" /\ pcb' = "established" /\ state' = "NONE"
      /\ msgErr' = "OK" /\ sem' = sem + 1 /\ lastErr' = SafeErr(lastErr, "OK")
      /\ UNCHANGED <<callVars, mbox, mboxValid, rcvevent, pollsLeft, coreVars, used, lastdata>>
  BY DEF lwip_netconn_do_connected
<1>1. call = "connect" /\ pc = "connecting" /\ sem = 0
  BY <1>0 DEF Inv, OperationProtocol, OperationHasWaiter, CallInv, SignalledOnce
<1>2. /\ lastErr' \in Errors /\ lastErr' # "CLSD"
      /\ lastErr' \in FatalErrors <=> lastErr \in FatalErrors
  BY <1>0 DEF Inv, TypeOK, NetTypeOK, DataTypes, SafeErr, Errors, FatalErrors
<1>3. /\ CallInv' /\ HeapInv' /\ SocketsAccounted' /\ ReceiveInv' /\ CompleteInv'
      /\ Taken' = Taken
  BY <1>0, <1>2, StackKept DEF callVars
<1> USE <1>0, <1>1, <1>2 DEF Inv, appVars, history, callVars, coreVars
<1>4. NetTypeOK'
  <2>1. pcb' \in {"null", "closed", "freed"} \union Active /\ msgErr' \in Errors
    BY DEF Active, Errors
  <2> QED
    BY <2>1 DEF TypeOK, NetTypeOK
<1>5. TypeOK' /\ DataTypes'
  BY <1>4 DEF TypeOK, DataTypes
<1>6. OperationProtocol' /\ ReaderWoken'
  BY DEF OperationProtocol, SignalledOnce, Waiting, OperationHasWaiter,
         ReaderWoken, NeverWaitsHoldingData, FailureWakesReader
<1>7. PcbInv' /\ MboxInv'
  BY DEF PcbInv, MboxInv
<1>8. MessageInv'
  BY DEF MessageInv, PcbInv
<1>9. FlowInv'
  BY <1>3, FlowKept DEF Live
<1> QED
  BY <1>3, <1>5, <1>6, <1>7, <1>8, <1>9

(* A write goes on in a callback.                                          *)
LEMMA WriteCallback ==
    ASSUME Inv, state = "WRITE", NEW waits \in BOOLEAN, WriteStep(todo, TRUE, waits),
           UNCHANGED <<pc, appVars, history>>
    PROVE  Inv'
<1>0. todo \in Nat /\ TRUE \in BOOLEAN
  BY DEF Inv, TypeOK, NetTypeOK
<1>1. /\ todo' \in Nat /\ unacked' \in BOOLEAN
      /\ state' \in {"NONE", "WRITE"} /\ msgErr' \in Errors
      /\ lastErr' \in Errors /\ lastErr' # "CLSD"
      /\ lastErr' \in FatalErrors <=> lastErr \in FatalErrors
      /\ sem' = IF state' = "NONE" THEN sem + 1 ELSE sem
      /\ UNCHANGED <<call, ret, room, got, pcb, mbox, mboxValid, rcvevent, pollsLeft,
                     refused, closePend, stream, used, lastdata>>
  BY <1>0, WriteEffect DEF Signal
<1>2. call = "write" /\ pc = "sending" /\ sem = 0
  BY DEF Inv, OperationProtocol, OperationHasWaiter, CallInv, SignalledOnce
<1>3. /\ CallInv' /\ HeapInv' /\ SocketsAccounted' /\ ReceiveInv' /\ CompleteInv'
      /\ Taken' = Taken
  BY <1>1, StackKept
<1> USE <1>1, <1>2 DEF Inv, appVars, history
<1>4. NetTypeOK'
  BY DEF TypeOK, NetTypeOK
<1>5. TypeOK' /\ DataTypes'
  BY <1>4 DEF TypeOK, DataTypes
<1>6. OperationProtocol' /\ ReaderWoken'
  BY DEF OperationProtocol, SignalledOnce, Waiting, OperationHasWaiter,
         ReaderWoken, NeverWaitsHoldingData, FailureWakesReader
<1>7. PcbInv' /\ MboxInv' /\ MessageInv'
  BY DEF PcbInv, MboxInv, MessageInv
<1>8. FlowInv'
  BY <1>3, FlowKept DEF Live
<1> QED
  BY <1>3, <1>5, <1>6, <1>7, <1>8

(* A close goes on in a callback.                                          *)
LEMMA CloseCallback ==
    ASSUME Inv, NEW polls \in 0..MaxPolls, CloseStep(polls), unacked' \in BOOLEAN,
           UNCHANGED <<pc, appVars, history>>
    PROVE  Inv'
<1>0. /\ state = "CLOSE" /\ pollsLeft' = polls
      /\ UNCHANGED <<callVars, mbox, mboxValid, rcvevent, stream, used, lastdata>>
      /\ CloseDone(TRUE) \/ CloseDelayed(polls)
  BY DEF CloseStep
<1>1. /\ pcb' \in {"null", "closed", "freed"} \union Active
      /\ msgErr' \in Errors /\ lastErr' \in Errors /\ lastErr' # "CLSD"
      /\ lastErr \in FatalErrors => lastErr' \in FatalErrors
      /\ closePend' \in BOOLEAN /\ refused' \in Refusals
      /\ \/ /\ state' = "NONE" /\ pcb' = "null" /\ ~closePend' /\ refused' = NoRefused
            /\ sem' = sem + 1
         \/ /\ state' = "CLOSE" /\ pcb \in {"established", "closeWait"}
            /\ UNCHANGED <<pcb, sem, refused, lastErr, msgErr>>
  <2>1. polls \in Nat /\ TRUE \in BOOLEAN
    BY NetconnAssumption
  <2> QED
    BY <1>0, <2>1, CloseEffect DEF Signal
<1>2. call = "delete" /\ pc = "closing" /\ sem = 0 /\ ~mboxValid
  BY <1>0 DEF Inv, OperationProtocol, OperationHasWaiter, CallInv, SignalledOnce, MboxInv
<1>3. /\ CallInv' /\ HeapInv' /\ SocketsAccounted' /\ ReceiveInv' /\ CompleteInv'
      /\ Taken' = Taken
  BY <1>0, <1>1, StackKept DEF callVars
<1> USE <1>0, <1>1, <1>2 DEF Inv, appVars, history, callVars
<1>4. NetTypeOK'
  BY DEF TypeOK, NetTypeOK
<1>5. TypeOK' /\ DataTypes'
  BY <1>4 DEF TypeOK, DataTypes
<1>6. OperationProtocol' /\ ReaderWoken'
  BY DEF OperationProtocol, SignalledOnce, Waiting, OperationHasWaiter,
         ReaderWoken, NeverWaitsHoldingData, FailureWakesReader
<1>7. PcbInv' /\ MboxInv'
  BY DEF PcbInv, MboxInv
<1>8. MessageInv'
  BY Nulls DEF MessageInv
<1>9. FlowInv'
  BY DEF FlowInv, Live
<1> QED
  BY <1>3, <1>5, <1>6, <1>7, <1>8, <1>9

(* Data was acknowledged.                                                  *)
LEMMA SentStep ==
    ASSUME Inv, sent_tcp, UNCHANGED <<pc, appVars, history>>
    PROVE  Inv'
<1>1. CASE state = "WRITE" /\ WriteStep(todo, TRUE, FALSE)
  <2>1. FALSE \in BOOLEAN
    OBVIOUS
  <2> QED
    BY <1>1, <2>1, WriteCallback
<1>2. CASE CloseStep(pollsLeft) /\ unacked' = FALSE
  <2>1. PICK polls \in 0..MaxPolls : polls = pollsLeft
    BY DEF Inv, TypeOK, NetTypeOK
  <2>2. unacked' \in BOOLEAN /\ CloseStep(polls)
    BY <1>2, <2>1
  <2> QED
    BY <2>2, CloseCallback
<1>3. CASE /\ state = "NONE" /\ unacked' = FALSE
           /\ UNCHANGED <<callVars, connVars, refused, closePend, stream, used, lastdata>>
  <2> USE <1>3 DEF Inv, appVars, history, callVars, connVars
  <2>1. /\ CallInv' /\ HeapInv' /\ SocketsAccounted' /\ ReceiveInv' /\ CompleteInv'
        /\ Taken' = Taken
    BY StackKept
  <2>2. NetTypeOK'
    <3>1. unacked' \in BOOLEAN
      OBVIOUS
    <3> QED
      BY <3>1 DEF TypeOK, NetTypeOK
  <2>3. TypeOK' /\ DataTypes'
    BY <2>2 DEF TypeOK, DataTypes
  <2>4. OperationProtocol' /\ ReaderWoken'
    BY DEF OperationProtocol, SignalledOnce, Waiting, OperationHasWaiter,
           ReaderWoken, NeverWaitsHoldingData, FailureWakesReader
  <2>5. PcbInv' /\ MboxInv' /\ MessageInv'
    BY DEF PcbInv, MboxInv, MessageInv
  <2>6. FlowInv'
    BY <2>1, FlowKept DEF Live
  <2> QED
    BY <2>1, <2>3, <2>4, <2>5, <2>6
<1> QED
  BY <1>1, <1>2, <1>3 DEF sent_tcp

(* The slow timer.                                                         *)
LEMMA PollStep ==
    ASSUME Inv, poll_tcp, UNCHANGED <<pc, appVars, history>>
    PROVE  Inv'
<1>1. CASE state = "WRITE" /\ WriteStep(todo, TRUE, unacked)
  <2>1. PICK waits \in BOOLEAN : waits = unacked
    BY DEF Inv, TypeOK, NetTypeOK
  <2>2. WriteStep(todo, TRUE, waits)
    BY <1>1, <2>1
  <2> QED
    BY <1>1, <2>2, WriteCallback
<1>2. CASE CloseStep(IF pollsLeft > 0 THEN pollsLeft - 1 ELSE 0) /\ UNCHANGED unacked
  <2>0. pollsLeft \in 0..MaxPolls /\ unacked \in BOOLEAN
    BY DEF Inv, TypeOK, NetTypeOK
  <2>1. PICK polls \in 0..MaxPolls : polls = IF pollsLeft > 0 THEN pollsLeft - 1 ELSE 0
    <3>1. (IF pollsLeft > 0 THEN pollsLeft - 1 ELSE 0) \in 0..MaxPolls
      BY <2>0, NetconnAssumption
    <3> QED
      BY <3>1
  <2>2. CloseStep(polls)
    BY <1>2, <2>1
  <2>3. unacked' \in BOOLEAN
    BY <1>2, <2>0
  <2> QED
    BY <2>2, <2>3, CloseCallback
<1> QED
  BY <1>1, <1>2 DEF poll_tcp

(* The fast timer sends a FIN that found no memory; its ACK frees the pcb. *)
LEMMA PendingFinStep ==
    ASSUME Inv, PendingFin \/ AckOfFin, UNCHANGED <<pc, appVars, history>>
    PROVE  Inv'
<1>0. /\ state = "CLOSE" /\ pcb # "null" /\ closePend' \in BOOLEAN
      /\ \/ pcb = "established" /\ pcb' = "finWait"
         \/ pcb = "closeWait" /\ pcb' = "lastAck"
         \/ pcb = "lastAck" /\ pcb' = "freed"
      /\ UNCHANGED <<callVars, state, lastErr, msgErr, sem, mbox, mboxValid, rcvevent,
                     pollsLeft, unacked, refused, stream, used, lastdata>>
  <2>1. CASE PendingFin
    <3>1. closePend' \in BOOLEAN
      BY <2>1 DEF PendingFin
    <3> QED
      BY <2>1, <3>1 DEF PendingFin, Inv, PcbInv
  <2>2. CASE AckOfFin
    BY <2>2 DEF AckOfFin, coreVars, Inv, PcbInv, TypeOK, NetTypeOK
  <2> QED
    BY <2>1, <2>2
<1>1. call = "delete" /\ pc = "closing"
  BY <1>0 DEF Inv, OperationProtocol, OperationHasWaiter, CallInv
<1>2. /\ CallInv' /\ HeapInv' /\ SocketsAccounted' /\ ReceiveInv' /\ CompleteInv'
      /\ Taken' = Taken
  BY <1>0, StackKept DEF callVars
<1> USE <1>0, <1>1 DEF Inv, appVars, history, callVars
<1>3. NetTypeOK'
  <2>1. pcb' \in {"null", "closed", "freed"} \union Active
    BY DEF Active
  <2> QED
    BY <2>1 DEF TypeOK, NetTypeOK
<1>4. TypeOK' /\ DataTypes'
  BY <1>3 DEF TypeOK, DataTypes
<1>5. OperationProtocol' /\ ReaderWoken'
  BY DEF OperationProtocol, SignalledOnce, Waiting, OperationHasWaiter,
         ReaderWoken, NeverWaitsHoldingData, FailureWakesReader
<1>6. PcbInv' /\ MboxInv'
  BY DEF PcbInv, MboxInv
<1>7. MessageInv'
  BY DEF MessageInv
<1>8. FlowInv'
  BY DEF FlowInv, Live
<1> QED
  BY <1>2, <1>4, <1>5, <1>6, <1>7, <1>8

(* Messages in order, each from its cut on; and one more behind them.      *)
InOrder(cut, mb, whole) ==
    \A i \in 1..Len(mb) : /\ cut[i] = cut[i - 1] + Len(mb[i].data)
                          /\ Part(mb[i].data, cut[i - 1], whole)
(* A message behind messages in order.                                     *)
LEMMA OneMore ==
    ASSUME NEW mb \in Seq(Msgs), NEW cut \in [0..Len(mb) -> Nat], NEW whole,
           InOrder(cut, mb, whole), NEW m \in Msgs, Part(m.data, cut[Len(mb)], whole)
    PROVE  /\ Append(mb, m) \in Seq(Msgs) /\ Len(Append(mb, m)) = Len(mb) + 1
           /\ \A i \in 1..Len(mb) : Append(mb, m)[i] = mb[i]
           /\ Append(mb, m)[Len(mb) + 1] = m
           /\ \E c \in [0..Len(Append(mb, m)) -> Nat] :
                 /\ InOrder(c, Append(mb, m), whole)
                 /\ c[0] = cut[0] /\ c[Len(Append(mb, m))] = cut[Len(mb)] + Len(m.data)
<1>1. /\ Append(mb, m) \in Seq(Msgs) /\ Len(Append(mb, m)) = Len(mb) + 1
      /\ \A i \in 1..Len(mb) : Append(mb, m)[i] = mb[i]
      /\ Append(mb, m)[Len(mb) + 1] = m /\ Len(mb) \in Nat
  BY AppendProperties
<1>2. cut[Len(mb)] \in Nat /\ Len(m.data) \in Nat /\ cut[Len(mb)] + Len(m.data) \in Nat
  <2>1. Len(m.data) \in Nat
    BY DEF Msgs
  <2>2. cut[Len(mb)] \in Nat
    BY <1>1
  <2> QED
    BY <2>1, <2>2
<1>3. PICK last \in Nat : last = cut[Len(mb)] + Len(m.data)
  BY <1>2
<1>4. PICK n \in Nat : n = Len(mb)
  BY <1>1
<1>5. PICK c \in [0..(n + 1) -> Nat] : c[n + 1] = last /\ \A i \in 0..n : c[i] = cut[i]
  <2> DEFINE d == [i \in 0..(n + 1) |-> IF i = n + 1 THEN last ELSE cut[i]]
  <2>1. d \in [0..(n + 1) -> Nat]
    BY <1>4
  <2>2. d[n + 1] = last /\ \A i \in 0..n : d[i] = cut[i]
    OBVIOUS
  <2> QED
    BY <2>1, <2>2
<1>6. InOrder(c, Append(mb, m), whole)
  <2> SUFFICES ASSUME NEW i \in 1..(n + 1)
               PROVE  /\ c[i] = c[i - 1] + Len(Append(mb, m)[i].data)
                      /\ Part(Append(mb, m)[i].data, c[i - 1], whole)
    BY <1>1, <1>4 DEF InOrder
  <2>1. CASE i = n + 1
    <3>1. i - 1 = n /\ n \in 0..n /\ c[i] = last /\ c[i - 1] = cut[n]
      BY <2>1, <1>5
    <3>2. Append(mb, m)[i] = m /\ cut[n] = cut[Len(mb)]
      BY <2>1, <1>1, <1>4
    <3> QED
      BY <3>1, <3>2, <1>3
  <2>2. CASE i # n + 1
    <3>1. i \in 1..n /\ i - 1 \in 0..n /\ i \in 0..n
      BY <2>2
    <3>2. c[i] = cut[i] /\ c[i - 1] = cut[i - 1] /\ Append(mb, m)[i] = mb[i] /\ i \in 1..Len(mb)
      BY <3>1, <1>1, <1>4, <1>5
    <3> QED
      BY <3>2 DEF InOrder
  <2> QED
    BY <2>1, <2>2
<1>7. c[0] = cut[0]
  BY <1>5
<1>8. c \in [0..Len(Append(mb, m)) -> Nat] /\ c[Len(Append(mb, m))] = cut[Len(mb)] + Len(m.data)
  BY <1>1, <1>3, <1>4, <1>5
<1> QED
  BY <1>1, <1>6, <1>7, <1>8

(* What the peer sent, while the connection is in use.                     *)
LEMMA FlowGiven ==
    ASSUME Inv, Live
    PROVE  /\ mbox \in Seq(Msgs) /\ sent \in Seq(Tokens) /\ stream \in Seq(Tokens)
           /\ \E cut \in [0..Len(mbox) -> Nat] :
                 /\ InOrder(cut, mbox, sent) /\ cut[Len(mbox)] \in Nat
                 /\ Part(Taken, 0, sent) /\ Part(lastdata.data, Len(Taken), sent)
                 /\ cut[0] = Len(Taken) + Len(lastdata.data)
                 /\ pcb # "null" =>
                       /\ Part(refused.data, cut[Len(mbox)], sent)
                       /\ Part(stream, cut[Len(mbox)] + Len(refused.data), sent)
                       /\ cut[Len(mbox)] + Len(refused.data) + Len(stream) = Len(sent)
<1>1. mbox \in Seq(Msgs) /\ sent \in Seq(Tokens) /\ stream \in Seq(Tokens)
  BY DEF Inv, DataTypes
<1>2. PICK cut \in [0..Len(mbox) -> Nat] : Cuts(cut)
  BY DEF Inv, FlowInv
<1>3. cut[Len(mbox)] \in Nat
  <2>1. Len(mbox) \in 0..Len(mbox)
    BY <1>1
  <2> QED
    BY <2>1
<1>4. InOrder(cut, mbox, sent)
  BY <1>2 DEF Cuts, InOrder
<1> QED
  BY <1>1, <1>2, <1>3, <1>4 DEF Cuts

(* A message behind the others: the data is in order again when what it    *)
(* holds came next and the rest follows it.                                *)
LEMMA FlowAppend ==
    ASSUME NEW mb \in Seq(Msgs), NEW m \in Msgs, mbox' = Append(mb, m),
           Taken' = Taken, UNCHANGED <<lastdata, sent>>,
           NEW cut \in [0..Len(mb) -> Nat], InOrder(cut, mb, sent),
           Part(Taken, 0, sent), Part(lastdata.data, Len(Taken), sent),
           cut[0] = Len(Taken) + Len(lastdata.data),
           Part(m.data, cut[Len(mb)], sent),
           pcb' # "null" =>
              /\ Part(refused'.data, cut[Len(mb)] + Len(m.data), sent)
              /\ Part(stream', cut[Len(mb)] + Len(m.data) + Len(refused'.data), sent)
              /\ cut[Len(mb)] + Len(m.data) + Len(refused'.data) + Len(stream') = Len(sent)
    PROVE  FlowInv'
<1>1. PICK c \in [0..Len(mbox') -> Nat] :
         /\ InOrder(c, mbox', sent)
         /\ c[0] = cut[0] /\ c[Len(mbox')] = cut[Len(mb)] + Len(m.data)
  BY OneMore, SMTT(30)
<1>2. \A i \in 1..Len(mbox') : /\ c[i] = c[i - 1] + Len(mbox'[i].data)
                              /\ Part(mbox'[i].data, c[i - 1], sent')
  BY <1>1 DEF InOrder
<1>3. pcb' # "null" => /\ Part(refused'.data, c[Len(mbox')], sent')
                       /\ Part(stream', c[Len(mbox')] + Len(refused'.data), sent')
                       /\ c[Len(mbox')] + Len(refused'.data) + Len(stream') = Len(sent')
  BY <1>1
<1>4. /\ Part(Taken', 0, sent') /\ Part(lastdata'.data, Len(Taken'), sent')
      /\ c[0] = Len(Taken') + Len(lastdata'.data)
  BY <1>1
<1> QED
  BY <1>2, <1>3, <1>4, FlowMade

(* A message without data changes no offset.                               *)
LEMMA FlowAppendNull ==
    ASSUME Inv, Live' => Live, mbox' = Append(mbox, NullMsg), Taken' = Taken,
           UNCHANGED <<lastdata, sent>>, pcb' # "null" => pcb # "null" /\ UNCHANGED <<refused, stream>>
    PROVE  FlowInv'
<1> SUFFICES ASSUME Live' PROVE FlowInv'
  BY DEF FlowInv
<1>1. mbox \in Seq(Msgs) /\ sent \in Seq(Tokens)
  BY FlowGiven
<1>2. PICK cut \in [0..Len(mbox) -> Nat] :
                 /\ InOrder(cut, mbox, sent) /\ cut[Len(mbox)] \in Nat
                 /\ Part(Taken, 0, sent) /\ Part(lastdata.data, Len(Taken), sent)
                 /\ cut[0] = Len(Taken) + Len(lastdata.data)
                 /\ pcb # "null" =>
                       /\ Part(refused.data, cut[Len(mbox)], sent)
                       /\ Part(stream, cut[Len(mbox)] + Len(refused.data), sent)
                       /\ cut[Len(mbox)] + Len(refused.data) + Len(stream) = Len(sent)
  BY FlowGiven
<1>3. NullMsg \in Msgs /\ NullMsg.data = <<>> /\ Len(NullMsg.data) = 0
  BY Nulls
<1>4. cut[Len(mbox)] <= Len(sent)
  <2>1. CASE mbox = <<>>
    <3>1. cut[Len(mbox)] = Len(Taken) + Len(lastdata.data)
      BY <1>2, <2>1
    <3> QED
      BY <3>1, <1>2 DEF Part
  <2>2. CASE mbox # <<>>
    <3>1. Len(mbox) \in 1..Len(mbox) /\ Len(mbox) \in Nat
      BY <1>1, <2>2
    <3>2. /\ cut[Len(mbox)] = cut[Len(mbox) - 1] + Len(mbox[Len(mbox)].data)
          /\ Part(mbox[Len(mbox)].data, cut[Len(mbox) - 1], sent)
      BY <1>2, <3>1 DEF InOrder
    <3> QED
      BY <3>2 DEF Part
  <2> QED
    BY <2>1, <2>2
<1>5. Part(NullMsg.data, cut[Len(mbox)], sent) /\ cut[Len(mbox)] + Len(NullMsg.data) = cut[Len(mbox)]
  BY <1>2, <1>3, <1>4 DEF Part
<1>6. pcb' # "null" =>
         /\ Part(refused'.data, cut[Len(mbox)] + Len(NullMsg.data), sent)
         /\ Part(stream', cut[Len(mbox)] + Len(NullMsg.data) + Len(refused'.data), sent)
         /\ cut[Len(mbox)] + Len(NullMsg.data) + Len(refused'.data) + Len(stream') = Len(sent)
  BY <1>2, <1>5
<1> QED
  BY <1>1, <1>2, <1>3, <1>5, <1>6, FlowAppend

(* The mailbox after one more message.                                     *)
LEMMA MboxAppend ==
    ASSUME Inv, MboxTakes, NEW m \in Msgs, mbox' = Append(mbox, m)
    PROVE  /\ mbox' \in Seq(Msgs) /\ Len(mbox') = Len(mbox) + 1 /\ Len(mbox') <= MboxSize
           /\ Len(mbox) \in Nat /\ mbox' # <<>> /\ mboxValid
           /\ \A i \in 1..Len(mbox) : mbox'[i] = mbox[i]
           /\ mbox'[Len(mbox')] = m
           /\ \A i \in 1..Len(mbox') : i # Len(mbox') => i \in 1..Len(mbox)
<1>1. mbox \in Seq(Msgs) /\ Len(mbox) < MboxSize /\ Len(mbox) \in Nat /\ mboxValid
  BY DEF MboxTakes, Inv, DataTypes
<1>2. /\ mbox' \in Seq(Msgs) /\ Len(mbox') = Len(mbox) + 1
      /\ \A i \in 1..Len(mbox) : mbox'[i] = mbox[i]
      /\ mbox'[Len(mbox) + 1] = m
  BY <1>1, AppendProperties
<1>3. Len(mbox') <= MboxSize /\ mbox' # <<>>
  BY <1>1, <1>2, NetconnAssumption
<1>4. \A i \in 1..Len(mbox') : i # Len(mbox') => i \in 1..Len(mbox)
  BY <1>1, <1>2
<1> QED
  BY <1>1, <1>2, <1>3, <1>4

(* The connection fails.                                                   *)
LEMMA ErrStep ==
    ASSUME Inv, NEW err \in {"RST", "ABRT"}, err_tcp(err), UNCHANGED <<pc, appVars, history>>
    PROVE  Inv'
<1>0. /\ pcb \in Active /\ pcb' = "null" /\ state' = "NONE"
      /\ lastErr' = IF state = "CLOSE" THEN SafeErr(lastErr, "OK") ELSE err
      /\ msgErr' = IF state = "CLOSE" THEN "OK" ELSE err
      /\ rcvevent' = rcvevent + 1 /\ mbox' = MboxAfterErr
      /\ sem' = IF state \in {"WRITE", "CLOSE", "CONNECT"} THEN sem + 1 ELSE sem
      /\ refused' = NoRefused /\ closePend' = FALSE /\ unacked' = FALSE
      /\ UNCHANGED <<callVars, mboxValid, pollsLeft, stream, used, lastdata>>
  BY DEF err_tcp
<1>1. /\ lastErr' \in Errors /\ lastErr' # "CLSD" /\ msgErr' \in Errors
      /\ lastErr \in FatalErrors => lastErr' \in FatalErrors
      /\ state # "CLOSE" => lastErr' \in FatalErrors
  BY <1>0 DEF Inv, TypeOK, NetTypeOK, DataTypes, SafeErr, Errors, FatalErrors
<1>2. /\ CallInv' /\ HeapInv' /\ SocketsAccounted' /\ ReceiveInv' /\ CompleteInv'
      /\ Taken' = Taken
  BY <1>0, <1>1, StackKept DEF callVars
<1>3. state = "CLOSE" => ~mboxValid
  BY DEF Inv, OperationProtocol, OperationHasWaiter, MboxInv
<1>4. /\ mbox' \in Seq(Msgs) /\ Len(mbox') <= MboxSize /\ (mboxValid => mbox' # <<>>)
      /\ mbox # <<>> => mbox' # <<>>
      /\ ~mboxValid => mbox' = <<>>
      /\ \A i \in 1..Len(mbox') : mbox'[i] = NullMsg \/ mbox'[i].data # <<>>
      /\ FlowInv'
  <2>1. CASE MboxTakes
    <3>1. mbox' = Append(mbox, NullMsg) /\ NullMsg \in Msgs
      BY <1>0, <2>1, Nulls DEF MboxAfterErr
    <3>2. /\ mbox' \in Seq(Msgs) /\ Len(mbox') <= MboxSize /\ mbox' # <<>> /\ mboxValid
          /\ \A i \in 1..Len(mbox) : mbox'[i] = mbox[i]
          /\ mbox'[Len(mbox')] = NullMsg
          /\ \A i \in 1..Len(mbox') : i # Len(mbox') => i \in 1..Len(mbox)
      BY <2>1, <3>1, MboxAppend
    <3>3. \A i \in 1..Len(mbox') : mbox'[i] = NullMsg \/ mbox'[i].data # <<>>
      BY <3>2 DEF Inv, MessageInv
    <3>4. FlowInv'
      <4>1. Live' => Live
        BY <1>0 DEF Live, Active
      <4>2. UNCHANGED <<lastdata, sent>>
        BY <1>0 DEF appVars
      <4> QED
        BY <1>0, <1>2, <3>1, <4>1, <4>2, FlowAppendNull
    <3> QED
      BY <3>2, <3>3, <3>4
  <2>2. CASE ~MboxTakes
    <3>1. mbox' = mbox
      BY <1>0, <2>2 DEF MboxAfterErr
    <3>2. mbox \in Seq(Msgs) /\ Len(mbox) <= MboxSize
      BY DEF Inv, TypeOK, NetTypeOK, DataTypes
    <3>3. mboxValid => mbox # <<>>
      BY <2>2, <3>2, NetconnAssumption DEF MboxTakes
    <3>4. FlowInv'
      <4> SUFFICES ASSUME Live' PROVE FlowInv'
        BY DEF FlowInv
      <4>0. Live /\ UNCHANGED <<lastdata, sent>>
        BY <1>0 DEF Live, Active, appVars
      <4>1. PICK cut \in [0..Len(mbox) -> Nat] :
                 /\ InOrder(cut, mbox, sent)
                 /\ Part(Taken, 0, sent) /\ Part(lastdata.data, Len(Taken), sent)
                 /\ cut[0] = Len(Taken) + Len(lastdata.data)
        BY <4>0, FlowGiven
      <4>2. \A i \in 1..Len(mbox') : /\ cut[i] = cut[i - 1] + Len(mbox'[i].data)
                                    /\ Part(mbox'[i].data, cut[i - 1], sent')
        BY <3>1, <4>0, <4>1 DEF InOrder
      <4> QED
        BY <1>0, <1>2, <3>1, <4>0, <4>1, <4>2, FlowMade
    <3> QED
      BY <3>1, <3>2, <3>3, <3>4 DEF Inv, MboxInv, MessageInv
  <2> QED
    BY <2>1, <2>2
<1> USE <1>0, <1>1, <1>3, <1>4 DEF Inv, appVars, history, callVars
<1>5. NetTypeOK'
  <2>1. unacked' \in BOOLEAN /\ closePend' \in BOOLEAN
    OBVIOUS
  <2>2. sem' \in Nat /\ rcvevent' \in Int
    BY DEF TypeOK, NetTypeOK
  <2> QED
    BY <2>1, <2>2 DEF TypeOK, NetTypeOK
<1>6. TypeOK' /\ DataTypes'
  BY <1>5, Nulls DEF TypeOK, DataTypes
<1>7. OperationProtocol'
  <2>1. CASE state = "NONE"
    <3>1. sem' = sem /\ call' = call
      BY <2>1
    <3> QED
      BY <2>1, <3>1 DEF OperationProtocol, SignalledOnce, Waiting, OperationHasWaiter
  <2>2. CASE state # "NONE"
    <3>1. sem = 0 /\ sem' = sem + 1 /\ call' = call
      BY <2>2 DEF OperationProtocol, SignalledOnce, TypeOK, NetTypeOK
    <3>2. Waiting
      BY <2>2 DEF OperationProtocol, OperationHasWaiter, Waiting, TypeOK, NetTypeOK
    <3> QED
      BY <3>1, <3>2 DEF OperationProtocol, SignalledOnce, Waiting, OperationHasWaiter
  <2> QED
    BY <2>1, <2>2
<1>8. ReaderWoken'
  BY DEF ReaderWoken, NeverWaitsHoldingData, FailureWakesReader, MboxInv
<1>9. PcbInv'
  BY DEF PcbInv, Active
<1>10. MboxInv'
  <2>1. rcvevent \in Int
    BY DEF TypeOK, NetTypeOK
  <2>2. call = "recv" /\ got # <<>> => rcvevent' > 0 /\ lastdata = NullMsg
    BY <2>1 DEF MboxInv
  <2>3. pcb # "closed"
    BY DEF Active
  <2> QED
    BY <2>2, <2>3 DEF MboxInv
<1>11. MessageInv'
  BY Nulls DEF MessageInv
<1> QED
  BY <1>2, <1>6, <1>7, <1>8, <1>9, <1>10, <1>11

(* What arrives from the peer changes no more than the mailbox, the        *)
(* refused data, what is to come and the state of the pcb.                 *)
LEMMA ArrivalStep ==
    ASSUME Inv, UNCHANGED <<pc, appVars, history, callVars, state, lastErr, msgErr, sem, mboxValid,
                            pollsLeft, unacked, closePend, used, lastdata>>,
           pcb \notin {"null", "closed", "synSent"},
           \/ pcb' = pcb
           \/ pcb = "established" /\ pcb' = "closeWait"
           \/ pcb = "finWait" /\ pcb' = "freed",
           mbox' \in Seq(Msgs), Len(mbox') <= MboxSize, ~mboxValid => mbox' = <<>>,
           mbox # <<>> => mbox' # <<>>,
           rcvevent' \in Int, rcvevent' >= rcvevent,
           rcvevent = Len(mbox) => rcvevent' = Len(mbox'),
           refused' \in Refusals, stream' \in Seq(Tokens), FlowInv', MessageInv'
    PROVE  Inv'
<1>1. /\ CallInv' /\ HeapInv' /\ SocketsAccounted' /\ ReceiveInv' /\ CompleteInv'
  BY StackKept DEF callVars
<1> USE DEF Inv, appVars, history, callVars
<1>2. NetTypeOK'
  <2>1. pcb' \in {"null", "closed", "freed"} \union Active
    BY DEF Active, TypeOK, NetTypeOK
  <2> QED
    BY <2>1 DEF TypeOK, NetTypeOK
<1>3. TypeOK' /\ DataTypes'
  BY <1>2 DEF TypeOK, DataTypes
<1>4. OperationProtocol'
  BY DEF OperationProtocol, SignalledOnce, Waiting, OperationHasWaiter
<1>5. ReaderWoken'
  BY DEF ReaderWoken, NeverWaitsHoldingData, FailureWakesReader
<1>6. PcbInv'
  BY DEF PcbInv
<1>7. MboxInv'
  <2>1. rcvevent \in Int
    BY DEF TypeOK, NetTypeOK
  <2>2. call = "recv" /\ got # <<>> => rcvevent' > 0 /\ lastdata = NullMsg
    BY <2>1 DEF MboxInv
  <2>3. pcb' # "null"
    OBVIOUS
  <2> QED
    BY <2>2, <2>3 DEF MboxInv
<1> QED
  BY <1>1, <1>3, <1>4, <1>5, <1>6, <1>7

(* Neither has anything of the connection ended: no NULL message is there. *)
LEMMA NoNull ==
    ASSUME Inv, pcb # "null", pcb = "established" \/ refused # NoRefused
    PROVE  /\ \A i \in 1..Len(mbox) : mbox[i] # NullMsg /\ mbox[i].data # <<>>
           /\ call \notin {"null", "shut"}
  BY DEF Inv, MessageInv

(* Data arrives.                                                           *)
LEMMA DataStep ==
    ASSUME Inv, NEW n \in 1..MaxSegment, NEW push \in BOOLEAN, DataArrives(n, push),
           UNCHANGED <<pc, appVars, history>>
    PROVE  Inv'
<1>0. /\ pcb = "established" /\ pcb' = pcb /\ state # "CLOSE" /\ refused = NoRefused /\ n <= Len(stream)
      /\ stream' = SubSeq(stream, n + 1, Len(stream))
      /\ UNCHANGED <<callVars, state, lastErr, msgErr, sem, mboxValid, pollsLeft,
                     unacked, closePend, used, lastdata>>
  BY DEF DataArrives
<1>1. stream \in Seq(Tokens) /\ sent \in Seq(Tokens) /\ Len(stream) \in Nat /\ n \in 0..Len(stream)
      /\ n >= 1 /\ mbox \in Seq(Msgs) /\ rcvevent \in Int
  BY <1>0 DEF Inv, DataTypes, TypeOK, NetTypeOK
<1>2. PICK data \in Seq(Tokens) : data = SubSeq(stream, 1, n) /\ Len(data) = n
  BY <1>1, CutInTwo
<1>3. data # <<>>
  <2>1. Len(data) # 0
    BY <1>1, <1>2
  <2> QED
    BY <2>1
<1>4. stream' \in Seq(Tokens) /\ Len(stream') = Len(stream) - n
  BY <1>0, <1>1, CutInTwo
<1>5. /\ \A i \in 1..Len(mbox) : mbox[i] # NullMsg /\ mbox[i].data # <<>>
      /\ call \notin {"null", "shut"}
  BY <1>0, NoNull
<1>6. Taken' = Taken /\ UNCHANGED <<lastdata, sent>>
  BY <1>0 DEF Taken, appVars, callVars
<1>7. ASSUME Live
      PROVE  \E cut \in [0..Len(mbox) -> Nat] :
                 /\ InOrder(cut, mbox, sent) /\ cut[Len(mbox)] \in Nat
                 /\ Part(Taken, 0, sent) /\ Part(lastdata.data, Len(Taken), sent)
                 /\ cut[0] = Len(Taken) + Len(lastdata.data)
                 /\ Part(data, cut[Len(mbox)], sent)
                 /\ Part(stream', cut[Len(mbox)] + n, sent)
                 /\ cut[Len(mbox)] + n + Len(stream') = Len(sent)
                 /\ cut[Len(mbox)] + n <= Len(sent)
  <2>1. PICK cut \in [0..Len(mbox) -> Nat] :
                 /\ InOrder(cut, mbox, sent) /\ cut[Len(mbox)] \in Nat
                 /\ Part(Taken, 0, sent) /\ Part(lastdata.data, Len(Taken), sent)
                 /\ cut[0] = Len(Taken) + Len(lastdata.data)
                 /\ pcb # "null" =>
                       /\ Part(stream, cut[Len(mbox)] + Len(refused.data), sent)
                       /\ cut[Len(mbox)] + Len(refused.data) + Len(stream) = Len(sent)
    BY <1>7, FlowGiven
  <2>2. Len(refused.data) = 0 /\ pcb # "null"
    BY <1>0, Nulls
  <2>3. PICK off \in Nat : off = cut[Len(mbox)]
    BY <2>1
  <2>4. Part(stream, off, sent) /\ off + Len(stream) = Len(sent)
    BY <2>1, <2>2, <2>3
  <2>5. Part(data, off, sent) /\ Part(stream', off + n, sent)
    BY <2>4, <1>0, <1>1, <1>2, PartOfPart
  <2>6. off + n + Len(stream') = Len(sent) /\ off + n <= Len(sent)
    <3>1. PICK all \in Nat, after \in Nat : all = Len(stream) /\ after = Len(stream')
      BY <1>1, <1>4
    <3>2. after = all - n /\ off + all = Len(sent)
      BY <3>1, <2>4, <1>4
    <3>3. off + n + after = off + all /\ off + n <= off + all
      BY <3>1, <3>2
    <3> QED
      BY <3>1, <3>2, <3>3
  <2> QED
    BY <2>1, <2>3, <2>5, <2>6
<1>8. CASE MboxTakes
  <2>1. mbox' = Append(mbox, Pbuf(data, push)) /\ rcvevent' = rcvevent + 1 /\ refused' = refused
    BY <1>8, <1>2 DEF DataArrives, Post
  <2>2. PICK m \in Msgs : m = Pbuf(data, push) /\ m.data = data
    <3>1. Pbuf(data, push) \in Msgs /\ Pbuf(data, push).data = data
      BY DEF Pbuf, Msgs
    <3> QED
      BY <3>1
  <2>3. /\ mbox' \in Seq(Msgs) /\ Len(mbox') = Len(mbox) + 1 /\ Len(mbox') <= MboxSize
        /\ Len(mbox) \in Nat /\ mbox' # <<>> /\ mboxValid
        /\ \A i \in 1..Len(mbox) : mbox'[i] = mbox[i]
        /\ mbox'[Len(mbox')] = m
        /\ \A i \in 1..Len(mbox') : i # Len(mbox') => i \in 1..Len(mbox)
    BY <1>8, <2>1, <2>2, MboxAppend
  <2>4. m # NullMsg
    BY <2>2, <1>3, Nulls
  <2>5. \A i \in 1..Len(mbox') : mbox'[i] # NullMsg /\ mbox'[i].data # <<>>
    BY <2>2, <2>3, <2>4, <1>3, <1>5
  <2>6. MessageInv'
    BY <2>1, <2>5, <1>0, <1>5, Nulls DEF Inv, MessageInv, callVars
  <2>7. FlowInv'
    <3> SUFFICES ASSUME Live' PROVE FlowInv'
      BY DEF FlowInv
    <3>1. Live
      BY <1>0 DEF Live
    <3>2. PICK cut \in [0..Len(mbox) -> Nat] :
                 /\ InOrder(cut, mbox, sent) /\ cut[Len(mbox)] \in Nat
                 /\ Part(Taken, 0, sent) /\ Part(lastdata.data, Len(Taken), sent)
                 /\ cut[0] = Len(Taken) + Len(lastdata.data)
                 /\ Part(data, cut[Len(mbox)], sent)
                 /\ Part(stream', cut[Len(mbox)] + n, sent)
                 /\ cut[Len(mbox)] + n + Len(stream') = Len(sent)
                 /\ cut[Len(mbox)] + n <= Len(sent)
      BY <3>1, <1>7
    <3>3. refused'.data = <<>> /\ Len(refused'.data) = 0
      BY <2>1, <1>0, Nulls
    <3>4. PICK end \in Nat : end = cut[Len(mbox)] + n
      BY <3>2
    <3>5. Part(refused'.data, end, sent)
      BY <3>2, <3>3, <3>4 DEF Part
    <3>6. end = cut[Len(mbox)] + Len(m.data) /\ end + Len(refused'.data) = end
      BY <3>3, <3>4, <2>2, <1>2
    <3>7. /\ Part(refused'.data, cut[Len(mbox)] + Len(m.data), sent)
          /\ Part(stream', cut[Len(mbox)] + Len(m.data) + Len(refused'.data), sent)
          /\ cut[Len(mbox)] + Len(m.data) + Len(refused'.data) + Len(stream') = Len(sent)
      BY <3>2, <3>4, <3>5, <3>6
    <3>8. Part(m.data, cut[Len(mbox)], sent) /\ mbox' = Append(mbox, m)
      BY <2>1, <2>2, <3>2
    <3> QED
      BY <1>1, <1>6, <3>2, <3>7, <3>8, FlowAppend
  <2>8. refused' \in Refusals /\ rcvevent' \in Int /\ rcvevent' >= rcvevent
        /\ (rcvevent = Len(mbox) => rcvevent' = Len(mbox'))
    BY <2>1, <2>3, <1>1 DEF Inv, DataTypes
  <2> QED
    BY <1>0, <1>4, <2>3, <2>6, <2>7, <2>8, ArrivalStep
<1>9. CASE ~MboxTakes
  <2>1. refused' = Refuse(data, push) /\ UNCHANGED <<mbox, rcvevent>>
    BY <1>9, <1>2 DEF DataArrives
  <2>2. refused' \in Refusals /\ refused'.data = data /\ ~refused'.fin
    BY <2>1 DEF Refuse, Refusals
  <2>3. MessageInv'
    BY <2>1, <2>2, <1>0, <1>3, <1>5 DEF Inv, MessageInv, callVars
  <2>4. FlowInv'
    <3> SUFFICES ASSUME Live' PROVE FlowInv'
      BY DEF FlowInv
    <3>1. Live
      BY <1>0 DEF Live
    <3>2. PICK cut \in [0..Len(mbox) -> Nat] :
                 /\ InOrder(cut, mbox, sent) /\ cut[Len(mbox)] \in Nat
                 /\ Part(Taken, 0, sent) /\ Part(lastdata.data, Len(Taken), sent)
                 /\ cut[0] = Len(Taken) + Len(lastdata.data)
                 /\ Part(data, cut[Len(mbox)], sent)
                 /\ Part(stream', cut[Len(mbox)] + n, sent)
                 /\ cut[Len(mbox)] + n + Len(stream') = Len(sent)
      BY <3>1, <1>7
    <3>3. \A i \in 1..Len(mbox') : /\ cut[i] = cut[i - 1] + Len(mbox'[i].data)
                                  /\ Part(mbox'[i].data, cut[i - 1], sent')
      BY <3>2, <2>1, <1>6 DEF InOrder
    <3>4. /\ Part(refused'.data, cut[Len(mbox')], sent')
          /\ Part(stream', cut[Len(mbox')] + Len(refused'.data), sent')
          /\ cut[Len(mbox')] + Len(refused'.data) + Len(stream') = Len(sent')
      BY <3>2, <2>1, <2>2, <1>2, <1>6
    <3>5. /\ Part(Taken', 0, sent') /\ Part(lastdata'.data, Len(Taken'), sent')
          /\ cut[0] = Len(Taken') + Len(lastdata'.data) /\ cut \in [0..Len(mbox') -> Nat]
      BY <3>2, <2>1, <1>6
    <3> QED
      BY <3>3, <3>4, <3>5, FlowMade
  <2>5. /\ mbox' \in Seq(Msgs) /\ Len(mbox') <= MboxSize /\ (~mboxValid => mbox' = <<>>)
    BY <2>1, <1>1 DEF Inv, TypeOK, NetTypeOK, MboxInv
  <2> QED
    BY <1>0, <1>1, <1>4, <2>1, <2>2, <2>3, <2>4, <2>5, ArrivalStep
<1> QED
  BY <1>8, <1>9

(* The peer's FIN.                                                         *)
LEMMA FinStep ==
    ASSUME Inv, FinArrives, UNCHANGED <<pc, appVars, history>>
    PROVE  Inv'
<1>0. /\ stream = <<>> /\ stream' = stream
      /\ UNCHANGED <<callVars, state, lastErr, msgErr, sem, mboxValid, pollsLeft,
                     unacked, closePend, used, lastdata>>
      /\ \/ pcb = "established" /\ pcb' = "closeWait"
         \/ pcb = "finWait" /\ pcb' = "freed"
  BY DEF FinArrives
<1>1. /\ mbox \in Seq(Msgs) /\ Len(mbox) <= MboxSize /\ (~mboxValid => mbox = <<>>)
      /\ rcvevent \in Int /\ refused \in Refusals /\ stream' \in Seq(Tokens)
  BY <1>0 DEF Inv, DataTypes, TypeOK, NetTypeOK, MboxInv
<1>2. Taken' = Taken /\ UNCHANGED <<lastdata, sent>> /\ (Live' => Live)
  BY <1>0 DEF Taken, appVars, callVars, Live
<1>3. CASE UNCHANGED <<mbox, rcvevent, refused>>
  <2>1. MessageInv'
    BY <1>0, <1>3 DEF Inv, MessageInv, callVars
  <2>2. FlowInv'
    BY <1>0, <1>2, <1>3, FlowKept
  <2> QED
    BY <1>0, <1>1, <1>3, <2>1, <2>2, ArrivalStep
<1>4. CASE /\ pcb = "established" /\ refused # NoRefused
           /\ refused' = [refused EXCEPT !.fin = TRUE] /\ UNCHANGED <<mbox, rcvevent>>
  <2>1. refused' \in Refusals /\ refused'.data = refused.data
    BY <1>1, <1>4 DEF Refusals
  <2>2. /\ \A i \in 1..Len(mbox) : mbox[i] # NullMsg /\ mbox[i].data # <<>>
        /\ call \notin {"null", "shut"}
    BY <1>4, NoNull
  <2>3. MessageInv'
    BY <1>0, <1>4, <2>1, <2>2 DEF Inv, MessageInv, callVars
  <2>4. FlowInv'
    <3> SUFFICES ASSUME Live' PROVE FlowInv'
      BY DEF FlowInv
    <3>1. PICK cut \in [0..Len(mbox) -> Nat] : Cuts(cut)
      BY <1>2 DEF Inv, FlowInv
    <3>2. Cuts(cut)'
      BY <3>1, <1>0, <1>2, <1>4, <2>1 DEF Cuts
    <3> QED
      BY <3>1, <3>2, <1>4 DEF FlowInv
  <2> QED
    BY <1>0, <1>1, <1>4, <2>1, <2>3, <2>4, ArrivalStep
<1>5. CASE /\ pcb = "established" /\ refused = NoRefused /\ refused' = refused
           /\ MboxTakes /\ Post(NullMsg)
  <2>1. mbox' = Append(mbox, NullMsg) /\ NullMsg \in Msgs /\ rcvevent' = rcvevent + 1
    BY <1>5, Nulls DEF Post
  <2>2. /\ mbox' \in Seq(Msgs) /\ Len(mbox') = Len(mbox) + 1 /\ Len(mbox') <= MboxSize
        /\ Len(mbox) \in Nat /\ mbox' # <<>> /\ mboxValid
        /\ \A i \in 1..Len(mbox) : mbox'[i] = mbox[i]
        /\ \A i \in 1..Len(mbox') : i # Len(mbox') => i \in 1..Len(mbox)
        /\ mbox'[Len(mbox')] = NullMsg
    BY <1>5, <2>1, MboxAppend
  <2>3. /\ \A i \in 1..Len(mbox) : mbox[i] # NullMsg /\ mbox[i].data # <<>>
        /\ call \notin {"null", "shut"}
    BY <1>5, NoNull
  <2>4. /\ \A i \in 1..Len(mbox') : mbox'[i] = NullMsg \/ mbox'[i].data # <<>>
        /\ \A i \in 1..Len(mbox') : mbox'[i] = NullMsg => i = Len(mbox')
    BY <2>2, <2>3
  <2>5. MessageInv'
    BY <1>0, <1>5, <2>3, <2>4, Nulls DEF Inv, MessageInv, callVars
  <2>6. FlowInv'
    BY <1>0, <1>2, <1>5, <2>1, FlowAppendNull
  <2>7. /\ rcvevent' \in Int /\ rcvevent' >= rcvevent
        /\ rcvevent = Len(mbox) => rcvevent' = Len(mbox')
    BY <1>1, <2>1, <2>2
  <2> QED
    BY <1>0, <1>1, <1>5, <2>2, <2>5, <2>6, <2>7, ArrivalStep
<1> QED
  BY <1>3, <1>4, <1>5 DEF FinArrives, PostFin

(* Refused data is offered again, and its FIN behind it.                   *)
LEMMA RefusedStep ==
    ASSUME Inv, RefusedAgain, UNCHANGED <<pc, appVars, history>>
    PROVE  Inv'
<1>0. /\ refused # NoRefused /\ MboxTakes /\ refused' = NoRefused /\ stream' = stream /\ pcb' = pcb
      /\ UNCHANGED <<callVars, state, lastErr, msgErr, sem, mboxValid, pollsLeft,
                     unacked, closePend, used, lastdata>>
  BY DEF RefusedAgain
<1>1. /\ mbox \in Seq(Msgs) /\ Len(mbox) \in Nat /\ Len(mbox) < MboxSize /\ mboxValid
      /\ rcvevent \in Int /\ refused \in Refusals /\ stream' \in Seq(Tokens)
      /\ pcb \notin {"null", "closed", "synSent"} /\ refused.data # <<>>
      /\ refused.fin => stream = <<>> /\ pcb \notin {"synSent", "established"}
  BY <1>0 DEF Inv, DataTypes, TypeOK, NetTypeOK, MboxTakes, PcbInv, MessageInv
<1>2. Taken' = Taken /\ UNCHANGED <<lastdata, sent>> /\ (Live' => Live)
  BY <1>0 DEF Taken, appVars, callVars, Live
<1>3. /\ \A i \in 1..Len(mbox) : mbox[i] # NullMsg /\ mbox[i].data # <<>>
      /\ call \notin {"null", "shut"}
  BY <1>0, <1>1, NoNull
<1>4. PICK m \in Msgs : m = Pbuf(refused.data, refused.push) /\ m.data = refused.data
  <2>1. Pbuf(refused.data, refused.push) \in Msgs
    BY <1>1 DEF Pbuf, Msgs, Refusals
  <2>2. Pbuf(refused.data, refused.push).data = refused.data
    BY DEF Pbuf
  <2> QED
    BY <2>1, <2>2
<1>5. m # NullMsg /\ m.data # <<>>
  BY <1>1, <1>4, Nulls
<1>6. PICK mb \in Seq(Msgs) :
         /\ mb = Append(mbox, m) /\ Len(mb) = Len(mbox) + 1
         /\ \A i \in 1..Len(mbox) : mb[i] = mbox[i]
         /\ mb[Len(mb)] = m
  <2>1. /\ Append(mbox, m) \in Seq(Msgs) /\ Len(Append(mbox, m)) = Len(mbox) + 1
        /\ \A i \in 1..Len(mbox) : Append(mbox, m)[i] = mbox[i]
        /\ Append(mbox, m)[Len(mbox) + 1] = m
    BY <1>1, AppendProperties
  <2> QED
    BY <2>1
<1>7. Len(mb) \in Nat /\ Len(mb) <= MboxSize /\ mb # <<>>
      /\ \A i \in 1..Len(mb) : i # Len(mb) => i \in 1..Len(mbox)
  BY <1>1, <1>6, NetconnAssumption
<1>8. \A i \in 1..Len(mb) : mb[i] # NullMsg /\ mb[i].data # <<>>
  BY <1>3, <1>5, <1>6, <1>7
<1>9. ASSUME Live
      PROVE  \E c \in [0..Len(mb) -> Nat] :
                 /\ InOrder(c, mb, sent) /\ c[Len(mb)] \in Nat
                 /\ Part(Taken, 0, sent) /\ Part(lastdata.data, Len(Taken), sent)
                 /\ c[0] = Len(Taken) + Len(lastdata.data)
                 /\ Part(stream, c[Len(mb)], sent)
                 /\ c[Len(mb)] + Len(stream) = Len(sent) /\ c[Len(mb)] <= Len(sent)
  <2>1. PICK cut \in [0..Len(mbox) -> Nat] :
                 /\ InOrder(cut, mbox, sent) /\ cut[Len(mbox)] \in Nat
                 /\ Part(Taken, 0, sent) /\ Part(lastdata.data, Len(Taken), sent)
                 /\ cut[0] = Len(Taken) + Len(lastdata.data)
                 /\ pcb # "null" =>
                       /\ Part(refused.data, cut[Len(mbox)], sent)
                       /\ Part(stream, cut[Len(mbox)] + Len(refused.data), sent)
                       /\ cut[Len(mbox)] + Len(refused.data) + Len(stream) = Len(sent)
    BY <1>9, FlowGiven
  <2>2. Part(m.data, cut[Len(mbox)], sent)
    BY <2>1, <1>1, <1>4
  <2>3. PICK c \in [0..Len(mb) -> Nat] :
           /\ InOrder(c, mb, sent) /\ c[0] = cut[0]
           /\ c[Len(mb)] = cut[Len(mbox)] + Len(refused.data)
    BY <2>1, <2>2, <1>1, <1>4, <1>6, OneMore
  <2>4. Len(mb) \in 0..Len(mb)
    BY <1>7
  <2>5. c[Len(mb)] \in Nat
    BY <2>4
  <2>6. Part(stream, c[Len(mb)], sent) /\ c[Len(mb)] + Len(stream) = Len(sent)
    BY <2>1, <2>3, <1>1
  <2>7. c[Len(mb)] <= Len(sent)
    BY <2>5, <2>6 DEF Part
  <2> QED
    BY <2>1, <2>3, <2>5, <2>6, <2>7
<1>10. refused'.data = <<>> /\ Len(refused'.data) = 0 /\ refused' \in Refusals /\ ~refused'.fin
  BY <1>0, Nulls
<1>11. CASE refused.fin /\ Len(mb) < MboxSize
  <2>1. mbox' = Append(mb, NullMsg) /\ rcvevent' = rcvevent + 2 /\ NullMsg \in Msgs
    BY <1>4, <1>6, <1>11, Nulls DEF RefusedAgain
  <2>2. /\ mbox' \in Seq(Msgs) /\ Len(mbox') = Len(mb) + 1
        /\ \A i \in 1..Len(mb) : mbox'[i] = mb[i]
        /\ mbox'[Len(mb) + 1] = NullMsg
    BY <2>1, AppendProperties
  <2>3. /\ Len(mbox') <= MboxSize /\ mbox' # <<>>
        /\ \A i \in 1..Len(mbox') : i # Len(mbox') => i \in 1..Len(mb)
    BY <2>2, <1>7, <1>11, NetconnAssumption
  <2>4. /\ \A i \in 1..Len(mbox') : mbox'[i] = NullMsg \/ mbox'[i].data # <<>>
        /\ \A i \in 1..Len(mbox') : mbox'[i] = NullMsg => i = Len(mbox')
    BY <2>2, <2>3, <1>8
  <2>5. MessageInv'
    BY <2>4, <1>0, <1>1, <1>3, <1>10, <1>11 DEF Inv, MessageInv, callVars
  <2>6. FlowInv'
    <3> SUFFICES ASSUME Live' PROVE FlowInv'
      BY DEF FlowInv
    <3>1. PICK c \in [0..Len(mb) -> Nat] :
                 /\ InOrder(c, mb, sent) /\ c[Len(mb)] \in Nat
                 /\ Part(Taken, 0, sent) /\ Part(lastdata.data, Len(Taken), sent)
                 /\ c[0] = Len(Taken) + Len(lastdata.data)
                 /\ Part(stream, c[Len(mb)], sent)
                 /\ c[Len(mb)] + Len(stream) = Len(sent) /\ c[Len(mb)] <= Len(sent)
      BY <1>2, <1>9
    <3>2. NullMsg.data = <<>> /\ Len(NullMsg.data) = 0
      BY Nulls
    <3>3. Part(<<>>, c[Len(mb)], sent) /\ c[Len(mb)] + 0 = c[Len(mb)]
      BY <3>1 DEF Part
    <3>4. /\ Part(NullMsg.data, c[Len(mb)], sent)
          /\ Part(refused'.data, c[Len(mb)] + Len(NullMsg.data), sent)
          /\ Part(stream', c[Len(mb)] + Len(NullMsg.data) + Len(refused'.data), sent)
          /\ c[Len(mb)] + Len(NullMsg.data) + Len(refused'.data) + Len(stream') = Len(sent)
      BY <3>1, <3>2, <3>3, <1>0, <1>10
    <3> QED
      BY <3>1, <3>4, <2>1, <1>2, FlowAppend
  <2>7. /\ rcvevent' \in Int /\ rcvevent' >= rcvevent
        /\ rcvevent = Len(mbox) => rcvevent' = Len(mbox')
    BY <1>1, <1>6, <2>1, <2>2
  <2> QED
    BY <1>0, <1>1, <1>10, <2>2, <2>3, <2>5, <2>6, <2>7, ArrivalStep
<1>12. CASE ~(refused.fin /\ Len(mb) < MboxSize)
  <2>1. mbox' = mb /\ rcvevent' = rcvevent + 1
    BY <1>4, <1>6, <1>12 DEF RefusedAgain
  <2>2. MessageInv'
    BY <2>1, <1>0, <1>1, <1>3, <1>8, <1>10 DEF Inv, MessageInv, callVars
  <2>3. FlowInv'
    <3> SUFFICES ASSUME Live' PROVE FlowInv'
      BY DEF FlowInv
    <3>1. PICK c \in [0..Len(mb) -> Nat] :
                 /\ InOrder(c, mb, sent) /\ c[Len(mb)] \in Nat
                 /\ Part(Taken, 0, sent) /\ Part(lastdata.data, Len(Taken), sent)
                 /\ c[0] = Len(Taken) + Len(lastdata.data)
                 /\ Part(stream, c[Len(mb)], sent)
                 /\ c[Len(mb)] + Len(stream) = Len(sent) /\ c[Len(mb)] <= Len(sent)
      BY <1>2, <1>9
    <3>2. \A i \in 1..Len(mbox') : /\ c[i] = c[i - 1] + Len(mbox'[i].data)
                                  /\ Part(mbox'[i].data, c[i - 1], sent')
      BY <3>1, <2>1, <1>2 DEF InOrder
    <3>3. Part(<<>>, c[Len(mb)], sent) /\ c[Len(mb)] + 0 = c[Len(mb)]
      BY <3>1 DEF Part
    <3>4. /\ Part(refused'.data, c[Len(mbox')], sent')
          /\ Part(stream', c[Len(mbox')] + Len(refused'.data), sent')
          /\ c[Len(mbox')] + Len(refused'.data) + Len(stream') = Len(sent')
      BY <3>1, <3>3, <2>1, <1>0, <1>2, <1>10
    <3>5. /\ Part(Taken', 0, sent') /\ Part(lastdata'.data, Len(Taken'), sent')
          /\ c[0] = Len(Taken') + Len(lastdata'.data) /\ c \in [0..Len(mbox') -> Nat]
      BY <3>1, <2>1, <1>2
    <3> QED
      BY <3>2, <3>4, <3>5, FlowMade
  <2>4. /\ rcvevent' \in Int /\ rcvevent' >= rcvevent
        /\ rcvevent = Len(mbox) => rcvevent' = Len(mbox')
    BY <1>1, <1>6, <2>1
  <2> QED
    BY <1>0, <1>1, <1>7, <1>10, <2>1, <2>2, <2>3, <2>4, ArrivalStep
<1> QED
  BY <1>11, <1>12

-----------------------------------------------------------------------------
(* A step that changes nothing.                                            *)
LEMMA StutterStep == ASSUME Inv, UNCHANGED vars PROVE Inv'
<1> USE DEF Inv, vars, appVars, history, netVars, callVars, connVars, coreVars
<1>1. NetTypeOK' /\ OperationProtocol' /\ ReaderWoken' /\ MessageInv'
  BY SocketKept
<1>2. TypeOK' /\ DataTypes'
  BY <1>1 DEF TypeOK, DataTypes
<1>3. CallInv' /\ HeapInv' /\ SocketsAccounted' /\ ReceiveInv' /\ CompleteInv' /\ Taken' = Taken
  BY StackKept
<1>4. PcbInv' /\ MboxInv'
  BY DEF PcbInv, MboxInv
<1>5. FlowInv'
  BY <1>3, FlowKept DEF Live
<1> QED
  BY <1>1, <1>2, <1>3, <1>4, <1>5

(* Every step keeps the invariant.                                         *)
LEMMA NextInv == Inv /\ [Next]_vars => Inv'
<1> SUFFICES ASSUME Inv, [Next]_vars PROVE Inv'
  OBVIOUS
<1>1. CASE httpApplicationPost
  BY <1>1, CreateSocketStep, ConnectStep, ConnectedStep, HttpPostStep, SendStep, FreePacketStep,
     WaitStep, RecvCallStep, ReceivedStep, ParseStep, CloseCallStep, FreeResponseStep
     DEF httpApplicationPost
<1>2. CASE InCall
  BY <1>2, RecvTopStep, RecvFetchStep, RecvNullStep, RecvShutStep, OpCompletedStep
     DEF InCall, Continue
<1>3. CASE Stack
  <2>0. UNCHANGED <<pc, appVars, history>>
    BY <1>3 DEF Stack
  <2>1. CASE Peer
    <3>1. CASE \E n \in 1..MaxSegment, push \in BOOLEAN : DataArrives(n, push)
      BY <2>0, <3>1, DataStep
    <3>2. CASE err_tcp("RST") \/ err_tcp("ABRT")
      BY <2>0, <3>2, ErrStep
    <3>3. CASE lwip_netconn_do_connected \/ FinArrives \/ sent_tcp \/ AckOfFin
      BY <2>0, <3>3, DoConnectedStep, FinStep, SentStep, PendingFinStep
    <3> QED
      BY <2>1, <3>1, <3>2, <3>3 DEF Peer
  <2>2. CASE Timers
    BY <2>0, <2>2, RefusedStep, PendingFinStep, PollStep DEF Timers
  <2> QED
    BY <1>3, <2>1, <2>2 DEF Stack, tcpip_thread
<1>4. CASE UNCHANGED vars
  BY <1>4, StutterStep
<1> QED
  BY <1>1, <1>2, <1>3, <1>4 DEF Next, Task, Spin, Halted, Stranded

-----------------------------------------------------------------------------
(* The invariant holds in every state of httpPostTask and its socket.      *)
THEOREM HttpClientInvariance == Spec => []Inv
  BY InitInv, NextInv, PTL DEF Spec

(* op_completed is signalled once for every connect, write and close that  *)
(* waits, and an operation of the netconn is always awaited by its caller  *)
(* (api_msg.c).                                                            *)
THEOREM OperationsComplete == Spec => []OperationProtocol
<1>1. Inv => OperationProtocol
  BY DEF Inv
<1> QED
  BY <1>1, HttpClientInvariance, PTL

(* lwip_recvfrom is never left waiting with data it could return or on a   *)
(* connection that failed (sockets.c, err_tcp of api_msg.c).               *)
THEOREM ReaderIsWoken == Spec => []ReaderWoken
<1>1. Inv => ReaderWoken
  BY DEF Inv
<1> QED
  BY <1>1, HttpClientInvariance, PTL

(* waitHttpResponse writes inside BUF, and parses a prefix of what the     *)
(* peer sent, all of it unless BUF is full.                                *)
THEOREM ParsesWhatWasSent == Spec => []ResponseComplete
<1>1. Inv => ResponseComplete
  <2> SUFFICES ASSUME Inv PROVE ResponseComplete
    OBVIOUS
  <2>0. /\ buf \in Seq(Tokens) /\ got \in Seq(Tokens) /\ sent \in Seq(Tokens)
        /\ pcb = "closed" => pc \in {"idle", "connect", "connecting"}
    BY DEF Inv, DataTypes, PcbInv
  <2>1. WritesInsideBuf
    BY DEF Inv, ReceiveInv, WritesInsideBuf
  <2>2. pc \in {"recv", "receiving", "parse"} => Part(buf, 0, sent)
    <3>1. CASE pc = "recv"
      BY <2>0, <3>1, FlowGiven DEF Live, Taken
    <3>2. CASE pc = "receiving"
      <4>1. Part(buf \o got, 0, sent)
        BY <2>0, <3>2, FlowGiven DEF Live, Taken
      <4>2. /\ Len(buf \o got) = Len(buf) + Len(got)
            /\ \A i \in 1..Len(buf) : (buf \o got)[i] = buf[i]
            /\ Len(buf) \in Nat /\ Len(got) \in Nat
        BY <2>0, ConcatProperties
      <4>3. \A i \in 1..Len(buf) : i \in 1..(Len(buf) + Len(got))
        BY <4>2
      <4>4. Len(buf) <= Len(sent)
        BY <4>1, <4>2 DEF Part
      <4> QED
        BY <4>1, <4>2, <4>3, <4>4 DEF Part
    <3>3. CASE pc = "parse"
      BY <3>3 DEF Inv, ReceiveInv
    <3> QED
      BY <3>1, <3>2, <3>3
  <2>3. pc \in {"recv", "receiving", "parse"} => IsPrefixOf(buf, sent)
    BY <2>0, <2>2, PartIsPrefix
  <2>4. pc = "parse" => buf = sent \/ Len(buf) = BufSize
    BY <2>0, <2>2, PartIsWhole DEF Inv, ReceiveInv
  <2> QED
    BY <2>1, <2>3, <2>4 DEF ResponseComplete
<1> QED
  BY <1>1, HttpClientInvariance, PTL

(* httpApplicationPost gives back its socket and its memory on every path, *)
(* but for the sockets of failed connects and the blocks of its answers.   *)
THEOREM PostsAccounted == Spec => []PostAccounted
<1>1. Inv => PostAccounted
  <2> SUFFICES ASSUME Inv PROVE PostAccounted
    OBVIOUS
  <2>1. BlocksLostPerPost
    BY DEF Inv, HeapInv, BlocksLostPerPost, Undefined, DataTypes
  <2> QED
    BY <2>1 DEF PostAccounted, Inv
<1> QED
  BY <1>1, HttpClientInvariance, PTL
=============================================================================
