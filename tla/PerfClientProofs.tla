-------------------------- MODULE PerfClientProofs --------------------------
(***************************************************************************)
(* Theorems about PerfClient: for any intervals, any number of sends and   *)
(* of changes of the address.                                              *)
(***************************************************************************)
EXTENDS PerfClient, SequenceTheorems, TLAPS

(* What main_thread has done, by the place where it is.                    *)
Waits  == {"create", "test", "suspend", "suspended"}
Before == Waits \union {"poll", "open"} \union Fields
MainInv ==
    /\ main \in Waits => mscnt = 0
    /\ main = "poll" => mscnt < DhcpRounds
    /\ main \in Before => sock = "none" /\ conn = "none"
    /\ main \in Before \union {"connect"} => printed = [bytes |-> 0, time |-> 0]
    /\ conn \in {"syn", "up"} => main \in {"connect", "sending", "close"}
    /\ main = "sending" => client.start <= now /\ client.iStart <= now

(* What is left of netif_set_addr: nothing, or a rest of one of its two    *)
(* sequences.                                                              *)
ScanNone  == <<"scan", "ip", "mask", "gw", "none">>
IpNone    == <<"ip", "mask", "gw", "none">>
MaskNone  == <<"mask", "gw", "none">>
GwNone    == <<"gw", "none">>
MaskLease == <<"mask", "gw", "scan", "ip", "lease">>
GwLease   == <<"gw", "scan", "ip", "lease">>
ScanLease == <<"scan", "ip", "lease">>
IpLease   == <<"ip", "lease">>
Queues == {<<>>, ScanNone, IpNone, MaskNone, GwNone, MaskLease, GwLease, ScanLease, IpLease}
StoresInv == stores \in [Stacks -> Queues]

(* The fields that are still to be stored, by a thread of lwIP and by      *)
(* assign_default_ip: they agree, and the others have their new value.     *)
Left(q) == {f \in Fields : \E i \in 1..Len(q) : q[i] = f}
LeftOfMain == CASE main = "ip" -> Fields [] main = "mask" -> {"mask", "gw"}
                [] main = "gw" -> {"gw"} [] OTHER -> {}
Halfway(left, origin) ==
    /\ \A f \in Fields \ left : netif[f] = origin
    /\ \A f, g \in left : netif[f] = netif[g]

(* Without overlap one thread stores at a time.                            *)
AddressInv ==
    ~overlap =>
        /\ \A t \in Stacks : stores[t] # <<>> =>
              /\ main \notin Fields
              /\ \A u \in Stacks : u # t => stores[u] = <<>>
              /\ Halfway(Left(stores[t]), stores[t][Len(stores[t])])
        /\ main \in Fields => Halfway(LeftOfMain, "default")
        /\ MixedOnlyByOverlap

(* A connection has the address of the interface, and nobody is about to   *)
(* store another one: the connection is aborted just before.               *)
ConnInv ==
    conn \in {"syn", "up"} /\ ~unlocked =>
        /\ local = netif["ip"] /\ local # "none"
        /\ \A t \in Stacks : stores[t] # <<>> => stores[t][1] # "ip"

Inv == /\ TypeOK /\ MainInv /\ StoresInv /\ BytesAccounted /\ IntervalsInSession
       /\ SocketClosed /\ AddressInv /\ ConnInv

-----------------------------------------------------------------------------
(* What is left of netif_set_addr: its next step, the origin it stores,    *)
(* the fields in it, and what is left after a step.                        *)
LEMMA QueueFacts ==
    /\ /\ ScanNone # <<>> /\ ScanNone[1] = "scan" /\ ScanNone[Len(ScanNone)] = "none"
       /\ Left(ScanNone) = Fields /\ StepOf(ScanNone) = IpNone
    /\ /\ IpNone # <<>> /\ IpNone[1] = "ip" /\ IpNone[Len(IpNone)] = "none"
       /\ Left(IpNone) = Fields /\ StepOf(IpNone) = MaskNone
    /\ /\ MaskNone # <<>> /\ MaskNone[1] = "mask" /\ MaskNone[Len(MaskNone)] = "none"
       /\ Left(MaskNone) = {"mask", "gw"} /\ StepOf(MaskNone) = GwNone
    /\ /\ GwNone # <<>> /\ GwNone[1] = "gw" /\ GwNone[Len(GwNone)] = "none"
       /\ Left(GwNone) = {"gw"} /\ StepOf(GwNone) = <<>>
    /\ /\ MaskLease # <<>> /\ MaskLease[1] = "mask" /\ MaskLease[Len(MaskLease)] = "lease"
       /\ Left(MaskLease) = Fields /\ StepOf(MaskLease) = GwLease
    /\ /\ GwLease # <<>> /\ GwLease[1] = "gw" /\ GwLease[Len(GwLease)] = "lease"
       /\ Left(GwLease) = {"gw", "ip"} /\ StepOf(GwLease) = ScanLease
    /\ /\ ScanLease # <<>> /\ ScanLease[1] = "scan" /\ ScanLease[Len(ScanLease)] = "lease"
       /\ Left(ScanLease) = {"ip"} /\ StepOf(ScanLease) = IpLease
    /\ /\ IpLease # <<>> /\ IpLease[1] = "ip" /\ IpLease[Len(IpLease)] = "lease"
       /\ Left(IpLease) = {"ip"} /\ StepOf(IpLease) = <<>>
<1>1. /\ ScanNone # <<>> /\ ScanNone[1] = "scan" /\ ScanNone[Len(ScanNone)] = "none"
      /\ Left(ScanNone) = Fields /\ StepOf(ScanNone) = IpNone
  <2>1. /\ ScanNone # <<>> /\ Len(ScanNone) = 5
        /\ ScanNone[1] = "scan" /\ ScanNone[2] = "ip" /\ ScanNone[3] = "mask"
        /\ ScanNone[4] = "gw" /\ ScanNone[5] = "none"
    BY DEF ScanNone
  <2>2. StepOf(ScanNone) = IpNone
    BY DEF StepOf, ScanNone, IpNone
  <2>3. Left(ScanNone) = Fields
    BY <2>1 DEF Left, Fields
  <2> QED
    BY <2>1, <2>2, <2>3
<1>2. /\ IpNone # <<>> /\ IpNone[1] = "ip" /\ IpNone[Len(IpNone)] = "none"
      /\ Left(IpNone) = Fields /\ StepOf(IpNone) = MaskNone
  <2>1. /\ IpNone # <<>> /\ Len(IpNone) = 4
        /\ IpNone[1] = "ip" /\ IpNone[2] = "mask" /\ IpNone[3] = "gw" /\ IpNone[4] = "none"
    BY DEF IpNone
  <2>2. StepOf(IpNone) = MaskNone
    BY DEF StepOf, IpNone, MaskNone
  <2>3. Left(IpNone) = Fields
    BY <2>1 DEF Left, Fields
  <2> QED
    BY <2>1, <2>2, <2>3
<1>3. /\ MaskNone # <<>> /\ MaskNone[1] = "mask" /\ MaskNone[Len(MaskNone)] = "none"
      /\ Left(MaskNone) = {"mask", "gw"} /\ StepOf(MaskNone) = GwNone
  <2>1. /\ MaskNone # <<>> /\ Len(MaskNone) = 3
        /\ MaskNone[1] = "mask" /\ MaskNone[2] = "gw" /\ MaskNone[3] = "none"
    BY DEF MaskNone
  <2>2. StepOf(MaskNone) = GwNone
    BY DEF StepOf, MaskNone, GwNone
  <2>3. Left(MaskNone) = {"mask", "gw"}
    BY <2>1 DEF Left, Fields
  <2> QED
    BY <2>1, <2>2, <2>3
<1>4. /\ GwNone # <<>> /\ GwNone[1] = "gw" /\ GwNone[Len(GwNone)] = "none"
      /\ Left(GwNone) = {"gw"} /\ StepOf(GwNone) = <<>>
  <2>1. /\ GwNone # <<>> /\ Len(GwNone) = 2
        /\ GwNone[1] = "gw" /\ GwNone[2] = "none"
    BY DEF GwNone
  <2>2. StepOf(GwNone) = <<>>
    BY DEF StepOf, GwNone
  <2>3. Left(GwNone) = {"gw"}
    BY <2>1 DEF Left, Fields
  <2> QED
    BY <2>1, <2>2, <2>3
<1>5. /\ MaskLease # <<>> /\ MaskLease[1] = "mask" /\ MaskLease[Len(MaskLease)] = "lease"
      /\ Left(MaskLease) = Fields /\ StepOf(MaskLease) = GwLease
  <2>1. /\ MaskLease # <<>> /\ Len(MaskLease) = 5
        /\ MaskLease[1] = "mask" /\ MaskLease[2] = "gw" /\ MaskLease[3] = "scan"
        /\ MaskLease[4] = "ip" /\ MaskLease[5] = "lease"
    BY DEF MaskLease
  <2>2. StepOf(MaskLease) = GwLease
    BY DEF StepOf, MaskLease, GwLease
  <2>3. Left(MaskLease) = Fields
    BY <2>1 DEF Left, Fields
  <2> QED
    BY <2>1, <2>2, <2>3
<1>6. /\ GwLease # <<>> /\ GwLease[1] = "gw" /\ GwLease[Len(GwLease)] = "lease"
      /\ Left(GwLease) = {"gw", "ip"} /\ StepOf(GwLease) = ScanLease
  <2>1. /\ GwLease # <<>> /\ Len(GwLease) = 4
        /\ GwLease[1] = "gw" /\ GwLease[2] = "scan" /\ GwLease[3] = "ip" /\ GwLease[4] = "lease"
    BY DEF GwLease
  <2>2. StepOf(GwLease) = ScanLease
    BY DEF StepOf, GwLease, ScanLease
  <2>3. Left(GwLease) = {"gw", "ip"}
    BY <2>1 DEF Left, Fields
  <2> QED
    BY <2>1, <2>2, <2>3
<1>7. /\ ScanLease # <<>> /\ ScanLease[1] = "scan" /\ ScanLease[Len(ScanLease)] = "lease"
      /\ Left(ScanLease) = {"ip"} /\ StepOf(ScanLease) = IpLease
  <2>1. /\ ScanLease # <<>> /\ Len(ScanLease) = 3
        /\ ScanLease[1] = "scan" /\ ScanLease[2] = "ip" /\ ScanLease[3] = "lease"
    BY DEF ScanLease
  <2>2. StepOf(ScanLease) = IpLease
    BY DEF StepOf, ScanLease, IpLease
  <2>3. Left(ScanLease) = {"ip"}
    BY <2>1 DEF Left, Fields
  <2> QED
    BY <2>1, <2>2, <2>3
<1>8. /\ IpLease # <<>> /\ IpLease[1] = "ip" /\ IpLease[Len(IpLease)] = "lease"
      /\ Left(IpLease) = {"ip"} /\ StepOf(IpLease) = <<>>
  <2>1. /\ IpLease # <<>> /\ Len(IpLease) = 2
        /\ IpLease[1] = "ip" /\ IpLease[2] = "lease"
    BY DEF IpLease
  <2>2. StepOf(IpLease) = <<>>
    BY DEF StepOf, IpLease
  <2>3. Left(IpLease) = {"ip"}
    BY <2>1 DEF Left, Fields
  <2> QED
    BY <2>1, <2>2, <2>3
<1> QED
  BY <1>1, <1>2, <1>3, <1>4, <1>5, <1>6, <1>7, <1>8

(* The seconds counted of a duration are never more than the duration.     *)
LEMMA SecondsCut ==
    ASSUME NEW last \in Nat, NEW d \in Nat, NEW time \in Nat, last * Second <= time
    PROVE  Last(last, d) \in Nat /\ Last(last, d) * Second <= time + d
<1>1. Second \in Nat /\ Second > 0
  BY PerfAssumption
<1>2. d \div Second \in Nat /\ (d \div Second) * Second <= d
  BY <1>1
<1>3. PICK k \in Nat : k = d \div Second
  BY <1>2
<1>4. (last + k) * Second = last * Second + k * Second
  BY <1>1
<1>5. last * Second \in Nat /\ k * Second \in Nat
  BY <1>1
<1> QED
  BY <1>2, <1>3, <1>4, <1>5 DEF Last

(* The parts of the invariant that follow the session: where main_thread   *)
(* is, its socket and its statistics.                                      *)
SessionInv == TypeOK /\ MainInv /\ BytesAccounted /\ IntervalsInSession /\ SocketClosed

(* The variables that AddressInv and ConnInv read.                         *)
LEMMA AddressKept ==
    ASSUME AddressInv, UNCHANGED <<netif, stores, overlap>>,
           main' = main \/ (main \notin Fields /\ main' \notin Fields)
    PROVE  AddressInv'
<1>1. /\ netif' = netif /\ stores' = stores /\ overlap' = overlap
      /\ (main' \in Fields) = (main \in Fields)
  OBVIOUS
<1>2. main' \in Fields => LeftOfMain' = LeftOfMain
  BY DEF LeftOfMain
<1>3. MixedOnlyByOverlap => MixedOnlyByOverlap'
  BY <1>1 DEF MixedOnlyByOverlap
<1> QED
  BY <1>1, <1>2, <1>3 DEF AddressInv, Halfway

(* The variables ConnInv reads; a connection may end, and none is made.    *)
LEMMA ConnKept ==
    ASSUME ConnInv, UNCHANGED <<netif, stores, local, unlocked>>,
           conn' \in {"syn", "up"} => conn \in {"syn", "up"}
    PROVE  ConnInv'
BY DEF ConnInv

(* A step outside the session; a connection may end in it.                 *)
LEMMA SessionKept ==
    ASSUME SessionInv, TypeOK', UNCHANGED <<main, mscnt, session>>,
           conn' = conn \/ (conn # "none" /\ conn' \notin {"none", "syn", "up"})
    PROVE  SessionInv'
<1>1. /\ main' = main /\ mscnt' = mscnt /\ sock' = sock /\ now' = now
      /\ client' = client /\ printed' = printed
  BY DEF session
<1>2. MainInv'
  BY <1>1 DEF SessionInv, MainInv
<1> QED
  BY <1>1, <1>2 DEF SessionInv, BytesAccounted, IntervalsInSession, SocketClosed

(* The initial states satisfy the invariant.                               *)
LEMMA InitInv == Init => Inv
<1> SUFFICES ASSUME Init PROVE Inv
  OBVIOUS
<1>1. DhcpRounds \in Nat /\ DhcpRounds > 0 /\ Burst \in Nat /\ MaxChanges \in Nat
  BY PerfAssumption
<1>2. TypeOK
  <2>1. client \in [start : Nat, total : Nat, iStart : Nat, iTotal : Nat, last : Nat]
    BY DEF Init, NoStats
  <2>2. netif \in [Fields -> Origins] /\ printed \in [bytes : Nat, time : Nat]
    BY DEF Init, Origins
  <2>3. mscnt \in 0..DhcpRounds /\ now \in Nat /\ sent \in 0..Burst /\ changes \in 0..MaxChanges
    BY <1>1 DEF Init
  <2>4. /\ complete_nw_thread \in BOOLEAN /\ overlap \in BOOLEAN /\ unlocked \in BOOLEAN
        /\ local \in Origins
    BY DEF Init, Origins
  <2> QED
    BY <2>1, <2>2, <2>3, <2>4 DEF Init, TypeOK
<1>3. MainInv
  BY DEF Init, MainInv, Before, Waits, Fields
<1>4. StoresInv
  BY DEF Init, StoresInv, Queues
<1>5. BytesAccounted /\ IntervalsInSession /\ SocketClosed
  BY DEF Init, BytesAccounted, IntervalsInSession, SocketClosed
<1>6. AddressInv /\ ConnInv
  BY DEF Init, AddressInv, ConnInv, MixedOnlyByOverlap, Fields
<1> QED
  BY <1>2, <1>3, <1>4, <1>5, <1>6 DEF Inv

(* main_thread before its wait: no socket, no statistics.                  *)
LEMMA MainStartInv ==
    ASSUME Inv, MainStart
    PROVE  Inv'
<1>1. /\ UNCHANGED <<complete_nw_thread, mscnt, conn, local, unlocked, sock, now, client, sent,
                      printed, netif, stores, changes, overlap>>
      /\ main \in Waits \ {"suspended"} /\ main' \in (Waits \union {"poll"}) \ {"create"}
      /\ nw' \in {nw, "add"}
  BY DEF MainStart, session, address, Waits
<1>2. DhcpRounds \in Nat /\ DhcpRounds > 0
  BY PerfAssumption
<1>3. main' \notin Fields /\ main \notin Fields
  BY <1>1 DEF Waits, Fields
<1>4. TypeOK'
  BY <1>1 DEF Inv, TypeOK, Waits
<1>5. MainInv'
  BY <1>1, <1>2 DEF Inv, MainInv, Waits, Before
<1>6. BytesAccounted' /\ IntervalsInSession' /\ SocketClosed'
  BY <1>1 DEF BytesAccounted, IntervalsInSession, SocketClosed, Waits
<1>7. AddressInv'
  BY <1>1, <1>3, AddressKept DEF Inv
<1>8. ConnInv'
  BY <1>1, ConnKept DEF Inv
<1>9. StoresInv'
  BY <1>1 DEF Inv, StoresInv
<1> QED
  BY <1>4, <1>5, <1>6, <1>7, <1>8, <1>9 DEF Inv

(* network_thread resumes main_thread, and nothing else.                   *)
LEMMA NetworkStartInv ==
    ASSUME Inv, NetworkStart
    PROVE  Inv'
<1>1. /\ UNCHANGED <<mscnt, conn, local, unlocked, sock, now, client, sent,
                      printed, netif, stores, changes, overlap>>
      /\ main' = main \/ (main = "suspended" /\ main' = "poll")
      /\ nw' \in {"flag", "returned", "resume", "dhcp"}
  BY DEF NetworkStart, FlagAndResume, session, address
<1>2. DhcpRounds \in Nat /\ DhcpRounds > 0
  BY PerfAssumption
<1>3. main' = main \/ (main' \notin Fields /\ main \notin Fields)
  BY <1>1 DEF Fields
<1>4. complete_nw_thread' \in BOOLEAN
  BY DEF NetworkStart, FlagAndResume, Inv, TypeOK
<1>5. TypeOK'
  BY <1>1, <1>4 DEF Inv, TypeOK
<1>6. MainInv'
  BY <1>1, <1>2 DEF Inv, MainInv, Waits, Before
<1>7. BytesAccounted' /\ IntervalsInSession' /\ SocketClosed'
  BY <1>1 DEF Inv, BytesAccounted, IntervalsInSession, SocketClosed
<1>8. AddressInv'
  BY <1>1, <1>3, AddressKept DEF Inv
<1>9. ConnInv' /\ StoresInv'
  BY <1>1, ConnKept DEF Inv, StoresInv
<1> QED
  BY <1>5, <1>6, <1>7, <1>8, <1>9 DEF Inv

(* The wait ends with an address, or with the decision to store a default  *)
(* one: an overlap unless nobody else is storing.                          *)
LEMMA WaitForLeaseInv ==
    ASSUME Inv, WaitForLease
    PROVE  Inv'
<1>1. /\ UNCHANGED <<nw, complete_nw_thread, conn, local, unlocked, sock, client, sent,
                      printed, netif, stores, changes>>
      /\ main = "poll" /\ main' \in {"open", "ip", "poll"} /\ now' = now + 1
      /\ overlap' = (overlap \/ (main' = "ip" /\ \E t \in Stacks : stores[t] # <<>>))
  BY DEF WaitForLease
<1>2. /\ DhcpRounds \in Nat /\ mscnt \in Nat /\ mscnt < DhcpRounds /\ now \in Nat
      /\ mscnt' \in {mscnt, mscnt + 1}
      /\ main' = "poll" => mscnt' < DhcpRounds
  BY <1>1, PerfAssumption, SMTT(30) DEF WaitForLease, TimedOut, Inv, TypeOK, MainInv
<1>3. mscnt' \in 0..DhcpRounds /\ now' \in Nat
  BY <1>1, <1>2
<1>4. overlap' \in BOOLEAN
  BY <1>1 DEF Inv, TypeOK
<1>5. TypeOK'
  BY <1>1, <1>3, <1>4 DEF Inv, TypeOK, Fields
<1>6. MainInv'
  BY <1>1, <1>2 DEF Inv, MainInv, Waits, Before, Fields
<1>7. BytesAccounted' /\ IntervalsInSession' /\ SocketClosed'
  BY <1>1 DEF BytesAccounted, IntervalsInSession, SocketClosed
<1>8. AddressInv'
  <2>1. CASE main' = "ip" /\ ~overlap'
    <3>1. \A t \in Stacks : stores[t] = <<>>
      BY <1>1, <2>1
    <3>2. ~overlap /\ \A f, g \in Fields : netif[f] = netif[g]
      BY <1>1, <2>1, <3>1 DEF Inv, AddressInv, MixedOnlyByOverlap, Fields
    <3>3. LeftOfMain' = Fields
      BY <2>1 DEF LeftOfMain
    <3>4. Halfway(LeftOfMain, "default")'
      BY <1>1, <3>2, <3>3 DEF Halfway
    <3>5. MixedOnlyByOverlap'
      BY <2>1 DEF MixedOnlyByOverlap, Fields
    <3> QED
      BY <1>1, <3>1, <3>4, <3>5 DEF AddressInv
  <2>2. CASE overlap'
    BY <2>2 DEF AddressInv
  <2>3. CASE main' # "ip"
    <3>1. overlap' = overlap /\ main \notin Fields /\ main' \notin Fields
      BY <1>1, <2>3 DEF Inv, TypeOK, Fields
    <3> QED
      BY <1>1, <3>1, AddressKept DEF Inv
  <2> QED
    BY <2>1, <2>2, <2>3
<1>9. ConnInv' /\ StoresInv'
  BY <1>1, ConnKept DEF Inv, StoresInv
<1> QED
  BY <1>5, <1>6, <1>7, <1>8, <1>9 DEF Inv

(* A store of assign_default_ip; without overlap it has the interface to   *)
(* itself, and there is no connection yet.                                 *)
LEMMA AssignDefaultInv ==
    ASSUME Inv, assign_default_ip
    PROVE  Inv'
<1>1. /\ UNCHANGED <<nw, complete_nw_thread, mscnt, conn, local, unlocked, sock, now, client,
                      sent, printed, stores, changes, overlap>>
      /\ main \in Fields /\ main' = AfterStore(main)
      /\ netif' = [netif EXCEPT ![main] = "default"]
  BY DEF assign_default_ip, session
<1>2. netif \in [Fields -> Origins] /\ netif' \in [Fields -> Origins]
  BY <1>1 DEF Inv, TypeOK, Origins
<1>3. main' \in {"mask", "gw", "open"}
  BY <1>1 DEF AfterStore, Fields
<1>4. TypeOK'
  BY <1>1, <1>2, <1>3 DEF Inv, TypeOK, Fields
<1>5. MainInv' /\ conn = "none"
  BY <1>1, <1>3 DEF Inv, MainInv, Waits, Before, Fields
<1>6. BytesAccounted' /\ IntervalsInSession' /\ SocketClosed'
  BY <1>3 DEF BytesAccounted, IntervalsInSession, SocketClosed
<1>7. AddressInv'
  <2> SUFFICES ASSUME ~overlap PROVE AddressInv'
    BY <1>1 DEF AddressInv
  <2>1. Halfway(LeftOfMain, "default") /\ \A t \in Stacks : stores[t] = <<>>
    BY <1>1 DEF Inv, AddressInv
  <2>2. main' \in Fields => Halfway(LeftOfMain, "default")'
    BY <1>1, <1>2, <2>1 DEF LeftOfMain, Halfway, AfterStore, Fields
  <2>3. main' \notin Fields => \A f, g \in Fields : netif'[f] = netif'[g]
    BY <1>1, <1>2, <2>1 DEF LeftOfMain, Halfway, AfterStore, Fields
  <2> QED
    BY <1>1, <2>1, <2>2, <2>3 DEF AddressInv, MixedOnlyByOverlap
<1>8. ConnInv' /\ StoresInv'
  BY <1>1, <1>5 DEF Inv, ConnInv, StoresInv
<1> QED
  BY <1>4, <1>5, <1>6, <1>7, <1>8 DEF Inv

(* A call of netif_set_addr begins; without overlap it has the interface   *)
(* to itself.                                                              *)
LEMMA SetAddrInv ==
    ASSUME Inv, NEW t \in Stacks, NEW o \in {"none", "lease"}, netif_set_addr(t, o)
    PROVE  Inv'
<1>1. /\ UNCHANGED <<main, nw, complete_nw_thread, mscnt, conn, local, unlocked, sock, now,
                      client, sent, printed, netif>>
      /\ UNCHANGED session
      /\ changes < MaxChanges /\ changes' = changes + 1 /\ stores[t] = <<>>
      /\ overlap' = (overlap \/ main \in Fields \/ \E u \in Stacks : stores[u] # <<>>)
  BY DEF netif_set_addr, session, threads
<1>2. PICK q \in {ScanNone, MaskLease} : stores' = [stores EXCEPT ![t] = q]
  BY DEF netif_set_addr, ScanNone, MaskLease
<1>3. StoresInv' /\ stores'[t] = q /\ \A u \in Stacks : u # t => stores'[u] = stores[u]
  BY <1>2 DEF Inv, StoresInv, Queues
<1>4. overlap' \in BOOLEAN
  BY <1>1 DEF Inv, TypeOK
<1>5. changes' \in 0..MaxChanges
  BY <1>1, PerfAssumption DEF Inv, TypeOK
<1>6. TypeOK'
  BY <1>1, <1>4, <1>5 DEF Inv, TypeOK
<1>7. SessionInv'
  BY <1>1, <1>6, SessionKept DEF Inv, SessionInv
<1>8. AddressInv'
  <2> SUFFICES ASSUME ~overlap' PROVE AddressInv'
    BY DEF AddressInv
  <2>1. ~overlap /\ main \notin Fields /\ \A u \in Stacks : stores[u] = <<>>
    BY <1>1
  <2>2. \A f, g \in Fields : netif[f] = netif[g]
    BY <2>1 DEF Inv, AddressInv, MixedOnlyByOverlap
  <2>3. q # <<>> /\ Left(q) = Fields
    BY <1>2, QueueFacts
  <2>4. Halfway(Left(q), q[Len(q)])'
    BY <1>1, <2>2, <2>3 DEF Halfway
  <2>5. \A u \in Stacks : u # t => stores'[u] = <<>>
    BY <1>3, <2>1
  <2>6. MixedOnlyByOverlap'
    BY <1>3, <2>3 DEF MixedOnlyByOverlap
  <2> QED
    BY <1>1, <1>3, <2>1, <2>3, <2>4, <2>5, <2>6 DEF AddressInv
<1>9. ConnInv'
  <2>1. q[1] # "ip"
    BY <1>2, QueueFacts
  <2> QED
    BY <1>1, <1>3, <2>1 DEF Inv, ConnInv
<1> QED
  BY <1>3, <1>6, <1>7, <1>8, <1>9 DEF Inv, SessionInv

(* A step of netif_set_addr: what is left follows the queue, the field     *)
(* stored is the head of the queue, and a connection of the old address is *)
(* aborted before the address is stored.                                   *)
LEMMA StoreInv ==
    ASSUME Inv, NEW t \in Stacks, Store(t)
    PROVE  Inv'
<1>1. PICK q \in Queues : q = stores[t]
  BY DEF Inv, StoresInv
<1>2. PICK o : o = q[Len(q)]
  OBVIOUS
<1>3. /\ q # <<>>
      /\ UNCHANGED <<main, nw, complete_nw_thread, mscnt, local, unlocked, sock, now,
                      client, sent, printed, changes, overlap>>
      /\ UNCHANGED session
      /\ stores' = [stores EXCEPT ![t] = IF q[1] = "scan" /\ netif["ip"] = o
                                         THEN StepOf(StepOf(q)) ELSE StepOf(q)]
      /\ netif' = IF q[1] = "scan" THEN netif ELSE [netif EXCEPT ![q[1]] = o]
      /\ conn' = IF q[1] = "scan" /\ Aborted(o) THEN "dead" ELSE conn
  BY <1>1, <1>2 DEF Store, session, threads
<1>4. PICK r : stores'[t] = r /\ r = IF q[1] = "scan" /\ netif["ip"] = o
                                     THEN StepOf(StepOf(q)) ELSE StepOf(q)
  BY <1>3 DEF Inv, StoresInv
<1>5. /\ o \in {"none", "lease"} /\ r \in Queues
      /\ q[1] # "scan" => q[1] \in Fields /\ q[1] \in Left(q)
  BY <1>1, <1>2, <1>3, <1>4, QueueFacts DEF Queues, Fields
<1>6. StoresInv' /\ \A u \in Stacks : u # t => stores'[u] = stores[u]
  BY <1>3, <1>4, <1>5 DEF Inv, StoresInv
<1>7. /\ netif \in [Fields -> Origins] /\ netif' \in [Fields -> Origins]
      /\ q[1] = "scan" => netif' = netif
      /\ q[1] # "scan" => netif'[q[1]] = o /\ \A f \in Fields : f # q[1] => netif'[f] = netif[f]
  BY <1>3, <1>5 DEF Inv, TypeOK, Origins
<1>8. TypeOK'
  BY <1>3, <1>7 DEF Inv, TypeOK
<1>9. SessionInv'
  BY <1>3, <1>8, SessionKept DEF Inv, SessionInv, Aborted
<1>10. AddressInv'
  <2> SUFFICES ASSUME ~overlap PROVE AddressInv'
    BY <1>3 DEF AddressInv
  <2>1. /\ main \notin Fields /\ Halfway(Left(q), o)
        /\ \A u \in Stacks : u # t => stores[u] = <<>>
    BY <1>1, <1>2, <1>3 DEF Inv, AddressInv
  <2>2. /\ r # <<>> => r[Len(r)] = o /\ Halfway(Left(r), o)'
        /\ r = <<>> => \A f \in Fields : netif'[f] = o
    <3>1. CASE q = ScanNone
      <4>1. /\ netif' = netif /\ Left(q) = Fields /\ o = "none" /\ q[1] = "scan"
            /\ r = IF netif["ip"] = "none" THEN MaskNone ELSE IpNone
        BY <1>2, <1>4, <1>7, <3>1, QueueFacts
      <4> QED
        BY <2>1, <4>1, QueueFacts DEF Halfway, Fields
    <3>2. CASE q = ScanLease
      <4>1. /\ netif' = netif /\ Left(q) = {"ip"} /\ o = "lease" /\ q[1] = "scan"
            /\ r = IF netif["ip"] = "lease" THEN <<>> ELSE IpLease
        BY <1>2, <1>4, <1>7, <3>2, QueueFacts
      <4> QED
        BY <2>1, <4>1, QueueFacts DEF Halfway, Fields
    <3>3. CASE q \notin {ScanNone, ScanLease}
      <4>1. q[1] # "scan" /\ r = StepOf(q)
        BY <1>1, <1>3, <1>4, <3>3, QueueFacts DEF Queues
      <4>2. /\ q[1] \in Fields /\ netif'[q[1]] = o
            /\ \A f \in Fields : f # q[1] => netif'[f] = netif[f]
        BY <1>5, <1>7, <4>1
      <4>3. /\ r # <<>> => r[Len(r)] = o /\ Left(r) = Left(q) \ {q[1]}
            /\ r = <<>> => Left(q) = {q[1]}
        BY <1>1, <1>2, <1>3, <3>3, <4>1, QueueFacts DEF Queues, Fields
      <4>4. r # <<>> => Halfway(Left(r), o)'
        <5> SUFFICES ASSUME r # <<>> PROVE Halfway(Left(r), o)'
          OBVIOUS
        <5>1. \A f \in Fields \ Left(r) : netif'[f] = o
          BY <2>1, <4>2, <4>3 DEF Halfway
        <5>2. \A f \in Left(r) : f \in Left(q) /\ netif'[f] = netif[f]
          BY <4>2, <4>3 DEF Left
        <5>3. \A f, g \in Left(r) : netif'[f] = netif'[g]
          BY <2>1, <5>2 DEF Halfway
        <5> QED
          BY <5>1, <5>3 DEF Halfway, Left
      <4>5. r = <<>> => \A f \in Fields : netif'[f] = o
        BY <2>1, <4>2, <4>3 DEF Halfway
      <4> QED
        BY <4>3, <4>4, <4>5
    <3> QED
      BY <3>1, <3>2, <3>3
  <2>3. MixedOnlyByOverlap'
    BY <1>4, <2>2 DEF MixedOnlyByOverlap
  <2>4. \A u \in Stacks : stores'[u] # <<>> => u = t /\ stores'[u] = r
    BY <1>4, <1>6, <2>1
  <2>5. \A u \in Stacks : stores'[u] # <<>> =>
          Halfway(Left(stores[u]), stores[u][Len(stores[u])])'
    BY <2>2, <2>4 DEF Halfway
  <2> QED
    BY <1>3, <2>1, <2>3, <2>4, <2>5 DEF AddressInv
<1>11. ConnInv'
  <2> SUFFICES ASSUME conn' \in {"syn", "up"}, ~unlocked PROVE ConnInv'
    BY <1>3 DEF ConnInv
  <2>1. /\ conn' = conn /\ ~(q[1] = "scan" /\ Aborted(o))
        /\ local = netif["ip"] /\ local # "none" /\ local' = local
        /\ \A u \in Stacks : stores[u] # <<>> => stores[u][1] # "ip"
    BY <1>3 DEF Inv, ConnInv
  <2>2. q[1] # "ip"
    BY <1>1, <1>3, <2>1
  <2>3. netif'["ip"] = netif["ip"]
    BY <1>7, <2>2 DEF Fields
  <2>4. q[1] = "scan" => netif["ip"] = o
    BY <2>1 DEF Aborted
  <2>5. r # <<>> => r[1] # "ip"
    BY <1>1, <1>3, <1>4, <2>2, <2>4, QueueFacts DEF Queues
  <2> QED
    BY <1>4, <1>6, <2>1, <2>3, <2>5 DEF ConnInv
<1> QED
  BY <1>6, <1>8, <1>9, <1>10, <1>11 DEF Inv, SessionInv

(* start_application opens the socket, or ends without one.                *)
LEMMA OpenSocketInv ==
    ASSUME Inv, OpenSocket
    PROVE  Inv'
<1>1. /\ UNCHANGED <<nw, complete_nw_thread, mscnt, now, client, sent, printed, conn, local,
                      unlocked, netif, stores, changes, overlap>>
      /\ main = "open" /\ main' \in {"connect", "deleted"}
      /\ main' = "connect" => sock' = "open"
      /\ main' = "deleted" => sock' = sock
      /\ sock = "none" /\ conn = "none" /\ sock' \in {"none", "open"}
  BY DEF OpenSocket, address, Inv, MainInv, Before
<1>2. main' \notin Fields /\ main \notin Fields
  BY <1>1 DEF Fields
<1>3. TypeOK'
  BY <1>1 DEF Inv, TypeOK
<1>4. MainInv'
  BY <1>1, <1>2 DEF Inv, MainInv, Waits, Before
<1>5. BytesAccounted' /\ IntervalsInSession' /\ SocketClosed'
  BY <1>1 DEF BytesAccounted, IntervalsInSession, SocketClosed
<1>6. AddressInv' /\ ConnInv' /\ StoresInv'
  BY <1>1, <1>2, AddressKept, ConnKept DEF Inv, StoresInv
<1> QED
  BY <1>3, <1>4, <1>5, <1>6 DEF Inv

(* tcp_connect takes the address of the interface; the lwIP thread is not  *)
(* storing one, and a store by network_thread is recorded in unlocked.     *)
LEMMA ConnectInv ==
    ASSUME Inv, Connect
    PROVE  Inv'
<1>1. /\ UNCHANGED <<main, nw, complete_nw_thread, mscnt, sock, now, client, sent, printed,
                      netif, stores, changes, overlap>>
      /\ main = "connect" /\ stores["tcpip"] = <<>>
      /\ conn' = IF netif["ip"] = "none" THEN "dead" ELSE "syn"
      /\ local' = netif["ip"]
      /\ unlocked' = (unlocked \/ stores["nw"] # <<>>)
  BY DEF Connect, CoreLockFree, threads, session, address
<1>2. unlocked' \in BOOLEAN
  BY <1>1 DEF Inv, TypeOK
<1>3. local' \in Origins
  BY <1>1 DEF Inv, TypeOK, Fields
<1>4. TypeOK'
  BY <1>1, <1>2, <1>3 DEF Inv, TypeOK
<1>5. MainInv'
  BY <1>1 DEF Inv, MainInv, Before, Waits, Fields
<1>6. BytesAccounted' /\ IntervalsInSession' /\ SocketClosed'
  BY <1>1 DEF BytesAccounted, IntervalsInSession, SocketClosed
<1>7. AddressInv' /\ StoresInv'
  BY <1>1, AddressKept DEF Inv, StoresInv
<1>8. ConnInv'
  BY <1>1 DEF ConnInv, Stacks
<1> QED
  BY <1>4, <1>5, <1>6, <1>7, <1>8 DEF Inv

(* The peer answers, refuses or resets.                                    *)
LEMMA PeerInv ==
    ASSUME Inv, Peer
    PROVE  Inv'
<1>1. /\ UNCHANGED <<main, nw, complete_nw_thread, mscnt, sock, now, client, sent, printed,
                      netif, stores, changes, overlap, local, unlocked>>
      /\ conn \in {"syn", "up"} /\ conn' \in {"up", "dead"}
  BY DEF Peer, threads, session, address
<1>2. TypeOK'
  BY <1>1 DEF Inv, TypeOK
<1>3. MainInv'
  BY <1>1 DEF Inv, MainInv, Before
<1>4. BytesAccounted' /\ IntervalsInSession' /\ SocketClosed'
  BY <1>1 DEF Inv, BytesAccounted, IntervalsInSession, SocketClosed
<1>5. AddressInv' /\ StoresInv' /\ ConnInv'
  BY <1>1, AddressKept, ConnKept DEF Inv, StoresInv
<1> QED
  BY <1>2, <1>3, <1>4, <1>5 DEF Inv

(* The session starts with all its statistics 0 but for its start.         *)
LEMMA ConnectReturnsInv ==
    ASSUME Inv, ConnectReturns
    PROVE  Inv'
<1>1. /\ UNCHANGED <<nw, complete_nw_thread, mscnt, sock, now, sent, printed, conn, local,
                      unlocked, netif, stores, changes, overlap>>
      /\ main = "connect" /\ main' \in {"sending", "close"}
      /\ main' = "sending" => client' = [NoStats EXCEPT !.start = now]
      /\ main' = "close" => client' = client
  BY DEF ConnectReturns, address
<1>2. main' \notin Fields /\ main \notin Fields
  BY <1>1 DEF Fields
<1>3. main' = "sending" =>
         client' = [start |-> now, total |-> 0, iStart |-> 0, iTotal |-> 0, last |-> 0]
  BY <1>1 DEF NoStats
<1>4. printed = [bytes |-> 0, time |-> 0] /\ now \in Nat /\ Second \in Nat
  BY <1>1, PerfAssumption DEF Inv, TypeOK, MainInv
<1>5. client' \in [start : Nat, total : Nat, iStart : Nat, iTotal : Nat, last : Nat]
  BY <1>1, <1>3, <1>4 DEF Inv, TypeOK
<1>6. TypeOK'
  BY <1>1, <1>5 DEF Inv, TypeOK
<1>7. MainInv'
  BY <1>1, <1>2, <1>3, <1>4 DEF Inv, MainInv, Waits, Before
<1>8. BytesAccounted' /\ SocketClosed'
  BY <1>1, <1>3, <1>4 DEF BytesAccounted, SocketClosed
<1>9. IntervalsInSession'
  BY <1>1, <1>3, <1>4 DEF IntervalsInSession
<1>10. AddressInv' /\ ConnInv' /\ StoresInv'
  BY <1>1, <1>2, AddressKept, ConnKept DEF Inv, StoresInv
<1> QED
  BY <1>6, <1>7, <1>8, <1>9, <1>10 DEF Inv

(* A tick lengthens the session and the running interval alike.            *)
LEMMA TickInv ==
    ASSUME Inv, Tick
    PROVE  Inv'
<1>1. /\ UNCHANGED <<main, nw, complete_nw_thread, mscnt, sock, client, printed, conn, local,
                      unlocked, netif, stores, changes, overlap>>
      /\ main = "sending" /\ now' = now + 1 /\ sent' = 0
  BY DEF Tick, threads, address
<1>2. /\ now \in Nat /\ client.start \in Nat /\ client.iStart \in Nat /\ printed.time \in Nat
      /\ Burst \in Nat
  BY PerfAssumption DEF Inv, TypeOK
<1>3. TypeOK'
  BY <1>1, <1>2 DEF Inv, TypeOK
<1>4. MainInv'
  BY <1>1, <1>2 DEF Inv, MainInv, Before, Waits
<1>5. BytesAccounted' /\ SocketClosed'
  BY <1>1 DEF Inv, BytesAccounted, SocketClosed
<1>6. IntervalsInSession'
  BY <1>1, <1>2 DEF Inv, IntervalsInSession
<1>7. AddressInv' /\ StoresInv' /\ ConnInv'
  BY <1>1, AddressKept, ConnKept DEF Inv, StoresInv
<1> QED
  BY <1>3, <1>4, <1>5, <1>6, <1>7 DEF Inv

(* The end of start_application.                                           *)
LEMMA CloseInv ==
    ASSUME Inv, Close
    PROVE  Inv'
<1>1. /\ UNCHANGED <<nw, complete_nw_thread, mscnt, now, client, sent, printed, local,
                      unlocked, netif, stores, changes, overlap>>
      /\ main = "close" /\ main' = "deleted" /\ sock' = "closed" /\ conn' = "dead"
  BY DEF Close, address
<1>2. main' \notin Fields /\ main \notin Fields
  BY <1>1 DEF Fields
<1>3. TypeOK'
  BY <1>1 DEF Inv, TypeOK
<1>4. MainInv'
  BY <1>1, <1>2 DEF MainInv, Before, Waits
<1>5. BytesAccounted' /\ IntervalsInSession' /\ SocketClosed'
  BY <1>1 DEF BytesAccounted, IntervalsInSession, SocketClosed
<1>6. AddressInv' /\ StoresInv' /\ ConnInv'
  BY <1>1, <1>2, AddressKept, ConnKept DEF Inv, StoresInv
<1> QED
  BY <1>3, <1>4, <1>5, <1>6 DEF Inv

(* The statistics, and the statistics with a send counted.                 *)
Stats == [start : Nat, total : Nat, iStart : Nat, iTotal : Nat, last : Nat]
Counted == [start |-> client.start, total |-> client.total + 1, iStart |-> client.iStart,
            iTotal |-> client.iTotal + 1, last |-> client.last]
(* What a send does to the statistics: tcp_send_perf_traffic counts it,    *)
(* and reports and restarts the interval, or starts one.                   *)
LEMMA Statistics ==
    ASSUME now \in Nat, client \in Stats
    PROVE  /\ Count(client) = Counted
           /\ ReportDue(Counted) <=>
                client.iStart # 0 /\ now - client.iStart >= REPORT_INTERVAL_TIME
           /\ ReportDue(Counted) =>
                Reported(Counted) =
                  [start |-> client.start, total |-> client.total + 1, iStart |-> 0,
                   iTotal |-> 0, last |-> Last(client.last, now - client.iStart)]
           /\ ~ReportDue(Counted) =>
                Reported(Counted) =
                  [start |-> client.start, total |-> client.total + 1,
                   iStart |-> IF client.iStart = 0 THEN now ELSE client.iStart,
                   iTotal |-> client.iTotal + 1, last |-> client.last]
<1>1. client = [start |-> client.start, total |-> client.total, iStart |-> client.iStart,
                iTotal |-> client.iTotal, last |-> client.last]
  BY DEF Stats
<1>2. Count(client) = Counted
  <2>1. PICK s \in Nat, b \in Nat, i \in Nat, n \in Nat, l \in Nat :
          client = [start |-> s, total |-> b, iStart |-> i, iTotal |-> n, last |-> l]
    BY <1>1 DEF Stats
  <2>2. PICK c : c = [start |-> s, total |-> b, iStart |-> i, iTotal |-> n, last |-> l]
    OBVIOUS
  <2>3. Count(c) = [start |-> s, total |-> b + 1, iStart |-> i, iTotal |-> n + 1, last |-> l]
    <3>1. PICK x \in Nat, y \in Nat : x = b + 1 /\ y = n + 1
      OBVIOUS
    <3>2. c.total + 1 = x /\ c.iTotal + 1 = y
      BY <2>2, <3>1
    <3>3. PICK d : d = [c EXCEPT !.total = x]
      OBVIOUS
    <3>4. Count(c) = [d EXCEPT !.iTotal = y]
      BY <3>2, <3>3, Zenon DEF Count
    <3>5. d = [start |-> s, total |-> x, iStart |-> i, iTotal |-> n, last |-> l]
      BY <2>2, <3>3
    <3>6. [d EXCEPT !.iTotal = y] = [start |-> s, total |-> x, iStart |-> i, iTotal |-> y, last |-> l]
      BY <3>5
    <3> QED
      BY <3>1, <3>4, <3>6
  <2>4. Counted = [start |-> s, total |-> b + 1, iStart |-> i, iTotal |-> n + 1, last |-> l]
    BY <2>1 DEF Counted
  <2> QED
    BY <2>1, <2>2, <2>3, <2>4
<1>3. ReportDue(Counted) <=> client.iStart # 0 /\ now - client.iStart >= REPORT_INTERVAL_TIME
  BY DEF ReportDue, Counted
<1>4. ReportDue(Counted) => Reported(Counted) =
         [start |-> client.start, total |-> client.total + 1, iStart |-> 0,
          iTotal |-> 0, last |-> Last(client.last, now - client.iStart)]
  <2>1. ReportDue(Counted) => Reported(Counted) =
          [Counted EXCEPT !.last = Last(Counted.last, now - Counted.iStart), !.iStart = 0, !.iTotal = 0]
    BY DEF Reported
  <2> QED
    BY <2>1 DEF Counted
<1>5. ~ReportDue(Counted) => Reported(Counted) =
         [start |-> client.start, total |-> client.total + 1,
          iStart |-> IF client.iStart = 0 THEN now ELSE client.iStart,
          iTotal |-> client.iTotal + 1, last |-> client.last]
  BY DEF Reported, Counted
<1> QED
  BY <1>2, <1>3, <1>4, <1>5

(* A send keeps the books: what leaves the running interval is printed,    *)
(* and the seconds kept of it are no more than the time printed.           *)
LEMMA SendReturnsInv ==
    ASSUME Inv, SendReturns
    PROVE  Inv'
<1>1. /\ UNCHANGED <<nw, complete_nw_thread, mscnt, sock, now, conn, local, unlocked, netif,
                      stores, changes, overlap>>
      /\ main = "sending" /\ main' \in {"sending", "close"}
  BY DEF SendReturns, address
<1>2. main' \notin Fields /\ main \notin Fields
  BY <1>1 DEF Fields
<1>3. PICK s \in Nat, b \in Nat, i \in Nat, n \in Nat, l \in Nat :
         client = [start |-> s, total |-> b, iStart |-> i, iTotal |-> n, last |-> l]
  BY DEF Inv, TypeOK
<1>4. PICK p \in Nat, t \in Nat : printed = [bytes |-> p, time |-> t]
  BY DEF Inv, TypeOK
<1>5. /\ now \in Nat /\ s <= now /\ i <= now /\ p + n = b
      /\ t + (IF i = 0 THEN 0 ELSE now - i) <= now - s
      /\ l * Second <= t
  BY <1>1, <1>3, <1>4 DEF Inv, TypeOK, MainInv, BytesAccounted, IntervalsInSession
<1>6. sent' \in 0..Burst
  BY PerfAssumption DEF SendReturns, Inv, TypeOK
<1>7. /\ client' \in [start : Nat, total : Nat, iStart : Nat, iTotal : Nat, last : Nat]
      /\ printed' \in [bytes : Nat, time : Nat]
      /\ main' = "sending" =>
           /\ client'.start <= now /\ client'.iStart <= now
           /\ printed'.bytes + client'.iTotal = client'.total
           /\ printed'.time + (IF client'.iStart = 0 THEN 0 ELSE now - client'.iStart)
                <= now - client'.start
           /\ client'.last * Second <= printed'.time
  <2>1. PICK c : c = Count(client) /\ c = Counted
    BY <1>5, Statistics DEF Inv, TypeOK, Stats
  <2> USE DEF Stats
  <2>2. CASE conn = "up" /\ ReportDue(c)
    <3>1. i # 0 /\ now - i \in Nat
      BY <1>3, <1>5, <2>1, <2>2, Statistics
    <3>2. PICK k \in Nat : k = Last(l, now - i) /\ k * Second <= t + (now - i)
      BY <1>5, <3>1, SecondsCut
    <3>3. /\ c.iTotal = n + 1 /\ c.iStart = i
          /\ Reported(c) = [start |-> s, total |-> b + 1, iStart |-> 0, iTotal |-> 0, last |-> k]
      BY <1>3, <1>5, <2>1, <2>2, <3>2, Statistics DEF Counted
    <3>4. /\ printed' = [bytes |-> p + (n + 1), time |-> t + now - i]
          /\ \/ main' = "close" /\ client' = [Reported(c) EXCEPT !.last = 0]
             \/ main' = "sending" /\ client' = Reported(c)
      BY <1>4, <2>1, <2>2, <3>3 DEF SendReturns
    <3>5. client' = [start |-> s, total |-> b + 1, iStart |-> 0, iTotal |-> 0, last |-> client'.last]
          /\ client'.last \in {0, k} /\ (main' = "sending" => client'.last = k)
      BY <3>3, <3>4
    <3>6. PICK v \in Nat : v = client'.last
      BY <3>5
    <3>7. client' = [start |-> s, total |-> b + 1, iStart |-> 0, iTotal |-> 0, last |-> v]
      BY <3>5, <3>6
    <3>8. t + now - i \in Nat /\ t + now - i = t + (now - i) /\ t + now - i <= now - s
      BY <1>5, <3>1
    <3>9. k * Second <= printed'.time
      BY <3>2, <3>4, <3>8
    <3>10. /\ client' \in [start : Nat, total : Nat, iStart : Nat, iTotal : Nat, last : Nat]
           /\ printed' \in [bytes : Nat, time : Nat]
      BY <3>4, <3>7, <3>8
    <3> QED
      BY <1>5, <3>4, <3>5, <3>6, <3>7, <3>8, <3>9, <3>10
  <2>3. CASE conn = "up" /\ ~ReportDue(c)
    <3>1. PICK j \in Nat : j = IF i = 0 THEN now ELSE i
      BY <1>5
    <3>2. Reported(c) = [start |-> s, total |-> b + 1, iStart |-> j, iTotal |-> n + 1, last |-> l]
      BY <1>3, <1>5, <2>1, <2>3, <3>1, Statistics
    <3>3. /\ printed' = printed
          /\ \/ main' = "close" /\ client' = [Reported(c) EXCEPT !.last = 0]
             \/ main' = "sending" /\ client' = Reported(c)
      BY <2>1, <2>3 DEF SendReturns
    <3>4. PICK v \in {0, l} : /\ client' = [start |-> s, total |-> b + 1, iStart |-> j,
                                            iTotal |-> n + 1, last |-> v]
                              /\ main' = "sending" => v = l
      BY <3>2, <3>3
    <3>5. /\ client' \in [start : Nat, total : Nat, iStart : Nat, iTotal : Nat, last : Nat]
          /\ printed' \in [bytes : Nat, time : Nat]
      BY <1>4, <3>3, <3>4
    <3>6. j <= now /\ t + (IF j = 0 THEN 0 ELSE now - j) <= now - s
      BY <1>5, <3>1
    <3> QED
      BY <1>4, <1>5, <3>3, <3>4, <3>5, <3>6
  <2>4. CASE conn = "dead"
    <3>1. client' = [client EXCEPT !.last = 0] /\ main' = "close" /\ printed' = printed
      BY <2>4 DEF SendReturns
    <3>2. client' = [start |-> s, total |-> b, iStart |-> i, iTotal |-> n, last |-> 0]
      BY <1>3, <3>1
    <3>3. client' \in [start : Nat, total : Nat, iStart : Nat, iTotal : Nat, last : Nat]
      BY <3>2
    <3>4. printed' \in [bytes : Nat, time : Nat]
      BY <3>1 DEF Inv, TypeOK
    <3> QED
      BY <3>1, <3>3, <3>4
  <2> QED
    BY <2>2, <2>3, <2>4 DEF SendReturns
<1>8. TypeOK'
  BY <1>1, <1>6, <1>7 DEF Inv, TypeOK
<1>9. MainInv'
  BY <1>1, <1>2, <1>7 DEF Inv, MainInv, Before, Waits
<1>10. BytesAccounted' /\ IntervalsInSession' /\ SocketClosed'
  BY <1>1, <1>7 DEF BytesAccounted, IntervalsInSession, SocketClosed
<1>11. AddressInv' /\ StoresInv' /\ ConnInv'
  BY <1>1, <1>2, AddressKept, ConnKept DEF Inv, StoresInv
<1> QED
  BY <1>8, <1>9, <1>10, <1>11 DEF Inv

(* Every step keeps the invariant.                                         *)
LEMMA NextInv ==
    ASSUME Inv, [Next]_vars
    PROVE  Inv'
<1>1. CASE UNCHANGED vars
  <2>1. UNCHANGED <<main, nw, complete_nw_thread, netif, stores, mscnt, conn, local, sock, now,
                    client, sent, changes, printed, overlap, unlocked>>
    BY <1>1 DEF vars
  <2>2. TypeOK' /\ MainInv' /\ StoresInv'
    BY <2>1 DEF Inv, TypeOK, MainInv, StoresInv
  <2>3. BytesAccounted' /\ IntervalsInSession' /\ SocketClosed'
    BY <2>1 DEF Inv, BytesAccounted, IntervalsInSession, SocketClosed
  <2>4. AddressInv' /\ ConnInv'
    BY <2>1, AddressKept, ConnKept DEF Inv
  <2> QED
    BY <2>2, <2>3, <2>4 DEF Inv
<1>2. CASE MainStep
  BY <1>2, MainStartInv, WaitForLeaseInv, AssignDefaultInv, OpenSocketInv, ConnectInv,
     ConnectReturnsInv, CloseInv DEF MainStep
<1>3. CASE NetworkStart \/ Peer \/ Tick \/ SendReturns
  BY <1>3, NetworkStartInv, PeerInv, TickInv, SendReturnsInv
<1>4. CASE \E t \in Stacks : Store(t) \/ \E o \in {"none", "lease"} : netif_set_addr(t, o)
  BY <1>4, StoreInv, SetAddrInv
<1> QED
  BY <1>1, <1>2, <1>3, <1>4 DEF Next

-----------------------------------------------------------------------------
(* The inductive invariant: main_thread's place, its books and socket, and *)
(* what the threads that store addresses have left to do.                  *)
THEOREM PerfClientInvariance == Spec => []Inv
BY InitInv, NextInv, PTL DEF Spec

(* tcp_send_perf_traffic and tcp_conn_report: over any number of sends and *)
(* reports the interim reports and the running interval account for every  *)
(* byte and for no more than the time of the session, the seconds printed  *)
(* are never ahead of it, and no way out leaves the socket open.           *)
THEOREM SessionsAccounted == Spec => []SessionConsistent
<1>1. Inv => SessionConsistent
  BY DEF Inv, SessionConsistent
<1> QED
  BY <1>1, PerfClientInvariance, PTL

(* netif_set_addr against assign_default_ip and tcp_connect: the addresses *)
(* of the interface come from one source, and a connection has the address *)
(* of the interface, but for the two races of the code: two threads store  *)
(* at once, or the connection is made inside network_thread's call.        *)
THEOREM AddressesFromOneSource == Spec => []AddressesConsistent
<1>1. Inv => AddressesConsistent
  <2> SUFFICES ASSUME Inv PROVE AddressesConsistent
    OBVIOUS
  <2>1. MixedOnlyByOverlap
    BY DEF Inv, AddressInv, MixedOnlyByOverlap
  <2>2. ConnectionHasAddress
    BY DEF Inv, ConnInv, ConnectionHasAddress
  <2> QED
    BY <2>1, <2>2 DEF AddressesConsistent
<1> QED
  BY <1>1, PerfClientInvariance, PTL
=============================================================================
