---------------------------- MODULE DhcpExchange ----------------------------
(***************************************************************************)
(* DhcpServer and the hosts of DhcpClient on one cable.  Datagrams may be  *)
(* lost in either direction, and a reply may arrive after its transaction  *)
(* was given up; nothing is duplicated but by the clients' own retries.    *)
(***************************************************************************)
EXTENDS DhcpServer, DhcpClient

(* What the hosts send can reach port 67.                                  *)
ASSUME ExchangeAssumption ==
    \A h \in Hosts, xid \in 1..MaxXid, type \in {DHCP_DISCOVER, DHCP_REQUEST, DHCP_DECLINE} :
        Message(h, xid, type) \in Datagrams

serverVars == vars
allVars == <<vars, clientVars>>

ExchangeInit == Init /\ ClientInit

(* A step of dhcpTask.  What sendDhcpReply broadcasts is on the network,   *)
(* unless it is lost; acks has an ack that sendto took.                    *)
Broadcasts == pc = "reply" /\ returnStatus # 0
Server ==
    /\ dhcpTask
    /\ IF Broadcasts
       THEN /\ toClient' \in Sent(toClient, hdr)
            /\ hdr \in toClient' => (IsAck(hdr) => acks' # acks)
            /\ wasted' = (wasted \/ (IsAck(hdr) /\ hdr \notin toClient'))
       ELSE UNCHANGED <<toClient, wasted>>
    /\ UNCHANGED <<lenient, cl, toServer, ignored, declined>>

(* A datagram reaches the mailbox of the server.                           *)
Deliver(d) ==
    /\ d \in toServer
    /\ Arrive(d)
    /\ toServer' = toServer \ {d}
    /\ UNCHANGED <<lenient, cl, toClient, ignored, wasted, declined>>

Host(h) == ClientStep(h) /\ UNCHANGED serverVars
Replies ==
    /\ \E m \in toClient : Unclaimed(m) \/ \E h \in Hosts : dhcp_recv(h, m)
    /\ UNCHANGED serverVars
Network == Replies \/ \E d \in toServer : Deliver(d)

ExchangeNext == Server \/ Network \/ \E h \in Hosts : Host(h)
ExchangeSpec == ExchangeInit /\ [][ExchangeNext]_allVars

(* dhcpTask is time-sliced with its equals, the hosts' timers run out, and *)
(* a reply arrives or is lost.  Nothing says that a request arrives.       *)
ExchangeFair ==
    /\ ExchangeSpec
    /\ WF_allVars(Server)
    /\ WF_allVars(Replies)
    /\ \A h \in Hosts : WF_allVars(dhcp_timeout(h) /\ UNCHANGED serverVars)

-----------------------------------------------------------------------------
(* Type invariant.                                                         *)
ExchangeTypeOK ==
    /\ TypeOK
    /\ cl \in [Hosts -> [state : States, xid : 0..MaxXid, tries : 0..(RequestTries + 1),
                         armed : BOOLEAN, has : BOOLEAN, expires : BOOLEAN,
                         rebinds : BOOLEAN]]
    /\ toServer \subseteq Datagrams /\ Cardinality(toServer) <= MaxFlight
    /\ Cardinality(toClient) <= MaxFlight

(* The address is on at most one host, and that is the one the server      *)
(* acknowledged it to, although every reply is a broadcast, both hosts may *)
(* have been offered the address, and acks arrive late.                    *)
Holders == {h \in Hosts : cl[h].has}
OneHolder ==
    /\ Cardinality(Holders) <= 1
    /\ \A h \in Holders : \E i \in DOMAIN acks : acks[i][1] = h

(* A host keeps the address: the lease is infinite, so it survives that    *)
(* the server answers no renewal.                                          *)
LeaseKept == [][\A h \in Hosts : cl[h].has => cl'[h].has]_allVars

(* A negotiation always has a timer that repeats it, unless an offer that  *)
(* does not name its server stopped the timer and was then dropped.        *)
StalledOnlyByOffer ==
    \A h \in Hosts : cl[h].state \in Negotiating /\ ~cl[h].armed =>
        h \in ignored \ lenient /\ cl[h].state = "SELECTING"

(* The state that both ends share is sound: no host waits for an answer    *)
(* without a timer for any other reason.                                   *)
NegotiationTimed == ExchangeTypeOK /\ StalledOnlyByOffer

(* The server stops with its first DHCPACK and repeats nothing.  Then some *)
(* host gets the address, unless that ack was lost or late, or the host    *)
(* found the address in use.                                               *)
AckedHostIsBound ==
    pc = "suspended" ~> Holders # {} \/ wasted \/ declined # {}

-----------------------------------------------------------------------------
(* dhcp.c:446 "This timer checks whether an outstanding DHCP request is    *)
(* timed out": a request that is outstanding has its timer running.        *)
OutstandingIsTimed ==
    \A h \in Hosts : cl[h].state \in Negotiating => cl[h].armed
=============================================================================
