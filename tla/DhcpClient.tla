----------------------------- MODULE DhcpClient -----------------------------
(***************************************************************************)
(* The DHCP client of lwIP 2.0.2 (dhcp.c), which the performance client    *)
(* runs, on each of several hosts, and the network between them and a      *)
(* server.  A host of lenient accepts an offer that does not name its      *)
(* server, as the clients of other systems do; dhcp.c does not.            *)
(*                                                                         *)
(* A transaction of host h is <<h, xid>>: chaddr and xid, which a reply    *)
(* repeats.  A timer counts as running or not (armed); what makes a timer  *)
(* expire is not modelled, so it may at any time.  The server here sends   *)
(* no NAK.                                                                 *)
(***************************************************************************)
EXTENDS DhcpOptions

CONSTANTS
    Hosts,
    LenientSets,   \* the sets of hosts that may do without a server identifier
    RequestTries,  \* how often a DHCPREQUEST is repeated (5 in dhcp_timeout)
    MaxXid,        \* bound on the transactions of each host
    MaxFlight,     \* bound on the datagrams under way in each direction
    Conflict       \* another machine may answer the ARP check of an address

ASSUME ClientAssumption ==
    /\ LenientSets \subseteq SUBSET Hosts
    /\ RequestTries \in Nat \ {0} /\ MaxXid \in Nat \ {0}
    /\ MaxFlight \in Nat \ {0} /\ Conflict \in BOOLEAN

DHCP_DECLINE == 4
SERVER_ID    == 54

VARIABLES
    lenient,   \* the hosts that do without a server identifier
    cl,        \* struct dhcp of each host, and whether its interface has the address
    toServer,  \* datagrams on their way to port 67
    toClient,  \* replies on their way: whom they are for, and their options
    ignored,   \* history: hosts that were sent an offer without server identifier
    wasted,    \* history: a DHCPACK was lost, or came too late
    declined   \* history: hosts that declined their address

clientVars == <<lenient, cl, toServer, toClient, ignored, wasted, declined>>
States == {"OFF", "SELECTING", "REQUESTING", "CHECKING", "BACKING_OFF",
           "BOUND", "REBINDING"}
Negotiating == {"SELECTING", "REQUESTING", "CHECKING", "BACKING_OFF"}

ClientInit ==
    /\ lenient \in LenientSets
    /\ cl = [h \in Hosts |-> [state |-> "OFF", xid |-> 0, tries |-> 0, armed |-> FALSE,
                              has |-> FALSE, expires |-> FALSE, rebinds |-> FALSE]]
    /\ toServer = {} /\ toClient = {}
    /\ ignored = {} /\ wasted = FALSE /\ declined = {}

(* dhcp_set_state, then a message of that type: dhcp_create_msg takes a    *)
(* new transaction for a first try of anything but a request.              *)
Entered(c, state) ==
    IF c.state = state THEN c ELSE [c EXCEPT !.state = state, !.tries = 0, !.armed = FALSE]
(* tries, up to the number that dhcp_timeout asks for.                     *)
Saturated(n) == IF n > RequestTries THEN RequestTries + 1 ELSE n
Created(c, type) == IF type # DHCP_REQUEST /\ c.tries = 0 THEN [c EXCEPT !.xid = @ + 1] ELSE c
(* (Fault variant: the timer is not started.)                              *)
TriedUntimed(c) == [c EXCEPT !.tries = Saturated(@ + 1)]
Tried(c) == [c EXCEPT !.tries = Saturated(@ + 1), !.armed = TRUE]
Sending(c, state, type) == Tried(Created(Entered(c, state), type))

(* What dhcp_discover, dhcp_select, dhcp_renew, dhcp_rebind and            *)
(* dhcp_decline send: the type first, then what is asked for.              *)
Message(h, xid, type) ==
    [client |-> <<h, xid>>, src |-> <<0, 0, 0, 0>>, len |-> 300, op |-> BOOTREQUEST,
     hlen |-> 6, cookie |-> dhcpMagicCookie,
     opts |-> <<[id |-> DHCP_MESSAGE_TYPE, data |-> <<type>>]>>
              \o IF type = DHCP_DECLINE THEN <<>>
                 ELSE <<[id |-> PARAMETER_REQUEST_LIST, data |-> <<SUBNET_MASK, ROUTER>>]>>]

(* The network: a datagram that is sent joins those under way, or is lost. *)
Sent(flight, d) == {flight} \union {f \in {flight \union {d}} : Cardinality(f) <= MaxFlight}

(* Host h goes from c into a state and sends; c.xid stays in its bound.    *)
Sends(h, c, state, type) ==
    LET d == Sending(c, state, type) IN
    /\ d.xid <= MaxXid
    /\ cl' = [cl EXCEPT ![h] = d]
    /\ toServer' \in Sent(toServer, Message(h, d.xid, type))

-----------------------------------------------------------------------------
dhcp_start(h) ==
    /\ cl[h].state = "OFF"
    /\ Sends(h, cl[h], "SELECTING", DHCP_DISCOVER)
    /\ UNCHANGED <<lenient, toClient, ignored, wasted, declined>>

(* dhcp_check: an ARP query for the address, no DHCP message.              *)
dhcp_check(c) == Tried(Entered(c, "CHECKING"))

(* dhcp_bind: the lease expires unless it is infinite.  T1 and T2 are half *)
(* and 7/8 of it, but both are capped at 65535 minutes; T2 is looked at    *)
(* first, and (t0_timeout - lease_used) / 2 = 0 does not start it again:   *)
(* one rebinding, and the renewal that falls due after it does nothing.    *)
(* (Fault variant: an infinite lease is not told from others.)             *)
ExpiresAlways(lease) == TRUE
Expires(lease) == lease # infLeaseTime
dhcp_bind(c) == [Entered(c, "BOUND") EXCEPT !.has = TRUE, !.rebinds = TRUE]

(* dhcp_release: off, no timer of the lease runs, no address.              *)
dhcp_release(c) ==
    [Entered(c, "OFF") EXCEPT !.has = FALSE, !.expires = FALSE, !.rebinds = FALSE]

(* dhcp_timeout, when the timer runs out.                                  *)
GivesUp(c) == c.tries > RequestTries
dhcp_timeout(h) ==
    LET c == [cl[h] EXCEPT !.armed = FALSE] IN
    /\ cl[h].armed
    /\ \/ /\ c.state \in {"BACKING_OFF", "SELECTING"}
          /\ Sends(h, c, "SELECTING", DHCP_DISCOVER)
       \/ /\ c.state = "REQUESTING" /\ ~GivesUp(c)
          /\ Sends(h, c, "REQUESTING", DHCP_REQUEST)
       \/ /\ c.state = "REQUESTING" /\ GivesUp(c)
          /\ Sends(h, dhcp_release(c), "SELECTING", DHCP_DISCOVER)
       \/ /\ c.state = "CHECKING"
          /\ cl' = [cl EXCEPT ![h] = IF c.tries <= 1 THEN dhcp_check(c) ELSE dhcp_bind(c)]
          /\ UNCHANGED toServer
       \/ /\ c.state \in {"BOUND", "REBINDING"}
          /\ cl' = [cl EXCEPT ![h] = c] /\ UNCHANGED toServer
    /\ UNCHANGED <<lenient, toClient, ignored, wasted, declined>>

(* dhcp_coarse_tmr, when a timer of the lease runs out: it is given up if  *)
(* it expires, and rebound otherwise.                                      *)
dhcp_coarse_tmr(h) ==
    LET c == cl[h] IN
    /\ c.has /\ (c.expires \/ c.rebinds)
    /\ IF c.expires THEN Sends(h, dhcp_release(c), "SELECTING", DHCP_DISCOVER)
                    ELSE Sends(h, [c EXCEPT !.rebinds = FALSE], "REBINDING", DHCP_REQUEST)
    /\ UNCHANGED <<lenient, toClient, ignored, wasted, declined>>

(* dhcp_arp_reply from another machine: dhcp_decline.                      *)
dhcp_arp_reply(h) ==
    /\ Conflict /\ cl[h].state = "CHECKING"
    /\ Sends(h, cl[h], "BACKING_OFF", DHCP_DECLINE)
    /\ declined' = declined \union {h}
    /\ UNCHANGED <<lenient, toClient, ignored, wasted>>

(* dhcp_recv.  A reply for another host or an older transaction is not     *)
(* taken; of the others, an offer while selecting and an ack while         *)
(* requesting or rebinding matter.  dhcp_handle_offer goes on only if the  *)
(* server is named, when the timer has already been stopped.               *)
(* (Fault variants: the transaction is not compared; an ack is expected    *)
(* before the request.)                                                    *)
ForHostAny(h, m) == m.wire # <<>>
ForHost(h, m) == m.to = <<h, cl[h].xid>> /\ m.wire # <<>>
AckStatesEarly == {"SELECTING", "REBINDING"}
AckStates == {"REQUESTING", "REBINDING"}
MsgType(m) == seachForOption(m.wire, DHCP_MESSAGE_TYPE).data[1]
Lease(m) ==
    IF HasOption(m.wire, IP_ADDRESS_LEASE_TIME)
    THEN seachForOption(m.wire, IP_ADDRESS_LEASE_TIME).data ELSE <<>>
dhcp_recv(h, m) ==
    LET c == cl[h] IN
    /\ m \in toClient /\ ForHost(h, m)
    /\ toClient' = toClient \ {m}
    /\ \/ /\ MsgType(m) = DHCP_OFFER /\ c.state = "SELECTING"
          /\ IF HasOption(m.wire, SERVER_ID) \/ h \in lenient
             THEN Sends(h, c, "REQUESTING", DHCP_REQUEST) /\ UNCHANGED ignored
             ELSE /\ cl' = [cl EXCEPT ![h].armed = FALSE]
                  /\ ignored' = ignored \union {h}
                  /\ UNCHANGED toServer
       \/ /\ MsgType(m) = DHCP_ACK /\ c.state \in AckStates
          /\ LET taken == IF c.state = "REBINDING" THEN dhcp_bind(c) ELSE dhcp_check(c)
             IN  cl' = [cl EXCEPT ![h] = [taken EXCEPT !.expires = Expires(Lease(m))]]
          /\ UNCHANGED <<ignored, toServer>>
       \/ /\ c.state \notin (IF MsgType(m) = DHCP_OFFER THEN {"SELECTING"} ELSE AckStates)
          /\ UNCHANGED <<cl, ignored, toServer>>
    /\ UNCHANGED <<lenient, wasted, declined>>

ClientStep(h) ==
    \/ dhcp_start(h) \/ dhcp_timeout(h) \/ dhcp_coarse_tmr(h) \/ dhcp_arp_reply(h)

(* A reply that no host takes any more.                                    *)
IsAckMsg(m) == m.wire # <<>> /\ MsgType(m) = DHCP_ACK
Unclaimed(m) ==
    /\ m \in toClient /\ \A h \in Hosts : ~ForHost(h, m)
    /\ toClient' = toClient \ {m}
    /\ wasted' = (wasted \/ IsAckMsg(m))
    /\ UNCHANGED <<lenient, cl, toServer, ignored, declined>>
=============================================================================
