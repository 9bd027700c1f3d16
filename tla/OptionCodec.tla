----------------------------- MODULE OptionCodec -----------------------------
(***************************************************************************)
(* The bytes of the options: parseDhcpOptionList walks the options area of *)
(* a received header, the handlers answer, serializeOptionList writes the  *)
(* answer into the options area of the reply (options.c, dhcpServer.c).    *)
(* DhcpServer models the same code over areas that hold well-formed        *)
(* options; here the area holds any bytes, and the pointers move.          *)
(*                                                                         *)
(* One request is followed from its area to the area of its reply.  pc is  *)
(* "readPast" or "writtenPast" once an access has left the area.           *)
(***************************************************************************)
EXTENDS DhcpOptions

CONSTANTS
    AreaSize,    \* sizeof options (308, dhcp.h); a reply with both parameters
                 \* takes 22 bytes
    Areas,       \* what the area may hold: recvfrom leaves the bytes behind
                 \* the datagram zero
    MaxRefused   \* how many mallocs of the parser may be refused

END == 255

ASSUME CodecAssumption ==
    /\ AreaSize \in Nat /\ AreaSize >= 22
    /\ Areas \subseteq [1..AreaSize -> Byte]
    /\ MaxRefused \in Nat

VARIABLES
    pc,
    area,      \* requestMsg.hdr.options
    rp,        \* optionArrayPtr of parseDhcpOptionList
    opts,      \* requestMsg.opts
    refused,   \* mallocs refused so far
    reply,     \* replyMsg.opts
    out,       \* replyMsg.hdr.options
    wp,        \* optionArrPtr of serializeOptionList
    next       \* its optionPtr, as an index of reply

parseVars == <<area, rp, opts, refused>>
replyVars == <<reply, out, wp, next>>
vars == <<pc, parseVars, replyVars>>

Init ==
    /\ pc = "first"
    /\ area \in Areas
    /\ rp = 1 /\ opts = <<>> /\ refused = 0
    /\ reply = <<>> /\ out = [i \in 1..AreaSize |-> 0] /\ wp = 1 /\ next = 1

(* The outcomes of a malloc.                                               *)
Malloc == {m \in [ok : BOOLEAN] : m.ok \/ refused < MaxRefused}
Cost(m) == IF m.ok THEN 0 ELSE 1

-----------------------------------------------------------------------------
(* The head of parseDhcpOptionList: nothing to parse, or the first node,   *)
(* whose malloc is not checked.                                            *)
ParseFirst ==
    /\ pc = "first"
    /\ IF area[1] = END
       THEN pc' = "dispatch" /\ UNCHANGED refused
       ELSE \E m \in Malloc :
              /\ pc' = IF m.ok THEN "parse" ELSE "nullDeref"
              /\ refused' = refused + Cost(m)
    /\ UNCHANGED <<area, rp, opts, replyVars>>

(* parseDhcpOption returns how far the pointer moves: not at all when the  *)
(* data could not be allocated.                                            *)
ParsedLength(len, m) == IF m.ok THEN len + 2 ELSE 0

(* The END test after an option.                                           *)
(* (Fault variant: it looks at the length byte of the next option.)        *)
AtEndLate(p) == p < AreaSize /\ area[p + 1] = END
AtEnd(p) == area[p] = END

(* One round of the loop: parseDhcpOption at rp into the current node, the *)
(* END test at the moved pointer, the next node.  All accesses are byte    *)
(* reads at and behind rp; nothing compares rp with the size of the area.  *)
(* (A node without data keeps the length, here as that many zeros.)        *)
ParseRound ==
    /\ pc = "parse"
    /\ \E m \in Malloc :
         IF rp = AreaSize \/ (m.ok /\ rp + 1 + area[rp + 1] > AreaSize)
         THEN pc' = "readPast" /\ UNCHANGED parseVars
         ELSE LET len == area[rp + 1]
                  p   == rp + ParsedLength(len, m)
                  data == [i \in 1..len |-> IF m.ok THEN area[rp + 1 + i] ELSE 0]
              IN  /\ opts' = Append(opts, createOption(area[rp], data, m))
                  /\ rp' = p
                  /\ UNCHANGED area
                  /\ IF p > AreaSize
                     THEN pc' = "readPast" /\ refused' = refused + Cost(m)
                     ELSE IF AtEnd(p)
                     THEN pc' = "dispatch" /\ refused' = refused + Cost(m)
                     ELSE \E n \in Malloc :
                            /\ refused + Cost(m) + Cost(n) <= MaxRefused
                            /\ pc' = IF n.ok THEN "parse" ELSE "dispatch"
                            /\ refused' = refused + Cost(m) + Cost(n)
    /\ UNCHANGED replyVars

(* The parameters a request asks for, and the list the handlers build for  *)
(* a reply of type k: its type, every known parameter each time it is      *)
(* asked for, the lease.  (DhcpServer has the mallocs of this part.)       *)
Asked(list) ==
    IF HasOption(list, PARAMETER_REQUEST_LIST)
    THEN seachForOption(list, PARAMETER_REQUEST_LIST).data ELSE <<>>
AskedIsNull(list) ==
    Asked(list) # <<>> /\ ~seachForOption(list, PARAMETER_REQUEST_LIST).ok
(* Of the first k parameters, those the server knows.                      *)
KnownOf(asked) ==
    LET known[k \in 0..Len(asked)] ==
          IF k = 0 THEN <<>>
          ELSE IF asked[k] \in DOMAIN Answers THEN Append(known[k - 1], asked[k])
          ELSE known[k - 1]
    IN  known
(* (Fault variant: the case of the netmask falls through to the router.)   *)
ReplyListFallThrough(k, list) ==
    LET known == KnownOf(Asked(list))[Len(Asked(list))]
        mask  == SelectSeq(known, LAMBDA c : c = SUBNET_MASK)
        all   == known \o [i \in DOMAIN mask |-> ROUTER]
    IN  <<[id |-> DHCP_MESSAGE_TYPE, data |-> <<k>>]>>
        \o [i \in DOMAIN all |-> [id |-> all[i], data |-> Answers[all[i]]]]
        \o <<[id |-> IP_ADDRESS_LEASE_TIME, data |-> infLeaseTime]>>
ReplyList(k, list) ==
    LET known == KnownOf(Asked(list))[Len(Asked(list))] IN
    <<[id |-> DHCP_MESSAGE_TYPE, data |-> <<k>>]>>
    \o [i \in DOMAIN known |-> [id |-> known[i], data |-> Answers[known[i]]]]
    \o <<[id |-> IP_ADDRESS_LEASE_TIME, data |-> infLeaseTime]>>

(* dhcpListener after the parse: no message type, or none with a handler,  *)
(* and there is no reply; otherwise the handler up to serializeOptionList. *)
Dispatch ==
    /\ pc = "dispatch"
    /\ IF ~HasOption(opts, DHCP_MESSAGE_TYPE)
       THEN pc' = "done" /\ UNCHANGED reply
       ELSE LET type == seachForOption(opts, DHCP_MESSAGE_TYPE) IN
            \/ /\ ~type.ok
               /\ pc' = "nullDeref" /\ UNCHANGED reply
            \/ /\ type.ok
               /\ \E b \in TypeBytes(type) :
                    IF HandlerOf(b) = 0
                    THEN pc' = "done" /\ UNCHANGED reply
                    ELSE /\ pc' = IF AskedIsNull(opts) THEN "nullDeref" ELSE "serialize"
                         /\ reply' = ReplyList(HandlerOf(b), opts)
    /\ UNCHANGED <<parseVars, out, wp, next>>

(* appendOptionToArray: what it writes.                                    *)
(* (Fault variant: the length counts the two bytes before the data.)       *)
EncodeOptionLong(o) == <<o.id, Len(o.data) + 2>> \o o.data
EncodeOption(o) == <<o.id, Len(o.data)>> \o o.data

(* a with the bytes s from position p on                                   *)
Write(a, p, s) == [i \in DOMAIN a |-> IF i \in p..(p + Len(s) - 1) THEN s[i - p + 1] ELSE a[i]]

(* One round of serializeOptionList, then the END byte.                    *)
SerializeRound ==
    /\ pc = "serialize"
    /\ LET s == IF next <= Len(reply) THEN EncodeOption(reply[next]) ELSE <<END>> IN
       IF wp + Len(s) - 1 > AreaSize
       THEN pc' = "writtenPast" /\ UNCHANGED <<out, wp, next>>
       ELSE /\ out' = Write(out, wp, s)
            /\ wp' = wp + Len(s)
            /\ next' = next + 1
            /\ pc' = IF next <= Len(reply) THEN "serialize" ELSE "done"
    /\ UNCHANGED <<parseVars, reply>>

Stopped == {"done", "nullDeref", "readPast", "writtenPast"}
Halted == pc \in Stopped /\ UNCHANGED vars

Next == ParseFirst \/ ParseRound \/ Dispatch \/ SerializeRound \/ Halted

Spec == Init /\ [][Next]_vars

-----------------------------------------------------------------------------
(* Type invariant.                                                         *)
TypeOK ==
    /\ pc \in {"first", "parse", "dispatch", "serialize"} \union Stopped
    /\ area \in Areas
    /\ rp \in 1..(AreaSize + 1)
    /\ opts \in Seq(Node)
    /\ refused \in 0..MaxRefused
    /\ reply \in Seq(Option)
    /\ out \in [1..AreaSize -> Byte]
    /\ wp \in 1..(AreaSize + 1)
    /\ next \in Nat \ {0}

(* Where options that take room[i] bytes each stand one behind the other:  *)
(* the start of option k + 1.                                              *)
Offsets(room) ==
    LET at[k \in 0..Len(room)] == IF k = 0 THEN 1 ELSE at[k - 1] + room[k]
    IN  at

(* An option in its wire form (RFC 2132) at position p of area a.          *)
StandsAt(o, a, p) ==
    /\ p + 1 + Len(o.data) <= AreaSize
    /\ a[p] = o.id /\ a[p + 1] = Len(o.data)
    /\ \A j \in 1..Len(o.data) : a[p + 1 + j] = o.data[j]

(* Where the options of an area start when it is read from its first byte: *)
(* the start of option k + 1.  Positions behind the area stay behind it.   *)
Starts(a) ==
    LET start[k \in 0..AreaSize] ==
          IF k = 0 THEN 1
          ELSE LET q == start[k - 1] IN
               IF q + 1 > AreaSize THEN AreaSize + 1 ELSE q + 2 + a[q + 1]
    IN  start
HasEnd(a) ==
    \E k \in 0..AreaSize : Starts(a)[k] <= AreaSize /\ a[Starts(a)[k]] = END

(* What has been parsed is what the area says: the nodes that have data    *)
(* are exactly the bytes walked over, whatever the bytes are and           *)
(* whichever mallocs failed; no END was walked over as an option.          *)
Walked(list) ==
    Offsets([i \in DOMAIN list |-> IF list[i].ok THEN 2 + Len(list[i].data) ELSE 0])
ParsedIsPrefix ==
    pc # "readPast" =>
        /\ Walked(opts)[Len(opts)] = rp
        /\ \A i \in DOMAIN opts :
             /\ opts[i].ok => StandsAt(opts[i], area, Walked(opts)[i - 1])
             /\ opts[i].id # END

(* The parser leaves the area exactly when no END stands where an option   *)
(* would start (options.c:72 has no other bound): never on an area that    *)
(* has one, and it completes a parse without refusals only on such areas.  *)
ReadsPastOnlyWithoutEnd ==
    /\ pc = "readPast" => ~HasEnd(area)
    /\ pc = "dispatch" /\ refused = 0 => HasEnd(area) /\ area[rp] = END

(* parseDhcpOptionList on any bytes: it stores what the area says and      *)
(* stops where the area says so, or leaves an area that does not.          *)
ParserFollowsArea == TypeOK /\ ParsedIsPrefix /\ ReadsPastOnlyWithoutEnd

(* The reply fits its area as long as the client lists no parameter twice. *)
(* (serializeOptionList has no bound; a list that repeats a known          *)
(* parameter makes the reply as long as it likes.)                         *)
NoDuplicates(s) == \A i, j \in DOMAIN s : i # j => s[i] # s[j]
ReplyFits == pc = "writtenPast" => ~NoDuplicates(Asked(opts))

(* A finished reply reads back as the list it was made of: its options one *)
(* behind the other, END, and untouched zeros behind it.                   *)
Written(list) == Offsets([i \in DOMAIN list |-> 2 + Len(list[i].data)])
ReplyReadsBack ==
    pc = "done" /\ reply # <<>> =>
        /\ \A i \in DOMAIN reply : StandsAt(reply[i], out, Written(reply)[i - 1])
        /\ \E e \in 1..AreaSize :
             /\ e = Written(reply)[Len(reply)] /\ out[e] = END
             /\ \A i \in (e + 1)..AreaSize : out[i] = 0
        /\ HasEnd(out)
=============================================================================
