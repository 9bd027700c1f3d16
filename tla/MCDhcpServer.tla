---------------------------- MODULE MCDhcpServer ----------------------------
(* Small instances of DhcpServer: the datagrams the runs choose from.      *)
EXTENDS DhcpServer

CONSTANTS A, B  \* clients

Opt(code, value) == [id |-> code, data |-> value]
Type(t) == Opt(DHCP_MESSAGE_TYPE, <<t>>)
Packet(c, opts) == [client |-> c, src |-> <<0, 0, 0, 0>>, len |-> 300, op |-> BOOTREQUEST,
                    hlen |-> 6, cookie |-> dhcpMagicCookie, opts |-> opts]

Ask(codes) == Opt(PARAMETER_REQUEST_LIST, codes)

Discover(c) == Packet(c, <<Type(DHCP_DISCOVER), Ask(<<ROUTER, 6, SUBNET_MASK>>)>>)
Request(c)  == Packet(c, <<Type(DHCP_REQUEST)>>)
(* options before the type, and parameters named twice *)
LateType(c) == Packet(c, <<Opt(61, <<7>>), Ask(<<SUBNET_MASK, 6, SUBNET_MASK>>), Type(DHCP_REQUEST)>>)
Inform(c)   == Packet(c, <<Type(8)>>)
NoType(c)   == Packet(c, <<Opt(12, <<65>>)>>)
NoOptions(c) == Packet(c, <<>>)
EmptyType(c) == Packet(c, <<Opt(DHCP_MESSAGE_TYPE, <<>>)>>)
(* from a host of the board's own subnet (and of one the shifted byte meets) *)
FromSubnet(c) == [Discover(c) EXCEPT !.src = <<192, 168, 1, 7>>]
FromOther(c)  == [Discover(c) EXCEPT !.src = <<192, 10, 1, 7>>]
WrongCookie(c) == [Request(c) EXCEPT !.cookie = <<0, 130, 83, 99>>]
HalfCookie(c)  == [Request(c) EXCEPT !.cookie = <<99, 0, 0, 0>>]
Short(c) == [Request(c) EXCEPT !.len = 238]
Reply(c) == [Request(c) EXCEPT !.op = 2]

TwoClients == {Discover(A), Request(A), Request(B), Inform(B)}
AllKinds ==
    {Discover(A), LateType(B), Inform(A), NoType(A), NoOptions(A), EmptyType(A),
     FromSubnet(A), FromOther(A), WrongCookie(A), HalfCookie(A), Short(A), Reply(A)}
=============================================================================
