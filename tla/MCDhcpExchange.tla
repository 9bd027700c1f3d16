--------------------------- MODULE MCDhcpExchange ---------------------------
(* Two hosts, of which none, one or both do without a server identifier.   *)
EXTENDS DhcpExchange

Nobody == <<"none", 0>>
Kinds == SUBSET Hosts
Transactions == Hosts \X (1..MaxXid)
HostDatagrams ==
    {Message(t[1], t[2], k) : t \in Transactions,
                              k \in {DHCP_DISCOVER, DHCP_REQUEST, DHCP_DECLINE}}
=============================================================================
