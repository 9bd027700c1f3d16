----------------------------- MODULE MCTimeouts -----------------------------
(* Two cyclic timers and the TCP timer, scaled down: DHCP (500), ARP       *)
(* (1000), TCP (250).                                                      *)
EXTENDS Timeouts

MCCyclic == <<"arp", "dhcp">>
MCInterval == [h \in {"arp", "dhcp", "tcp"} |-> CASE h = "arp" -> 13 [] h = "dhcp" -> 8 [] h = "tcp" -> 6]
=============================================================================
