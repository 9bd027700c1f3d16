---------------------------- MODULE AddressGrant ----------------------------
(***************************************************************************)
(* What the DHCP side of the board promises to the network and to the rest *)
(* of the program.  The server owns one address (offerIp, 192.168.1.25)    *)
(* and a lease never ends (infLeaseTime), so the address may be granted to *)
(* a client at most once; and once the board's port is handed to the HTTP  *)
(* client (vTaskResume of httpPostTask) nothing is granted any more.       *)
(***************************************************************************)
EXTENDS Sequences

CONSTANT Clients

VARIABLES
    grants,  \* the clients that were sent a DHCPACK, in order
    handed   \* httpPostTask was resumed

gvars == <<grants, handed>>

GInit ==
    /\ grants = <<>>
    /\ handed = FALSE

(* The address goes to the first client whose DHCPACK reaches the wire.    *)
Grant(c) ==
    /\ grants = <<>>
    /\ ~handed
    /\ grants' = <<c>>
    /\ UNCHANGED handed

(* The server stops serving and lets the HTTP client run.                  *)
HandOff ==
    /\ ~handed
    /\ handed' = TRUE
    /\ UNCHANGED grants

GNext == (\E c \in Clients : Grant(c)) \/ HandOff

GSpec == GInit /\ [][GNext]_gvars

=============================================================================
