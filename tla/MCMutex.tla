------------------------------ MODULE MCMutex ------------------------------
(* The lwIP thread above two application tasks and the task that polls the *)
(* adapter.                                                                *)
EXTENDS Mutex

MCUsers == {"tcpip", "dhcp", "http"}
MCLone == {"dhcp", "http"}
MCPollers == {"xemac"}
MCBasePrio == [t \in MCUsers \union MCPollers |-> IF t = "tcpip" THEN 2 ELSE 1]
=============================================================================
