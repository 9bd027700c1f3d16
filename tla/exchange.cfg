\* The server and two hosts.
CONSTANTS
    Hosts = {"a", "b"}
    LenientSets <- Kinds
    RequestTries = 1
    MaxXid = 2
    MaxFlight = 1
    Conflict = TRUE
    Clients <- Transactions
    NoClient <- Nobody
    Datagrams <- HostDatagrams
    MaxQueue = 1
    HeapSize = 14
    Fragmented = FALSE
    StackGarbage = {0}
SPECIFICATION ExchangeFair
INVARIANTS NegotiationTimed OneHolder
PROPERTIES LeaseKept AckedHostIsBound
CHECK_DEADLOCK FALSE
