\* Any stack garbage, an allocator that may refuse at any time.
CONSTANTS
    A = A
    B = B
    Clients = {A, B}
    NoClient = NoClient
    Datagrams <- TwoClients
    MaxQueue = 1
    HeapSize = 14
    Fragmented = TRUE
    StackGarbage = {0, 1, 2, 3}
SPECIFICATION Spec
INVARIANTS TypeOK AtMostOneAck
PROPERTIES GrantSpec LostOnKnownPathsOnly
