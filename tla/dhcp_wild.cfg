\* options.c:17
CONSTANTS
    A = A
    B = B
    Clients = {A, B}
    NoClient = NoClient
    Datagrams <- TwoClients
    MaxQueue = 1
    HeapSize = 14
    Fragmented = FALSE
    StackGarbage = {0, 1}
SPECIFICATION Spec
INVARIANT FreesOnlyAllocatedLists
