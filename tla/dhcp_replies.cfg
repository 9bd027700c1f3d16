\* A stack of zeros and a heap one block larger than a request needs (so that
\* data can be refused to a node that was allocated), a fair dhcpTask:
\* what is sent, and that a request in the mailbox ends the service.
CONSTANTS
    A = A
    B = B
    Clients = {A, B}
    NoClient = NoClient
    Datagrams <- AllKinds
    MaxQueue = 2
    HeapSize = 15
    Fragmented = FALSE
    StackGarbage = {0}
SPECIFICATION FairSpec
INVARIANTS  NeverFallsOffEnd 
PROPERTIES  RequestEndsService 
