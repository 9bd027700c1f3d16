\* A mailbox of two messages and segments of one or two tokens.
CONSTANTS
    NumSockets = 2
    MboxSize = 2
    MaxPolls = 1
    FinMem = TRUE
    MaxSegment = 2
    Tokens = {"status", "header", "body", "nl"}
    Responses <- AllResponses
    Nl = "nl"
    BufSize = 5
    ReqLen = 2
    MaxPosts = 3
    MaxSpin = 2
SPECIFICATION FairSpec
INVARIANTS OperationProtocol ReaderWoken ResponseComplete PostAccounted
PROPERTY AnnouncedEndIsSeen
