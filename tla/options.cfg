\* AreaSize = 24 stands for 308: a reply with both parameters takes 22 bytes.
CONSTANTS
    AreaSize = 24
    Areas <- AllAreas
    MaxRefused = 1
SPECIFICATION Spec
INVARIANTS ParserFollowsArea ReplyFits ReplyReadsBack
