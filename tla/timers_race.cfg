\* A tick counts as two units; a round of the thread lasts a tick at most.
CONSTANTS
    Cyclic <- MCCyclic
    Interval <- MCInterval
    TickMs = 2
    Pool = 3
    MaxBusy = 1
    MaxMsgs = 1
SPECIFICATION Spec
INVARIANT ListUnderLock
