\* A mailbox of two frames, two datagrams, a delay of two ticks.
CONSTANTS
    MaxFrames = 2
    MaxRx = 2
    DelayTicks = 2
SPECIFICATION Spec
INVARIANTS KernelConsistent NetworkUpBeforeUse  SockIsDhcps
PROPERTIES NetworkComesUp ReadyTaskRuns 
