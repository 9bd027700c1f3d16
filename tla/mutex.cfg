\* The tasks of main.c and the lwIP thread.
CONSTANTS
    Users <- MCUsers
    Lone <- MCLone
    Pollers <- MCPollers
    Core = "lock_tcpip_core"
    Heap = "mem_mutex"
    BasePrio <- MCBasePrio
    Nobody = "NULL"
SPECIFICATION FairSpec
INVARIANTS MutexConsistent PrioritiesServe
PROPERTY UrgentGetsMutex
