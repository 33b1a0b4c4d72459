SPECIFICATION FairSpec
CONSTANTS
    t1 = t1
    t2 = t2
    t3 = t3
    d1 = d1
    d2 = d2
    l1 = l1
    l2 = l2
    l3 = l3
    NoDesignation = NoDesignation
    NoLock = NoLock
    Threads <- MCThreads
    Designations <- MCDesignations
    Locks <- MCLocks
    BoundedWait = TRUE
INVARIANTS
    TypeOK
    OneHolder
    SlotMatchesClaimants
PROPERTIES
    SlotsSpec
    WaiterProceeds
