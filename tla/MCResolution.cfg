SPECIFICATION Spec
CONSTANTS
    a = a
    b = b
    c = c
    w1 = w1
    w2 = w2
    NoWorker = NoWorker
    NoSet = NoSet
    NoTime = NoTime
    Callers = {a, b, c}
    Workers = {w1, w2}
    WorkerOf <- TwoWorkers
    MaxClock = 4
    SetTTL = 2
    RefusalTTL = 2
    Wait = 2
    Deadline = 1
SYMMETRY SameWorkerThreads
INVARIANTS
    TypeOK
    StoredSetSurvivesOutage
    SlotSparesSearch
    CachedIsStored
PROPERTIES
    ServedSetIsFresh
    RefusalExpires
