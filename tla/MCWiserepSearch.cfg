SPECIFICATION Spec
CONSTANTS
    a = a
    b = b
    NoId = NoId
    NoDay = NoDay
    Never = Never
    NoName = NoName
    Workers = {a, b}
    Rows = {1, 2, 3, 4, 5, 6}
    Late = {6}
    Export <- SixSpectra
    Designations = {"2002er", "alias"}
    Returns <- Found2002er
    Order <- NoOrder
    PageSize = 2
    PageCap = 3
    Deadline = 2
    DownloadDeadline = 1
    Interval = 1
    Retries = 1
    RetryWaits = {1, 5}
    StartBy = 0
    MaxTime = 4
SYMMETRY TwoWorkers
INVARIANTS
    TypeOK
    WalkIsComplete
    NamesOneObject
PROPERTIES
    NothingBeginsLate
    RequestsAreSpaced
CHECK_DEADLOCK FALSE
