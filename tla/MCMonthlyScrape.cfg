SPECIFICATION Spec
CONSTANTS
    x = x
    nan = nan
    NoFile = NoFile
    Torn = Torn
    Unreadable = Unreadable
    Incomparable = {nan}
    NoScores = NoScores
    Rows = {1, 2, 3, 4, 5, 6, 7}
    Late = {4}
    ListedAt <- Positions
    Entry <- Export
    ObjectPage <- Pages
    Windows <- TwoWindows
    PageSize = 2
    MaxPages = 3
    SignatureRows = 1
    MaxRuns = 2
    Models = {"latent", "transformer"}
    NeedsRedshift = {"transformer"}
INVARIANTS
    TypeOK
    SearchIsComplete
    RowsHaveFiles
    OneNamePerSpectrum
    NothingLost
    ChallengeIsRepresentative
    StandingsNameTheirCollection
PROPERTIES
    EarlierFilesStand
CHECK_DEADLOCK FALSE
