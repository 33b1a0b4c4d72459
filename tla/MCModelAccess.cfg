SPECIFICATION Spec
CONSTANTS
    m = m
    Uploaded = Uploaded
    t1 = t1
    t2 = t2
    k1 = k1
    k2 = k2
    NoDefinition = NoDefinition
    NoModel = NoModel
    NoScope = NoScope
    NoArtifacts = NoArtifacts
    NoKey = NoKey
    NoSession = NoSession
    Requests = {t1, t2}
    Models = {m}
    TwinModels = {m}
    Keys = {k1, k2}
    Registries <- MCRegistries
    Links <- MCLinks
    MaxClock = 1
SYMMETRY Symmetry
INVARIANTS
    TypeOK
    ScopeStaysInItsSession
    ArtifactsBelongToScope
    ShownResultsBegunInTime
PROPERTIES
    GatedRunsInScope
