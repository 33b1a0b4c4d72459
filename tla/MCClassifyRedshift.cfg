SPECIFICATION Spec
CONSTANTS
    a = a
    b = b
    e1 = e1
    e2 = e2
    z1 = z1
    z2 = z2
    Objects = {a, b}
    Files = {f}
    Epochs = {e1, e2}
    Earliest = e1
    Redshifts = {z1, z2, z3}
    SourceZ <- MCSourceZ
    NoZ = NoZ
    NoName = NoName
    NoFile = NoFile
    NoKey = NoKey
    NoParams = NoParams
    NoProvenance = NoProvenance
    NoHidden = NoHidden
    NoRequest = NoRequest
    NoRun = NoRun
INVARIANTS
    TypeOK
    LabelledValueIsTheSources
PROPERTIES
    TypedValueIsUsed
    OptOutSticks
