SPECIFICATION Spec
CONSTANTS
    a = a
    b = b
    c = c
    early = early
    late = late
    unnamed = unnamed
    i1 = i1
    i2 = i2
    i3 = i3
    NoEpoch = NoEpoch
    NoId = NoId
    NoRow = NoRow
    Lookups = {a, b, c}
    Epochs = {early, late, unnamed}
    Ids = {i1, i2, i3}
    Rankings <- MCRankings
    Nameless <- MCNameless
    Blueshifted <- MCBlueshifted
SYMMETRY Symmetry
INVARIANT ServedStaysServable
CHECK_DEADLOCK FALSE
