SPECIFICATION Spec
CONSTANTS
    h1 = h1
    h2 = h2
    k1 = k1
    k2 = k2
    Handles = {h1, h2}
    Keys = {k1, k2}
    Values <- SomeValues
    Flags = {"c"}
    Nul = 0
    BS = 2
    None = None
    MaxDat = 7
    MaxTorn = 1
SYMMETRY Symmetry
INVARIANTS
    TypeOK
    RegionsSound
    ReadBack
    CommittedSurvives
CHECK_DEADLOCK FALSE
