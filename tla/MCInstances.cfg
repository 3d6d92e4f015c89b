SPECIFICATION FairSpec
CONSTANTS
    p1 = p1
    p2 = p2
    Ptrs <- TwoAddresses
    MaxGen = 2
    MaxDepth = 2
    MaxRefs = 2
    MaxStores = 1
    Callable = TRUE
    ReclaimResults = FALSE
INVARIANTS
    CountIsOwners
    OwnedAlive
    HeldAlive
    DeallocOnce
    BindingMatchesStruct
PROPERTIES
    Reclaimed
CHECK_DEADLOCK FALSE
