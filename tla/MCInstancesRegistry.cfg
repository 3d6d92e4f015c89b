SPECIFICATION Spec
CONSTANTS
    p1 = p1
    p2 = p2
    Ptrs <- TwoAddresses
    MaxGen = 3
    MaxDepth = 1
    MaxRefs = 1
    MaxStores = 0
    Callable = TRUE
    ReclaimResults = TRUE
SYMMETRY Addresses
INVARIANTS
    TypeOK
PROPERTIES
    CallbackOwnStruct
CHECK_DEADLOCK FALSE
