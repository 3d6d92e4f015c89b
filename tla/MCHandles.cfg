SPECIFICATION Spec
CONSTANTS
    o1 = o1
    s1 = s1
    Nil = Nil
    TypeStruct = TypeStruct
    Objs <- Objects
    Prims <- Strings
    Pinnable <- Pinned
    TypePtrs <- Addresses
    FirstId = 15
    MaxId = 17
    RecycleLimit = 17
    HeapAboveIds = TRUE
    MaxDepth = 2
    MaxOwned = 2
INVARIANTS
    TypeOK
    HandleIdentity
    CountIsOwnership
    NoLeak
    FreeIdsAreDead
PROPERTIES
    ScopeProtects
    HeldKept
    ImplementsContract
CHECK_DEADLOCK FALSE
