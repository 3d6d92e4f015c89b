SPECIFICATION FairSpec
CONSTANTS
    x = x
    a = a
    b = b
    Objs <- SmallHeap
    Insts <- One
    Dels <- Finalizable
    Owns <- Alone
    Nobody = Nobody
    MayName <- SmallHeap
    MayHold <- Attributes
    MayKeep <- Kept
    MayCount <- None
    MaxJobs = 1
    MaxWait = 2
    CallbacksRun = FALSE
    FinalizersRaise = FALSE
PROPERTIES
    PendingSettles
