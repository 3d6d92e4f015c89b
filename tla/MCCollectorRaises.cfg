SPECIFICATION Spec
CONSTANTS
    x = x
    a = a
    b = b
    Objs <- Heap
    Insts <- Instances
    Dels <- Finalizable
    Owns <- View
    Nobody = Nobody
    MayName <- Named
    MayHold <- Attributes
    MayKeep <- Kept
    MayCount <- Kept
    MaxJobs = 2
    MaxWait = 1
    CallbacksRun = FALSE
    FinalizersRaise = TRUE
PROPERTIES
    FreedIsGarbage
