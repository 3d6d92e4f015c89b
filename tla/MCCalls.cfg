SPECIFICATION Spec
CONSTANTS
    e1 = e1
    Errors <- SomeErrors
    RecursionError = RecursionError
    None = None
    Unsaved = Unsaved
    MaxFrames = 4
    Cap = 1
    WeakReenters = FALSE
    DestructorsThrow = FALSE
    InitRecurses = FALSE
INVARIANTS
    TypeOK
    ErrorIsDue
    PythonIsClean
    StackBounded
    NotPoisoned
