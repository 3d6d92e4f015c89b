SPECIFICATION Spec
CONSTANTS
    v1 = v1
    v2 = v2
    Bytes = {b}
    ByteArrays = {ba}
    Arrays = {ar}
    Slots = {v1, v2}
    Blocks = {1, 2, 3, 4, 5, 6, 7, 8, 9, 10, 11, 12}
    Data = {0, 1}
    Zero = 0
    MaxLen = 1
    EmptyArrays = TRUE
    None = None
VIEW Shape
SYMMETRY Symmetry
INVARIANTS
    SourceIsTruth
CHECK_DEADLOCK FALSE
