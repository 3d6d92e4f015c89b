SPECIFICATION ConvertSpec
CONSTANTS
    MaxParams = 4
    MaxArgs = 5
    Unknown = {other}
    SsizeMax = 7
    None = None
    ByteBits = 2
    SizeofSsize = 2
    SliceCalls <- MCSliceCalls
    IntCalls <- MCIntCalls
INVARIANTS
    BindsAsPython
    SlicesAsPython
    BytesExact
    NativeSizeHonest
CHECK_DEADLOCK FALSE
