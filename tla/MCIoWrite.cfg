SPECIFICATION Spec
CONSTANTS
    root = root
    file1 = file1
    file2 = file2
    Paths <- SomePaths
    Parent <- SomeParents
    Dirs0 <- SomeDirs
    Byte = {0, 10, 13, 195, 169}
    Zero = 0
    LF = 10
    CR = 13
    Lead = 195
    Trail = 169
    MinCap = 1
    SeeksPastEnd = FALSE
    MaxLen = 3
    MinPos <- LowestPos
    MaxNodes = 3
    MaxFds = 2
    Modes <- SomeModes
    Newlines <- SomeNewlines
    NoNewline = NoNewline
    Untranslated = Untranslated
    Chunks <- SomeChunks
    Texts <- SomeTexts
    Sizes <- SomeSizes
    Seeks <- SomeSeeks
    TextSeeks <- SomeTextSeeks
    CloseFds = {FALSE}
    ChangesUnread = FALSE
    MaxRaws = 2
    MaxTexts = 2
INVARIANTS
    TypeOK
PROPERTIES
    ImplementsFiles
CONSTRAINT Small
VIEW State
SYMMETRY Names
CHECK_DEADLOCK FALSE
