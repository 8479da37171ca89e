CONSTANTS
    NINODES = 4
    NBLOCKS = 8
    NDIRECT = 1
    CPB = 3
    FreeListWord = 2
    SbWords <- MCSbWords
    Names = {"dev", "x"}
    ImageName = "x"
    ImageSize = 4
    Paths <- MCPaths
    DevDir <- MCDevDir
    DevNodes <- MCDevNodes
    MAXOPEN = 1
    Lengths = {4}
    Offsets = {0}
    WriteDirs = FALSE
    MaxCrashes = 1
    MaxWrites = 3
SPECIFICATION Spec
VIEW WithoutReply
INVARIANTS TypeOK DiskConsistent NothingLost CompletedIsDurable
PROPERTY ImplementsFileTree
