CONSTANTS
    MAXPROC = 4
    PIPE_SIZE = 4
    Bytes = {"a", "b"}
    Data <- Mixed
    Lens <- ReadLens
    Readers <- Reader
    Writers <- Writer
SPECIFICATION FairSpec
INVARIANTS TypeOK NoLostWakeup
PROPERTIES RefinesFifo ReadReturns WriteReturns
