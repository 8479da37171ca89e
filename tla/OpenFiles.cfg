CONSTANTS
    MAXPROC = 3
    MAXFD = 2
    MAXOPEN = 4
    MAXPIPE = 1
    StdFds = 1
    RefModulus = 6
    Inodes = {"f", "g"}
    HighFds = {1}
    FailingDup = FALSE
    DirectExec = FALSE
SPECIFICATION Spec
VIEW LiveView
INVARIANTS TypeOK RefcountExact PipeEnds InodeRefs
PROPERTY DescriptorStable
