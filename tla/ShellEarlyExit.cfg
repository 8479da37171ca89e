SPECIFICATION FairShellSpec
CONSTANTS
    MAXFD = 9
    MAXPIPE = 2
    PIPE_SIZE = 1
    MaxCommands = 2
    MaxOutput = 3
    SpawnMayFail = FALSE
    EmptyAt = {}
PROPERTIES PipelineReturns
CHECK_DEADLOCK FALSE
