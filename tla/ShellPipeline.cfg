SPECIFICATION FairShellSpec
CONSTANTS
    MAXFD = 9
    MAXPIPE = 2
    PIPE_SIZE = 1
    MaxCommands = 4
    MaxOutput = 2
    SpawnMayFail = TRUE
    EmptyAt = {1, 3}
PROPERTIES DescriptorsRestored FullPipelineReturns
CHECK_DEADLOCK FALSE
