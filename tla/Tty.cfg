CONSTANTS
    MAXPROC = 4
    TTY_BUFSZ = 3
    Users = {1, 2}
    Readers = {1}
    Keys = {"a", "nl", "intr"}
    Lens = {2}
    Modes <- MCModes
    Keyboards = {"poll", "interrupt"}
SPECIFICATION FairSpec
CONSTRAINT NothingLost
INVARIANTS TypeOK LinesStayVisible NoLostWakeup
PROPERTIES QueueUntilTorn ReadReturns
