CONSTANTS
    MAXPROC = 4
    Signals <- JobSignals
    Background = TRUE
    InPlaceExec = TRUE
    WaitPids <- WaitAny
    SpawnErrors = FALSE
    Dispositions <- NoDispositions
    Readers = {}
    MaxPending = 1
VIEW LiveView
SPECIFICATION Spec
INVARIANTS TypeOK OneRunning ParentAlive NprocCounts
