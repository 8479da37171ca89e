CONSTANTS
    MAXPROC = 4
    Signals <- TermSignals
    Background = FALSE
    InPlaceExec = FALSE
    WaitPids <- WaitAny
    SpawnErrors = TRUE
    Dispositions <- Install
    Readers = {1}
    MaxPending = 1
VIEW LiveView
SPECIFICATION Spec
INVARIANTS VforkIsolation UserModeIsRunning
PROPERTY ZombieFinal
