CONSTANTS
    MAXPROC = 4
    Signals <- NoSignals
    Background = FALSE
    InPlaceExec = FALSE
    WaitPids <- WaitAll
    SpawnErrors = TRUE
    Dispositions <- NoDispositions
    Readers = {1}
    MaxPending = 1

SPECIFICATION FairSpec
PROPERTIES NoStarvation WaitpidReturns
