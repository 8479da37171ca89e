SPECIFICATION Spec
CONSTANTS
    Kernel = Kernel
    Users = {u1, u2, u3}
    USER_BASE = 2
    USER_TOP = 14
    ALIGN = 2
    WORD = 256
    HEAP = 1
    STACK = 1
    Programs <- MCPrograms
    Args = {1}
    Increments <- MCIncrements
    InPlaceExec = TRUE
    Background = FALSE
INVARIANTS TypeOK RegionsDisjoint ProgramsKeepMemory AllocIsFirstFit
PROPERTIES MemoryIsPrivate
SYMMETRY Slots
VIEW Relevant
