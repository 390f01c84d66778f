SPECIFICATION Spec
CONSTANTS
    Width = 6
    SymbolCapacity = 8
    ReallocMoves = TRUE
    MaxSteps = 120
    Junk = {0}
    Programs <- ChainPrograms
INVARIANTS
    RunsAsDocumented
CHECK_DEADLOCK FALSE
