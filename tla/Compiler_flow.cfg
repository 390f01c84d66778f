SPECIFICATION Spec
CONSTANTS
    Width = 6
    SymbolCapacity = 8
    ReallocMoves = TRUE
    MaxSteps = 120
    Junk = {0, 5}
    Programs <- MCPrograms
INVARIANTS
    AcceptedIffWellFormed
    WritesWhatItMeans
    ReadsOnlyWhatWasWritten
CHECK_DEADLOCK FALSE
