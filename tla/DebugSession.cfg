SPECIFICATION SessionSpec
CONSTANTS
    Line = {"0"}
    Function = {"f"}
    BpLine = {"7"}
    BpFunction = {"h"}
    MaxBreakpoints = 3
    MaxHits = 2
    PerfEnabled = TRUE
    MaxNesting = 3
    MaxTime = 4
    MaxFailures = 2
INVARIANTS
    SessionTypeOK
    IdsIdentify
    ReturnsUnderItsCall
    LoggedDurationIsItsOwn
PROPERTIES
    QuitIsFinal
    StepStopsNext
    HitsExplainStops
