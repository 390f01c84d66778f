SPECIFICATION Spec
CONSTANTS
    Line = {"0"}
    Function = {"f", "g"}
    BpLine = {"0", "7"}
    BpFunction = {"g", "h"}
    MaxBreakpoints = 2
    MaxHits = 2
PROPERTIES
    BreaksAtLocation
