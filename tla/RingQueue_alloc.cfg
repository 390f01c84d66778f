SPECIFICATION Spec
CONSTANTS
    e1 = e1
    e2 = e2
    e3 = e3
    e4 = e4
    e5 = e5
    Junk = Junk
    DefaultCapacity = 2
    GrowthFactor = 2
    Element <- Elements3
    InitCapacity = 2
    HasDestructor = TRUE
    AllocMayFail = TRUE
PROPERTIES
    EnqueueAddsAtBack
CHECK_DEADLOCK FALSE
