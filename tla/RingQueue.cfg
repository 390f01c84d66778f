SPECIFICATION Spec
CONSTANTS
    e1 = e1
    e2 = e2
    e3 = e3
    e4 = e4
    e5 = e5
    Junk = Junk
    DefaultCapacity = 2
    GrowthFactor = 2
    Element <- Elements5
    InitCapacity = 0
    HasDestructor = TRUE
    AllocMayFail = FALSE
SYMMETRY Symmetric5
INVARIANTS
    TypeOK
    RingConsistent
    OneOwner
PROPERTIES
    FifoSpec
CHECK_DEADLOCK FALSE
