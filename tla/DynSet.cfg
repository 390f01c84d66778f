SPECIFICATION Spec
CONSTANTS
    h1 = h1
    h2 = h2
    h3 = h3
    k1 = k1
    k2 = k2
    NoSet = NoSet
    Handle <- Handles
    Key <- Keys
    Copy = {1, 2}
    InitialCapacity = 1
    GrowthFactor = 2
INVARIANTS
    TypeOK
    ComparisonsAgree
    OneOwner
PROPERTIES
    KeySetsSpec
