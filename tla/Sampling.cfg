SPECIFICATION SamplingSpec
CONSTANTS
    Inf = Inf
    NegInf = NegInf
    NaN = NaN
    Junk = Junk
    MaxWord = 7
    Finite = {2}
    IntMin <- MCIntMin
    Value <- MCValue
    MaxSize = 3
    Lo = 1
    Hi = 2
    Bounds <- MCBounds
    MaxPairs = 4
INVARIANTS
    SamplingTypeOK
    MovingAgreesWithBatch
    BatchFormulasAgree
    SamplesInTheirRange
PROPERTIES
    WindowSpec
