SPECIFICATION FairSpec
CONSTANTS
    StartTime = 1
    EndTime = 3
    Times = {0, 2, 4}
    Deltas <- MCDeltas
    MaxEvents = 3
    MaxClock = 4
    MaxDepth = 5
    MaxLoops = 2
INVARIANTS
    TypeOK
    QueueOrdered
    EveryEventAccountedFor
    ElapsedTimeAccountedFor
    InFlightEventsAreDue
    GlobalTimeNotBehind
    IdleIsAShareOfTotal
PROPERTIES
    NoEventOvertaken
    ClockNeverBack
    AgendaSpec
    RunReturnsOrStarves
