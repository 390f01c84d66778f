SPECIFICATION Spec
CONSTANTS
    c1 = c1
    c2 = c2
    c3 = c3
    Client <- Clients
    Total = 6
    MaxHeld = 6
INVARIANTS
    TypeOK
    Partitioned
    BusyMeansInUse
