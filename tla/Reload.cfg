SPECIFICATION FairSpec
CONSTANTS
    MaxVersion = 2
    MaxCrashes = 1
    Footprint <- MCFootprint
    Unloadable = {1}
    NoVersion = NoVersion
    Shipped = Shipped
    Torn = Torn
INVARIANTS
    TypeOK
    NothingOverlooked
    CalledOnWhole
PROPERTIES
    DeliversInOrder
    RoutesArrive
    AllArrives
    LockReleased
