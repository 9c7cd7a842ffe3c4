SPECIFICATION FairSpec
CONSTANTS
    Ingress = {i1, i2}
    Manifest <- MCManifest
    Reason = {r1, r2}
    NamelessService = NamelessService
    NoObject = NoObject
    Idle = Idle
    MaxChanges = 3
INVARIANTS
    TypeOK
    NeverLost
    GoneForgotten
PROPERTIES
    ToldInTheEnd
