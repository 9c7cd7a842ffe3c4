SPECIFICATION Spec
SYMMETRY Symmetry
CONSTRAINTS
    FewPending
    PairsWanted
CONSTANTS
    i1 = i1
    i2 = i2
    s1 = s1
    p1 = p1
    a1 = a1
    c1 = c1
    h = h
    anyHost = anyHost
    noHost = noHost
    a = a
    basic = basic
    cert = cert
    bad = bad
    Ingress = {i1, i2}
    Service = {s1}
    Secret = {c1}
    Port = {p1}
    Addr = {a1}
    Weight = {10}
    AnyPort = anyPort
    Host <- MCHost
    NoHost = noHost
    AnyHost = anyHost
    IllegalHost = {}
    Path <- MCPath
    IllegalPath = {}
    UnparsablePath = {}
    Condition = {basic}
    Basic = basic
    IllegalCondition = {}
    Content = {cert, bad}
    BadContent = {bad}
    DefaultBackend = Nil
    DefaultCluster = defaultCluster
    AdvancedMode = advancedMode
    Manifest <- MCManifest
    ServiceState <- MCServiceState
    Verdict = {TRUE, FALSE}
    NoObject = NoObject
    Nil = Nil
    MaxTime = 1
INVARIANTS
    TypeOK
    AllOrNothing
    RoutesHaveClusters
    AcceptedComplete
