SPECIFICATION Spec
CONSTANTS
    i1 = i1
    i2 = i2
    s1 = s1
    s2 = s2
    p1 = p1
    p2 = p2
    a1 = a1
    a2 = a2
    Ingress = {i1}
    Service = {s1, s2}
    Port = {p1, p2}
    Addr = {a1, a2}
    Weight = {0, 10, 100}
    AnyPort = anyPort
    DefaultBackend = s2
    DefaultCluster = defaultCluster
    Manifest <- MCManifest
    ServiceState <- MCServiceState
    Verdict = {TRUE}
    NoObject = NoObject
    Nil = Nil
INVARIANT ProcessStaysUp
