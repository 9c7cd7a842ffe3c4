SPECIFICATION Spec
SYMMETRY Symmetry
CONSTANTS
    i1 = i1
    i2 = i2
    h = h
    wild = wild
    badHost = badHost
    anyHost = anyHost
    noHost = noHost
    a = a
    b = b
    quote = quote
    badPath = badPath
    basic = basic
    cookie = cookie
    header = header
    badCookie = badCookie
    s1 = s1
    s2 = s2
    Ingress = {i1, i2}
    Host <- MCHost
    NoHost = noHost
    AnyHost = anyHost
    IllegalHost = {badHost}
    Path <- MCPath
    IllegalPath = {badPath}
    UnparsablePath = {quote}
    Condition <- MCCondition
    Basic = basic
    IllegalCondition = {badCookie}
    Backend = {s1, s2}
    DefaultBackend = TRUE
    DefaultCluster = defaultCluster
    AdvancedMode = advancedMode
    Manifest <- MCManifest
    NoObject = NoObject
    MaxTime = 1
    HostText <- MCHostText
    PathText <- MCPathText
    Kind <- MCKind
    Request <- MCRequest
INVARIANTS
    TypeOK
    RulesIndexed
    OneRulePerSlot
    OnlyAcceptedInCache
    AlwaysPublishable
    FilesAgree
    CachedRulesRouted
    DocumentedOrder
    TiesAreLocal
PROPERTIES
    SlotsAllocated
