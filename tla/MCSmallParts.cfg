CONSTANTS
    r1 = r1
    None = None
    Payloads <- SomePayloads
    Packets <- SomePackets
    KnownCves <- Cve
    Renames <- SomeRenames
    OfflineAfter = 1
    ExpiringWithin = 1
    MaxChecksTime = 2
    MaxQueue = 1
    k1 = k1
    k2 = k2
    Keys <- SomeKeys
    MaxAttempts = 2
    Window = 3
    MaxLimiterTime = 6
    Ids = {1, 2, 3, 4}
    Limits <- SomeLimits
    MaxLimit = 2
    Start = 0
    t1 = t1
    t2 = t2
    c1 = c1
    c2 = c2
    Tabs <- SomeTabs
    Calls <- SomeCalls
    MaxIssued = 3
SYMMETRY Symmetry
SPECIFICATION Spec
CHECK_DEADLOCK FALSE
INVARIANTS
    FreshIsNotOffline
    NoSilentDrift
    RuleFindingsAreExact
    LimitIsExact
    EachOnOnePage
    SessionIsKept
PROPERTIES
    CertificatesOnlyGetWorse
