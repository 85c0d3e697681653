CONSTANTS
    fw1 = fw1
    None = None
    Snapshots = {s1, s2}
    Firewalls = {fw1}
    FirewallOf <- OneFirewall
    Findings = {i1, i2, i3}
    Channels = {c1}
    Workers = {w1}
    Checks <- TwoChecks
    MaxYield <- Yields
    BatchSize = 2
    MaxCrashes = 1
SPECIFICATION FairSpec
CHECK_DEADLOCK FALSE
INVARIANTS
    PreviousIsEarlier
    NoRepeatedFinding
    DoneIsAlerted
    EmailedAtMostOnce
    DeliveryTruthful
PROPERTIES
    QueueSpec
    QueuedIsProcessed
