CONSTANTS
    fw1 = fw1
    None = None
    Snapshots = {s1, s2}
    Firewalls = {fw1}
    FirewallOf <- OneFirewall
    Findings = {i1, i2}
    Channels = {c1}
    Workers = {w1}
    Checks <- OneCheck
    MaxYield <- Yields
    BatchSize = 2
    MaxCrashes = 0
SYMMETRY Symmetric
SPECIFICATION Spec
CHECK_DEADLOCK FALSE
PROPERTIES
    OpenFindingIsSkipped
