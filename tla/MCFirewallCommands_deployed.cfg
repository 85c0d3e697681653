CONSTANTS
    c3 = c3
    f1 = f1
    f2 = f2
    None = None
    Handlers = {h1, h2}
    Commands = {c1, c2}
    Firewalls = {f1}
    FirewallOf <- OneFirewall
    PollCommits = FALSE
    MaxStamp = 1
    MaxRuns = 2
SYMMETRY Symmetric
SPECIFICATION Spec
CHECK_DEADLOCK FALSE
INVARIANTS
    PolledCommandsMoved
