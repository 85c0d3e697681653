CONSTANTS
    c3 = c3
    f1 = f1
    f2 = f2
    None = None
    Handlers = {h1, h2}
    Commands = {c1, c3}
    Firewalls = {f1, f2}
    FirewallOf <- TwoFirewalls
    PollCommits = FALSE
    MaxStamp = 1
    MaxRuns = 1
SPECIFICATION FairSpec
CHECK_DEADLOCK FALSE
PROPERTIES
    ConfirmedIsExecuted
