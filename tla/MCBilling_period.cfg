CONSTANTS
    None = None
    Accounts = {a1}
    Checkouts = {s1, s2}
    Handlers = {h1}
    MaxEvents = 2
SPECIFICATION FairSpec
CHECK_DEADLOCK FALSE
PROPERTIES
    UpdatesAreProcessed
