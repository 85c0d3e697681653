CONSTANTS
    None = None
    Accounts = {a1, a2}
    Checkouts = {s1, s2}
    Handlers = {h1, h2}
    MaxEvents = 3
SYMMETRY Symmetric
SPECIFICATION WatchedSpec
CHECK_DEADLOCK FALSE
INVARIANTS
    ProWasPaid
    PlanIsConsistent
    MirrorsStripe
PROPERTIES
    ChangedOncePerEvent
    IdsStay
