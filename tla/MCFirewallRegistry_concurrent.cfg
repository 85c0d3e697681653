CONSTANTS
    None = None
    Firewalls = {f1}
    Names = {n1}
    Tokens = {t1, t2}
    Handlers = {h1, h2, h3}
    MaxSeen = 2
SYMMETRY Symmetric
SPECIFICATION Spec
CHECK_DEADLOCK FALSE
INVARIANTS
    SeenWasCheckIn
PROPERTIES
    RevokedForGood
    DeletionSettles
