CONSTANTS
    None = None
    Users = {u1}
    Refreshes = {t1, t2, t3}
    Resets = {r1}
    Handlers = {h1, h2}
    MaxVersion = 2
SYMMETRY Symmetric
SPECIFICATION Spec
CHECK_DEADLOCK FALSE
INVARIANTS
    RotationRevokes
    OnlyLateSessionsSurvive
