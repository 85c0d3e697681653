CONSTANTS
    None = None
    Emails = {e1, e2}
    Accounts = {a1, a2, a3}
    Organizations = {o1, o2}
    Firewalls = {f1}
    Channels = {c1}
    Legacy = {a1}
    Handlers = {h1, h2}
SYMMETRY Symmetric
SPECIFICATION Spec
CHECK_DEADLOCK FALSE
INVARIANTS
    OneAccountPerEmail
    AccountIsComplete
    UsersSeeTheirOwn
    RuleOfOneOrganization
    AlertsWerePaid
