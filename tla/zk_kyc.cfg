SPECIFICATION FairSpec
CONSTANTS
    None = None
    u1 = u1
    u2 = u2
    web = web
    User = {u1, u2}
    Call = {c1, c2}
    Level = {basic}
    Oracle = oracle
    Foreign <- MCForeign
    MalformedDid = {malformed}
    CallerDid = {oracle}
    Configs <- MCConfigs
    Year = 0
    LastDay = 1
INVARIANTS
    AuditTrail
    SessionsKnown
PROPERTIES
    WebhookIsLocal
    SessionsGetDecided
    CallsAnswer
CHECK_DEADLOCK FALSE
