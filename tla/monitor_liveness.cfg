SPECIFICATION FairSpec
CONSTANTS
    Critical = 90
    High = 75
    Medium = 50
    Low = 25
    w1 = w1  w2 = w2  a1 = a1  a2 = a2
    engine = engine  other = other
    c1 = c1  c2 = c2  l1 = l1  l2 = l2
    None = None
    Wallet <- OneWallet
    Attestation <- OneKey
    Key <- Keys
    issuer <- EngineIssuedOne
    EngineKey = engine
    Caller <- OneCaller
    Loop <- TwoLoops
    Profiles <- CriticalOnly
    TTL = 1
    Ticks <- OneTick
    MaxAge = 0
INVARIANTS
    LockDiscipline
    LockOrder
PROPERTIES
    CallsReturn
    LoopsEnd
