\* A caller and two webhook requests: the entry of one wallet and the lock on
\* its subscribers.
CONSTANTS
    w1 = w1
    r1 = r1
    r2 = r2
    c1 = c1
    c2 = c2
    h1 = h1
    h2 = h2
    Wallet = {w1}
    Requirement = {r1}
    Caller = {c1}
    Handler = {h1, h2}
    TTL = 2
    Capacity = 1
    MaxAge = 0
    MaxSubscribers = 2
    EventSets <- OneKind
    None = None
SPECIFICATION FairSpec
PROPERTIES
    HandlersReturn
    RevokedIsRefused
