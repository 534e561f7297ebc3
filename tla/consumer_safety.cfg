\* Two requirements and a cache of one entry, so that a put drops the other
\* requirement's entry.
CONSTANTS
    w1 = w1
    r1 = r1
    r2 = r2
    c1 = c1
    c2 = c2
    h1 = h1
    h2 = h2
    Wallet = {w1}
    Requirement = {r1, r2}
    Caller = {c1}
    Handler = {h1}
    TTL = 2
    Capacity = 1
    MaxAge = 4
    MaxSubscribers = 0
    EventSets <- Events
    None = None
SPECIFICATION Spec
INVARIANTS
    Honest
    StaleAllowIsBounded
