CONSTANTS
  w1 = w1
  w2 = w2
  m1 = m1
  None = None
  Wallet = {w1, w2}
  MockKey = {m1}
  Verified = {w1}
  MaxChecks = 2
SPECIFICATION Spec
INVARIANT GateMatchesWallet
CHECK_DEADLOCK FALSE
