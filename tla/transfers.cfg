CONSTANTS
  c1 = c1
  c2 = c2
  w1 = w1
  w2 = w2
  existing = existing
  none = none
  Wallet <- MCWallet
  Call <- MCCall
  Existing = existing
  None = none
  Launches <- MCLaunches
  MaxAttempts = 2
SPECIFICATION Spec
SYMMETRY Calls
INVARIANTS
  ApprovalIsGrounded
  SignatureMeansMint
  MintHasHook
  RejectedMintHadRival
CHECK_DEADLOCK FALSE
