SPECIFICATION Spec
CONSTANTS
  p1 = p1  p2 = p2  w1 = w1  w2 = w2  u1 = u1  u2 = u2  x1 = x1  x2 = x2  x3 = x3
  None = None
  Procs = {p1, p2}
  Wallets = {w1, w2}
  Users = {u1, u2}
  Witnesses = {x1, x2, x3}
  TxOf <- MCTxOf
  Owners <- MCOwners
  Envs <- MCEnvs
  MaxClaims = 3
  HourlyCap = 3
  StartsAt = 0
  EndsAt = 3
  Hour = 2
  Reward = 2
  ReserveBuffer = 1
  InitBalance = 5
  CacheTtl = 0
  MaxRequests = 2
  MaxRows = 2
  MaxTime = 0
  MaxCrashes = 1
  MaxProbes = 0
  MinNotionalChecks = {TRUE}
SYMMETRY ProcSymmetry
INVARIANTS TypeOK BooksMatchLedger PaidIsPaid
PROPERTIES RewardsOnce
CHECK_DEADLOCK FALSE
