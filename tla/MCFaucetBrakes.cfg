SPECIFICATION Spec
CONSTANTS
  p1 = p1  p2 = p2  w1 = w1  w2 = w2  u1 = u1  u2 = u2  x1 = x1  x2 = x2  x3 = x3
  None = None
  Procs = {p1}
  Wallets = {w1, w2}
  Users = {u1, u2}
  Witnesses = {x1, x2, x3}
  TxOf <- MCTxOf
  Owners <- MCOwnersApart
  Envs <- MCEnvs
  MaxClaims = 2
  HourlyCap = 1
  StartsAt = 0
  EndsAt = 3
  Hour = 1
  Reward = 2
  ReserveBuffer = 1
  InitBalance = 5
  CacheTtl = 0
  MaxRequests = 3
  MaxRows = 3
  MaxTime = 2
  MaxCrashes = 0
  MaxProbes = 0
  MinNotionalChecks = {TRUE}
INVARIANTS BudgetHolds VelocityHolds
CHECK_DEADLOCK FALSE
