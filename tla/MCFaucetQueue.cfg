SPECIFICATION FairSpec
CONSTANTS
  p1 = p1  p2 = p2  w1 = w1  w2 = w2  u1 = u1  u2 = u2  x1 = x1  x2 = x2  x3 = x3
  None = None
  Procs = {p1}
  Wallets = {w1}
  Users = {u1, u2}
  Witnesses = {x1}
  TxOf <- MCTxOf
  Owners <- MCOwnersApart
  Envs <- MCEnvsAll
  MaxClaims = 2
  HourlyCap = 2
  StartsAt = 0
  EndsAt = 3
  Hour = 2
  Reward = 2
  ReserveBuffer = 1
  InitBalance = 4
  CacheTtl = 2
  MaxRequests = 2
  MaxRows = 2
  MaxTime = 1
  MaxCrashes = 1
  MaxProbes = 1
  MinNotionalChecks = {TRUE, FALSE}
PROPERTIES ClaimsAnswered
CHECK_DEADLOCK FALSE
