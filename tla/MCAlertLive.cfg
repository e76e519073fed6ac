SPECIFICATION FairSpec
CONSTANTS
  r1 = r1  r2 = r2  w1 = w1  w2 = w2  p1 = p1  a1 = a1  u1 = u1  u2 = u2
  NoDebt = NoDebt  Absent = Absent  Unused = Unused  Deleted = Deleted  None = None
  RuleIds = {r1, r2}
  Conditions <- MCHealthOnly
  Poisoned = {r1}
  Wallets = {w1}
  Pools = {p1}
  Users = {u1, u2}
  Markets = {}
  Holders <- MCHolders
  Levels = {0, 2}
  Statuses = {"Active", "Frozen", "Unknown"}
  MaxTime = 1
  MaxMoves = 3
  MaxEdits = 2
  MaxFaults = 1
INVARIANTS PoolNewsIsNews ChangesAreTold
PROPERTIES BreachIsSeen
