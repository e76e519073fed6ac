SPECIFICATION Spec
CONSTANTS
  r1 = r1  r2 = r2  w1 = w1  w2 = w2  p1 = p1  a1 = a1  u1 = u1  u2 = u2
  NoDebt = NoDebt  Absent = Absent  Unused = Unused  Deleted = Deleted  None = None
  RuleIds = {r1}
  Conditions <- MCConditions
  Poisoned = {}
  Wallets = {w1}
  Pools = {p1}
  Users = {}
  Markets <- MCPrice
  Holders <- MCHolders
  Levels = {0, 1, 2}
  Statuses = {"Active"}
  MaxTime = 2
  MaxMoves = 3
  MaxEdits = 3
  MaxFaults = 1
INVARIANTS TypeOK FeedBacked NoRepeatedAlert LossesAreFaults
