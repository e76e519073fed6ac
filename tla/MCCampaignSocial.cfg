SPECIFICATION Spec
CONSTANTS
  Free = Free  None = None  Scrubbed = Scrubbed
  Wallets = {w1, w2}
  Txs = {}
  Requests = {q1, q2}
  Tasks = {follow, join}
  Handles = {h1, h2}
  BasePoints <- MCBasePoints
  DailyCap <- MCDailyCap
  CheckinPoints = 5
  ReferrerPoints = 100
  RefereePoints = 50
  TaskPoints <- MCTaskPoints
  SocialCap = 40
  Tiers <- MCTiers
  StartDay = 0
  EndDay = 1
  MaxDay = 1
  MaxClaims = 3
  MaxFaults = 1
INVARIANTS OneHandlePerWallet SocialBooks SocialCapHolds PerksEarned
