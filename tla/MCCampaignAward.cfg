SPECIFICATION FairSpec
CONSTANTS
  Free = Free  None = None  Scrubbed = Scrubbed
  Wallets = {w1, w2}
  Txs = {1, 2}
  Requests = {}
  Tasks = {}
  Handles = {}
  BasePoints <- MCBasePoints
  DailyCap <- MCDailyCap
  CheckinPoints = 5
  ReferrerPoints = 100
  RefereePoints = 50
  TaskPoints <- MCTaskPoints
  SocialCap = 50
  Tiers <- NoTiers
  StartDay = 0
  EndDay = 2
  MaxDay = 2
  MaxClaims = 0
  MaxFaults = 1
INVARIANTS TypeOK CapsHold StreakFixed ReferralPaysBoth
PROPERTIES ActionsArePaid ReferralsArePaid
