SPECIFICATION Spec
CONSTANTS
  None = None  Free = Free
  u1 = u1  u2 = u2  a1 = a1  a2 = a2  a3 = a3  r1 = r1  r2 = r2  r3 = r3
  Users = {u1, u2}
  Addresses = {a1, a2, a3}
  Requests = {r1, r2, r3}
  Ids = {1, 2, 3}
  Nonces = {1, 2}
  Mixes <- AllMixes
  MaxConcurrent = 2
  Cooldown = 1
SYMMETRY Callers
INVARIANTS TypeOK PrimaryKept OneSigner NonceCheckedOnce SlotsMatchRefreshes
PROPERTIES PausedOnlyByPause RecoveredByOwner RefreshesSpaced
CHECK_DEADLOCK FALSE
