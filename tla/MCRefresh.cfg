SPECIFICATION Spec
CONSTANTS
  s = s  q = q  lend = lend
  Entities = {s, q, lend}
  Pools = {s, q}
  Absent = Absent
  NoTime = NoTime
  Mixes <- AllMixes
  Depth <- Depths
  Cadence = 2
  Window = 12
  StaleAfter = 6
  ReservesMaxAge = 8
  PriceMaxAge = 6
  BandMemory = 9
  BandMin = 100
  BandMax = 125
  MaxMove = 2
  Lookback = 2
  Limit = 1
  MaxPages = 2
  Day = 4
  Attempts = 3
INVARIANTS TypeOK NothingLost VolumeIsTheDay BannerHonest MissedCyclesTrue ValueIsRecent PriceRecovers
CHECK_DEADLOCK FALSE
