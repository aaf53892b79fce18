SPECIFICATION FairSpec
CONSTANTS
  Account = {a1, a2}
  Burn = Burn
  None = None
  Sync = Sync
  Handler = {}
  TokenId <- MCTokens
  TrackerId <- MCTrackers
  Role = {r}
  FirstBlock = 1
  MaxBlock = 4
  MaxEvents = 4
  Interval = 1
  MinBlockDiff = 1
  MaxFailures = 1
INVARIANTS
  NothingSkipped
  RepeatsExplained
  MirrorExact
  SupplyMatches
  RolesFollow
PROPERTY
  CatchesUp
CHECK_DEADLOCK FALSE
