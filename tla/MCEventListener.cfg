SPECIFICATION ListenSpec
CONSTANTS
  Account = {a1, a2}
  Burn = Burn
  None = None
  Sync = Sync
  Drain = Drain
  Handler = {Drain, h1}
  TokenId <- MCTokens
  TrackerId <- MCTrackers
  Role = {r}
  FirstBlock = 1
  MaxBlock = 4
  MaxEvents = 3
  Interval = 1
  MinBlockDiff = 1
  MaxFailures = 0
INVARIANT
  QueueServed
CHECK_DEADLOCK FALSE
