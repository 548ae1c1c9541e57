SPECIFICATION FairSpec
CONSTANTS
  Trades = {t1}
  Halves = {100}
  Limits = {400, 800}
  StartLimit = 400
  BrokerCash = {1200}
  MaxUpdates = 1
  MaxPolls = 1
  MaxCrashes = 1
  MaxFaults = 1
INVARIANTS TrackingCoherent
PROPERTIES LimitConverges OverdraftOnlyByDelta
