SPECIFICATION Orders
CONSTANTS
  Rows = {"r1", "r2"}
  Symbol <- MCSymbol
  Intents = {"a", "b", "x", "l"}
  Order <- MCTwice
  Wipers = {w1, w2}
  Targets = {"ALL", "Actual"}
  Replies = {"ok", "refused", "failed", "lost", "bounced"}
  Statuses = {"COMPLETE", "OTHER"}
  BrokerIds = {TRUE, FALSE}
  StartCash = 2
  MaxPanics = 1
  MaxCrashes = 1
  MaxSlips = 1
  MaxMoves = 1
  MaxOnce = 1
  MaxDays = 2
INVARIANTS OneOrderPerRow HaltHolds
PROPERTY ClosesWhatIsBooked
CHECK_DEADLOCK FALSE
