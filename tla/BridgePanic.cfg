SPECIFICATION FairSpec
CONSTANTS
  Rows = {"r1", "r2"}
  Symbol <- MCSymbol
  Intents = {"a", "c"}
  Order <- MCPair
  Wipers = {w1}
  Targets = {"ALL"}
  Replies = {"ok"}
  Statuses = {"COMPLETE"}
  BrokerIds = {TRUE}
  StartCash = 2
  MaxPanics = 1
  MaxCrashes = 0
PROPERTY PanicCloses
CHECK_DEADLOCK FALSE
