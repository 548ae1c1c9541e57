SPECIFICATION Spec
CONSTANTS
  Keep = 2
  MaxTicks = 3
  MaxCrashes = 1
  MaxFailures = 1
  Figures = {0, 1}
  Tries = 2
  MaxWrites = 2
  MaxStarts = 1
  Bucket = 2
  Volumes = {1, 5}
  Prices = {1, 3}
  FlowTicks = 4
  FlowFaults = 1
  Signals = {"asto", "vix"}
  Early = {"asto"}
  Lots = {1, 6}
  Unit = 2
  Cash = 6
  Others = {0, 5}
  RouterFaults = 1
INVARIANTS SlotLeads ReadsSound FlowBounded MarginAccounted VetoHolds
CHECK_DEADLOCK FALSE
