SPECIFICATION Spec
CONSTANTS
  Lot = 4
  Classes = {"KINETIC", "POSITIONAL", "ZERO_DTE"}
  Signed = {TRUE}
  MaxCuts = 1
  MaxFaults = 1
CHECK_DEADLOCK FALSE
PROPERTY ShortsFirst
PROPERTY ArmedEndsFlat
