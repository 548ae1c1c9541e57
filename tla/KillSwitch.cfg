SPECIFICATION Spec
CONSTANTS
  N = 2
  Qty = 2
  Tagged = {1, 2}
  Replies = {"ok"}
  Fates = {"fill", "reject"}
  Setups <- MCOnce
INVARIANTS KillSwitchFires
CHECK_DEADLOCK FALSE
