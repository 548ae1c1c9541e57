SPECIFICATION FairSpec
CONSTANTS
  N = 2
  Qty = 2
  Tagged = {1, 2}
  Replies = {"ok", "refused", "lost", "skipped"}
  Fates = {"fill", "reject", "cancel"}
  Setups <- MCBoth
INVARIANTS NoCloseWithoutRefusal ThreeStrikes
PROPERTIES Reviewed NoFillAfterRollback
CHECK_DEADLOCK FALSE
