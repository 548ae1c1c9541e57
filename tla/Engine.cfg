SPECIFICATION FairSpec
CONSTANTS
  Knights = {"ic", "el"}
  Kind <- MCKind
  Symbols = {s1, s2}
  MaxFaults = 1
INVARIANTS BasketsWhole
PROPERTIES Silenced BanHonoured Unloaded
