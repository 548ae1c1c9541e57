SPECIFICATION Spec
CONSTANTS
  Traders = {t1, t2}
  Spellings <- MCSpellings
  Halves = {1, 2, 3}
  Limits = {2, 5, 8}
  Alloc <- MCAlloc
  StartLimit = 5
  Synced = {"LIVE"}
  MaxEquity <- MCMaxEquity
INVARIANTS BooksBalance LockedIsHeld
PROPERTIES GrantsAreBacked OverdraftOnlyBySync NoMoneyFound LedgerRefined
