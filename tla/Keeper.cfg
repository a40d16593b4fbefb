SPECIFICATION MCSpec
CONSTANTS
  Callers = {j1, j2}
  MaxSends = 2
  MaxFaults = 2
  MaxForeign = 1
  Lagging = TRUE
INVARIANTS
  OnlyTheJournalIsLive
  SentIsSettled
  NothingLandsAfterSimulation
  GivenAwayIsBounded
PROPERTIES
  ImplementsWalletLog
  PassesAreComplete
  KeeperSettles
CHECK_DEADLOCK FALSE
