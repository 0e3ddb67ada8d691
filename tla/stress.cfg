SPECIFICATION StressSpec
CONSTANTS
  Seconds = 2
  RecoverBudget = 4
  Loads <- MCLoads
  MaxDeaths = 1
  ComesBack = TRUE
  StatsFail = TRUE
  ListFails = FALSE
INVARIANTS
  PassedWasObserved
PROPERTIES
  StressEnds
