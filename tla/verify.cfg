SPECIFICATION VerifySpec
CONSTANTS
  PoC = {1, 2}
  Skip = {}
  Commands <- AllLines
  Truths <- FirstUnknown
  Budget = 1
  MaxFaults = 1
  Recovers = TRUE
  DockerFails = TRUE
INVARIANTS
  VerdictsHold
  ExitZeroIsEarned
  FreshState
  TornDown
PROPERTIES
  CommandEnds
