SPECIFICATION ScoreFairSpec
CONSTANTS
  Finding = {0, 1, 2}
  SafeFinding = {3}
  Bug = {0, 1, 2}
  NearMiss = {0, 1}
  Incidental = {0}
  None = None
  ROUTE = 5
  WEAK = 1
  Inputs <- Lists
  Scorings <- MCScorings
INVARIANTS
  OneToOne
  MostBugs
  StrongestWin
  NoneLost
  CreditEarned
  MissedForAReason
  OtherIsAboutNothing
  IncidentalNotCharged
PROPERTIES
  AugmentsOnly
  Returns
