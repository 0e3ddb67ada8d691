SPECIFICATION ASpec
CHECK_DEADLOCK FALSE
CONSTANTS
  GenericSymbols = {"get"}
  GenericRouteTokens = {"api"}
  MaxBodySpan = 2
  Trees <- MCTrees
  App <- MCApp
  Bugs <- MCBugs
  FirstKey <- MCFirstKey
  FirstCatalog <- MCFirstCatalog
  HandOps <- MCHandOps
  MaxEdits = 3
INVARIANTS
  GreenLinesApart
PROPERTIES
  CatalogKeeps
