SPECIFICATION Spec
CONSTANTS
  App = {"x", "y"}
  Batch <- XY
  Width = 2
  Mode = "compose"
  Takeover = TRUE
  KeepFailed = FALSE
  Requested = NoPort
  NoPort = NoPort
  Index <- MCIndex
  Decls <- MCDecls
  HasSolo = {"x", "y"}
  APP_PORT = 1
  APP_SLOT_SPAN = 2
  SIDECAR_BASE = 3
  SIDECAR_STRIDE = 1
  PORT_FALLBACK_BASE = 5
  PORT_FALLBACK_SPAN = 2
  ForeignPorts = {1, 2, 5}
  InitialStacks <- AnyPlacement
  ProbeSees = TRUE
  DockerFails = TRUE
  Crashes = FALSE
INVARIANTS
  TypeOK
  PromisesDisjoint
  PromiseNotTaken
  ReservationsAccounted
  NoUpwardDrift
PROPERTIES
  OthersLeftAlone
  LeasesPorts
  LeavesForOthers
