SPECIFICATION FairSpec
CONSTANTS
  App = {"x", "y", "z"}
  Batch <- XXZ
  Width = 2
  Mode = "solo"
  Takeover = TRUE
  KeepFailed = FALSE
  Requested = NoPort
  NoPort = NoPort
  Index <- MCIndex
  Decls <- MCDecls
  HasSolo = {"x", "y"}
  APP_PORT = 1
  APP_SLOT_SPAN = 2
  SIDECAR_BASE = 3
  SIDECAR_STRIDE = 1
  PORT_FALLBACK_BASE = 5
  PORT_FALLBACK_SPAN = 1
  ForeignPorts = {1, 5}
  InitialStacks <- AnyPlacement
  ProbeSees = TRUE
  DockerFails = TRUE
  Crashes = TRUE
PROPERTIES
  AllSettle
