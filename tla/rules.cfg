SPECIFICATION RulesSpec
CHECK_DEADLOCK FALSE
CONSTANTS
  PathQuestions <- MCPathQuestions
  PairQuestions <- MCPairQuestions
  CatalogQuestions <- MCCatalogQuestions
  Reports <- MCReports
  TrackQuestions <- MCTrackQuestions
  StripQuestions <- MCStripQuestions
  ImageQuestions <- MCImageQuestions
  ReportQuestions <- MCReportQuestions
  CoverageQuestions <- MCCoverageQuestions
  UrlOf <- MCUrlOf
  PortOf <- MCPortOf
  MaxRows = 3
  MaxRowsUp = 2
INVARIANTS
  StrictNeverFolds
  StaticRouteOwnsPath
  Distinguishable
  MissSplit
  OrderFree
  LabelsOnly
  ReportKept
