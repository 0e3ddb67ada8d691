SPECIFICATION RulesSpec
CHECK_DEADLOCK FALSE
CONSTANTS
  PathQuestions = {}
  PairQuestions = {}
  CatalogQuestions = {}
  Reports = {}
  TrackQuestions = {}
  StripQuestions = {}
  ImageQuestions = {}
  ReportQuestions <- MCReportQuestions
  CoverageQuestions = {}
  UrlOf <- MCUrlOf
  PortOf <- MCPortOf
  MaxRows = 3
  MaxRowsUp = 2
INVARIANTS
  FlatLifted
