SPECIFICATION WorkerSpec
CONSTANTS
  Service = {s}
  Window = {w}
  OneShot = {o}
  Nobody = Nobody
  Other = Other
  Stale = 3
  MaxDeploy = 1
  MaxTrouble = 2
  End = 5
  Strides = {1, 3}
  HistoryStep = 2
  ConvertAll = FALSE
  SweepStride = 2
  NoGuide = NoGuide
  Lengths = {3, 4, 5, 6}
  MaxBad = 1
  Depth = 2
  MaxReports = 3
  MaxMishaps = 2
INVARIANTS  LastReportIsShown
PROPERTIES SomeProcessWorks ProcessCatchesUp SameAsSequential AnalysisIsOver
CHECK_DEADLOCK FALSE
