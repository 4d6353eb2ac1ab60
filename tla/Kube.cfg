\* Two overlapping runs and a third behind them, or three runs one after another; the
\* system stops when every run has ended.
CONSTANTS
  Runs <- MCRuns
  NoRun = NoRun
  NoServe = NoServe
  Names <- MCNames
  Sharder <- MCSharder
  Scenarios <- MCScenarios
SPECIFICATION FairSpec
INVARIANTS TypeOK Accounted OkMeansDeployed OnlyServedIsExposed ServedIsReachable DryRunForetells
PROPERTIES TornDown RoundTrip DryRunKeepsServices Terminates
CHECK_DEADLOCK FALSE
