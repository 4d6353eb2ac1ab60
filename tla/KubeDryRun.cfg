\* A dry run of a model with a job.
CONSTANTS
  Runs <- MCRuns
  NoRun = NoRun
  NoServe = NoServe
  Names <- MCNames
  Sharder <- MCSharder
  Scenarios <- JobScenarios
SPECIFICATION Spec
INVARIANTS DryRunEnactsNothing
CHECK_DEADLOCK FALSE
