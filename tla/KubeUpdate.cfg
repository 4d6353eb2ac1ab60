\* A second deployment of a deployed model.
CONSTANTS
  Runs <- MCRuns
  NoRun = NoRun
  NoServe = NoServe
  Names <- MCNames
  Sharder <- MCSharder
  Scenarios <- UpdateScenarios
SPECIFICATION Spec
PROPERTIES UpdateAccepted
CHECK_DEADLOCK FALSE
