\* One pod name through three incarnations; the cluster may come to rest.
CONSTANTS
  Pods = {p1}
  MaxChanges = 6
  StaleLists = TRUE
  Errors = TRUE
SPECIFICATION FairSpec
INVARIANTS TypeOK OneLiveTailer MapMirrorsView StopOnlyDead OnlyStragglersOverlap HistoryOnlyForNewPods
PROPERTIES GoneMeansEnded SeenIsTailed
CHECK_DEADLOCK FALSE
