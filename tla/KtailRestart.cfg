\* A pod of a StatefulSet that restarts under its name; no errors, no stale lists.
CONSTANTS
  Pods = {p1}
  MaxChanges = 4
  StaleLists = FALSE
  Errors = FALSE
SPECIFICATION FairSpec
PROPERTIES ExistingIsTailed
CHECK_DEADLOCK FALSE
