\* Two runs with any commands; the system stops when both have ended.
CONSTANTS
  Runs = {r1, r2}
  NoOne = NoOne
  Names = {"a", "b"}
  Commands <- MCCommands
SPECIFICATION Spec
INVARIANTS TypeOK Accounted
PROPERTIES CleansUp
CHECK_DEADLOCK FALSE
