\* Two processes, another client and a crash; the system stops when the processes have ended.
CONSTANTS
  r1 = r1
  r2 = r2
  Nil = Nil
  Absent = Absent
  Runs = {r1, r2}
  Commands <- MCCommands
  Names <- MCNames
  Docs <- MCDocs
  Writes <- MCWrites
  MaxWrites = 1
  MaxCrashes = 1
SPECIFICATION FairSpec
INVARIANTS TypeOK EnactsRegistered FetchedIsValid NoNilFollowed
PROPERTIES Terminates
CHECK_DEADLOCK FALSE
