\* The tear-down of README.md.
CONSTANTS
  r1 = r1
  r2 = r2
  Nil = Nil
  Absent = Absent
  Runs = {r1}
  Commands <- ReadmeTearDown
  Names <- MCNames
  Docs <- MCDocs
  Writes <- MCWrites
  MaxWrites = 0
  MaxCrashes = 0
SPECIFICATION Spec
PROPERTIES TearDownDeletes
CHECK_DEADLOCK FALSE
