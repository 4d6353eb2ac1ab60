\* The examples of the repository, deployed and attached to.
CONSTANTS
  r1 = r1
  r2 = r2
  Nil = Nil
  Absent = Absent
  Runs = {r1}
  Commands <- ReadmeAttach
  Names <- MCNames
  Docs <- MCDocs
  Writes <- MCWrites
  MaxWrites = 0
  MaxCrashes = 0
SPECIFICATION Spec
PROPERTIES AttachFollows
CHECK_DEADLOCK FALSE
