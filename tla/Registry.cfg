\* Three requests in flight at once; the system stops when all are answered.
CONSTANTS
  Requests = {r1, r2, r3}
  n1 = n1
  n2 = n2
  b1 = b1
  b2 = b2
  Names <- MCNames
  Bodies <- MCBodies
  Null = Null
  Absent = Absent
  Asks <- MCAsks
  NoOne = NoOne
SPECIFICATION FairSpec
INVARIANTS TypeOK
PROPERTIES Linearizable AllServed
CHECK_DEADLOCK FALSE
