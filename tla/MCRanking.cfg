SPECIFICATION FairSpec
CONSTANTS
  a = a
  b = b
  c = c
  d = d
  r1 = r1
  r2 = r2
  Pages = {a, b, c, d}
  Webs <- MCWebs
  Whole = 16384
  Num = 1
  Den = 2
  Tolerance = 900
  MaxIterations = 3
  ShardCount = 2
  Partitions <- MCPartitions
  Runs = {r1, r2}
  MaxRestarts = 2
  MaxCuts = 1
  None = None
CHECK_DEADLOCK TRUE
INVARIANTS
  TypeOK
  MassIsConserved
PROPERTIES
  LedByOne
  RunsEnd
  RanksAsOneProcess
