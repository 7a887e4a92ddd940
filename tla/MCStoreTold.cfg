SPECIFICATION FairSpec
CONSTANTS
  l1 = l1
  l2 = l2
  l3 = l3
  l4 = l4
  Docs = {1, 2, 3, 4}
  Labels = {l1, l2, l3, l4}
  Digest = Digest
  Batch <- MCBatch
  First = l1
  PerTier = 2
  TierFactor = 2
  MaxMerged = 7
  DocBytes = 2
  Nudgers = {c1}
  Strangers = {}
  Timers = {}
  Careful = TRUE
  Parts = 1
  MaxClashes = 0
  MaxFaults = 1
  MaxCrashes = 1
  None = None
CHECK_DEADLOCK FALSE
INVARIANTS
  ToldReplicaIsCurrent
PROPERTIES
  MergesSettle
