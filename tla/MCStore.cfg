SPECIFICATION Spec
CONSTANTS
  l1 = l1
  l2 = l2
  l3 = l3
  l4 = l4
  Docs = {1, 2, 3}
  Labels = {l1, l2}
  Digest = Digest
  Batch <- MCBatch
  First = l1
  PerTier = 2
  TierFactor = 2
  MaxMerged = 7
  DocBytes = 2
  Nudgers = {}
  Strangers = {c2}
  Timers = {t1}
  Careful = TRUE
  Parts = 2
  MaxClashes = 1
  MaxFaults = 1
  MaxCrashes = 1
  None = None
CHECK_DEADLOCK TRUE
INVARIANTS
  TypeOK
  ManifestIsWhole
  EachDocumentOnce
  ServedWasPublished
  ReplicaIsWhole
