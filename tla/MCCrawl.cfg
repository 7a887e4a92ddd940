SPECIFICATION Spec
CONSTANTS
  a = a
  b = b
  c = c
  d = d
  h1 = h1
  h2 = h2
  h3 = h3
  Urls = {a, b, c, d}
  Hosts = {h1, h2, h3}
  HostOf <- MCHostOf
  Seeds <- MCSeeds
  MaxPages = 9
  MaxPagesPerHost = 9
  MaxDepth = 4
  SameHostOnly = FALSE
  AnchorCap = 32
  Workers = {w1, w2}
  Target <- MovedTarget
  Links <- MCLinks
  NoIndex = {d}
  Flaky = {b}
  ChannelCap = 1
  Interval = 2
  MaxLives = 2
  MaxFaults = 1
  Torn = Torn
  None = None
SYMMETRY AlikeWorkers
CHECK_DEADLOCK TRUE
INVARIANTS
  TypeOK
  CheckpointLeavesNoGap
  CheckpointKeepsLinks
  WaitingKeepAnchors
  OnlyRedirectsIndexTwice
  FinishedIndexIsComplete
