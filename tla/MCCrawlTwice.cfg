SPECIFICATION Spec
CONSTANTS
  a = a
  b = b
  c = c
  d = d
  h1 = h1
  h2 = h2
  h3 = h3
  Urls = {a, b, c}
  Hosts = {h1, h2, h3}
  HostOf <- MCHostOf
  Seeds <- MCSeeds
  MaxPages = 9
  MaxPagesPerHost = 9
  MaxDepth = 4
  SameHostOnly = FALSE
  AnchorCap = 32
  Workers = {w1}
  Target <- SameTarget
  Links <- MCLinks
  NoIndex = {}
  Flaky = {}
  ChannelCap = 1
  Interval = 2
  MaxLives = 2
  MaxFaults = 0
  Torn = Torn
  None = None
SYMMETRY AlikeWorkers
CHECK_DEADLOCK TRUE
INVARIANTS
  FinishedCheckpointRebuilds
