SPECIFICATION FairSpec
CONSTANTS
  a = a
  b = b
  c = c
  d = d
  h1 = h1
  h2 = h2
  h3 = h3
  Urls = {a, b, c, d}
  Hosts = {h1, h2, h3}
  HostOf <- MCHostOf
  Seeds <- AllButOne
  MaxPages = 2
  MaxPagesPerHost = 1
  MaxDepth = 4
  SameHostOnly = TRUE
  AnchorCap = 32
  Workers = {w1, w2}
  Target <- SameTarget
  Links <- MCLinks
  NoIndex = {}
  Flaky = {b}
  ChannelCap = 1
  Interval = 1
  MaxLives = 3
  MaxFaults = 0
  Torn = Torn
  None = None
CHECK_DEADLOCK TRUE
INVARIANTS
  CrawlKeepsItsLimits
PROPERTIES
  CrawlEnds
