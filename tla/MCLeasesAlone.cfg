SPECIFICATION Spec
CONSTANTS
  c1 = c1
  c2 = c2
  w1 = w1
  w2 = w2
  w3 = w3
  Hosts = {h}
  Crawlers = {c1}
  Workers = {w1}
  CrawlerOf <- MCCrawlerOf
  Delay <- MCDelay
  HostDelay <- MCHostDelay
  Floor = 2
  Unit = 2
  Ttl = 3
  MaxTime = 4
  MaxTaken = 3
  MaxBreaks = 2
  MaxChanges = 0
  MaxCuts = 0
  Answers = {"open", "closed"}
  None = None
CHECK_DEADLOCK FALSE
INVARIANTS
  FallbackKeepsSpacing
