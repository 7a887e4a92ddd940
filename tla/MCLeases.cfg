SPECIFICATION FairSpec
CONSTANTS
  c1 = c1
  c2 = c2
  w1 = w1
  w2 = w2
  w3 = w3
  Hosts = {h}
  Crawlers = {c1, c2}
  Workers = {w1, w2, w3}
  CrawlerOf <- MCCrawlerOf
  Delay <- MCDelay
  HostDelay <- MCHostDelay
  Floor = 2
  Unit = 2
  Ttl = 1
  MaxTime = 2
  MaxTaken = 2
  MaxBreaks = 1
  MaxChanges = 1
  MaxCuts = 1
  Answers = {"open", "closed"}
  None = None
CHECK_DEADLOCK FALSE
INVARIANTS
  TypeOK
  NoRequestBeforeItsSlot
  GapsKept
  SharedRateHolds
  PagesNeedAnAnswer
  RobotsOncePerWorker
PROPERTIES
  EveryQuestionEnds
