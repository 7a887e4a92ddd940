SPECIFICATION FairSpec
CONSTANTS
  c1 = c1
  c2 = c2
  c3 = c3
  q1 = q1
  q2 = q2
  Terms <- MCTerms
  Frequency <- MCFrequency
  Length <- MCLength
  DefaultParams = 1
  ShardCount = 2
  Group <- MCGroup
  Versions <- MCVersions
  Queries = {q1, q2}
  Text <- MCText
  MaxDeaths = 1
  MaxRefreshes = 1
  None = None
CHECK_DEADLOCK FALSE
INVARIANTS
  TypeOK
  RepliesMatch
  AnswersAreTopK
  AnswersAsOneIndex
PROPERTIES
  QueriesEnd
