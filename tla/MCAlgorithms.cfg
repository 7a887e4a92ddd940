SPECIFICATION Spec
CHECK_DEADLOCK FALSE
CONSTANTS
  RobotsGroups <- MCRobotsGroups
  Agents <- MCAgents
  Paths <- MCPaths
  Pages <- MCPages
  Urls <- MCUrls
  DrawSequences <- MCDrawSequences
  Shards = 4
  Draws = 5
  Texts <- MCTexts
  Typings <- MCTypings
  SnippetWidth = 12
  Reach = 2
  Digit = 4
  Digits = 3
  Numbers = 32
  ShortNumbers = 16
  FloatBytes = 2
  MaxCollection = 5
  MaxString = 3
  MaxFrame = 24
  Requests <- MCRequests
  Responses <- MCResponses
  Built <- MCBuilt
INVARIANTS
  RobotsObeyed
  LinksKeepTheirText
  AddressesAreStable
  MatchesAreShown
  BytesReadBack
