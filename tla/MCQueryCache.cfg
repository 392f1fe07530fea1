CONSTANTS
  g1 = g1
  g2 = g2
  Threads = {g1, g2}
  NoThread = NoThread
  Keys <- MCKeys
  Docs <- MCDocs
  Queries <- MCQueries
  NoQuery = "none"
  ParseOf <- MCParseOf
  Run <- MCRun
  Results <- MCResults
  SyntaxError = "syntax"
  NoReply = "noreply"
  Limit = 1
SPECIFICATION FairSpec
INVARIANTS
  NoMapRace
  CacheBounded
PROPERTIES
  CallsReturn
  ImplementsUncached
