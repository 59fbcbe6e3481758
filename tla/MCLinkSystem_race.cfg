CONSTANTS
  N = 2
  Plugins <- MCPlugins
  DisabledSets <- MCDisabledSets
  Modes = {"suite"}
  CacheLimit = 2
  Host = 1
  e1 = e1
  e2 = e2
  Interfaces = {e1, e2}
  NoLink = NoLink
  FlapCnt = 2
  FlapInt = 1
  MaxTime = 3
  MaxDowns <- MCMaxDowns
  MaxRuns = 2
SPECIFICATION FairSpec
INVARIANT ConfigIsFound
CHECK_DEADLOCK FALSE
