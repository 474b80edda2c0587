CONSTANTS
  Reqs = {r1, r2, r3}
  r1 = r1
  r2 = r2
  r3 = r3
  None = None
  Prompt <- PagedPrompts
  MaxNew <- ThreeEach
  Sampled = 9
  Pages = {1, 2, 3, 4, 5, 6}
  PageSize = 2
  MaxPrefillTokens = 8
  MaxRunning = 3
  RetractSteps = 2
  Configs <- PagedConfigs
SPECIFICATION FairSpec
INVARIANTS
  PagesConserved
PROPERTIES
  AllAnswered
