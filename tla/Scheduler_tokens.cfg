CONSTANTS
  Reqs = {r1, r2, r3}
  r1 = r1
  r2 = r2
  r3 = r3
  None = None
  Prompt <- Prompts
  MaxNew <- ThreeEach
  Sampled = 9
  Pages = {1, 2, 3, 4, 5, 6, 7, 8}
  PageSize = 1
  MaxPrefillTokens = 8
  MaxRunning = 3
  RetractSteps = 2
  Configs <- TokenConfigs
SPECIFICATION Spec
INVARIANTS
  PagesConserved
  LocksExact
  SizesExact
  RowsRead
  NeverCrashes
  NoRequestLost
  AnsweredOnce
