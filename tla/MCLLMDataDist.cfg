\* One prefill rank, two decode ranks, MLA (two caches), one fault.
CONSTANTS
  r1 = r1
  r2 = r2
  r3 = r3
  None = None
  Req <- MCReq
  PTpSize = 1
  DTpSize = 2
  BlockSize = 2
  PromptLen <- MCPromptLen
  Cached <- MCCached
  Lookahead = 1
  NumCaches = 2
  MaxFaults = 1
SPECIFICATION FairSpec
INVARIANTS
  TypeOK
  RunsOnOwnKV
  StrandedTogether
  LinksAgree
PROPERTIES
  ImplementsHandoff
  HandedOver
CHECK_DEADLOCK FALSE
