CONSTANTS
  loraA = loraA
  loraB = loraB
  NoLora = NoLora
  NumReq = 4
  PromptLen <- MCPromptLen
  Lora <- MCLora
  MaxTokens = 3
  RemoteReq = {3}
  MaxLoras = 1
  BlockSize = 2
  NumBlocks = 6
  WatermarkPct = 1
  MaxNumSeqs = 3
  MaxBatchedTokens = 14
  MaxModelLen = 14
  NumSpec = 1
  Lookahead = 1
  MaxInFlight = 2
  MayAbort = TRUE
SPECIFICATION Spec
INVARIANTS
  AssertionsHold
  ScheduledIffInFlight
  OneBatchPerRequest
  BatchIsRunning
  BlocksAccounted
  FirstComeFirstServed
