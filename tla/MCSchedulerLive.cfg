CONSTANTS
  loraA = loraA
  loraB = loraB
  NoLora = NoLora
  NumReq = 3
  PromptLen <- LivePromptLen
  Lora <- LiveLora
  MaxTokens = 3
  RemoteReq = {2}
  MaxLoras = 1
  BlockSize = 2
  NumBlocks = 6
  WatermarkPct = 1
  MaxNumSeqs = 2
  MaxBatchedTokens = 7
  MaxModelLen = 7
  NumSpec = 2
  Lookahead = 1
  MaxInFlight = 1
  MayAbort = FALSE
SPECIFICATION FairSpec
INVARIANT
  TypeOK
PROPERTIES
  EveryRequestEnds
