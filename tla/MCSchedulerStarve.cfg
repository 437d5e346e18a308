\* The second prompt needs every block of kv_cache_config.num_blocks.
CONSTANTS
  loraA = loraA
  loraB = loraB
  NoLora = NoLora
  NumReq = 2
  PromptLen <- FullPromptLen
  Lora <- FullLora
  MaxTokens = 3
  RemoteReq = {}
  MaxLoras = 1
  BlockSize = 2
  NumBlocks = 6
  WatermarkPct = 1
  MaxNumSeqs = 2
  MaxBatchedTokens = 12
  MaxModelLen = 12
  NumSpec = 0
  Lookahead = 0
  MaxInFlight = 1
  MayAbort = FALSE
SPECIFICATION FairSpec
PROPERTIES
  TooLongEnds
