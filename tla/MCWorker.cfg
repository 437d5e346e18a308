\* Two ranks in each graph mode, with and without a drafter, with sleep mode.
CONSTANTS
  NoData = NoData
  Ptr = {1, 2}
  WeightPtr = {1}
  KvPtr = {2}
  SleepMode = TRUE
  MayRunOut = FALSE
  DPSize = 2
  Modes = {"eager", "aclgraph", "torchair"}
  Drafters = {TRUE, FALSE}
  Producers = {TRUE, FALSE}
  MaxTokens = 3
  CaptureSizes = {1, 2}
  TorchairSizes = {1, 4}
  EPSize = 1
  TPSize = 2
  NumExperts = 8
  TopK = 2
  Patterns <- MCPatterns
  Placement <- MCPlacement
  BufferRows = 4
  BlockSize = 2
  MaxModelLen = 8
  KernelBlock = 8
  MaskLen = 3
  Workspace = 6
  DboTokens = 2
  Shapes <- MCShapes
  Triples <- MCTriples
  Slices <- MCSlices
  InDims = {2, 3}
  CoreNums = {1, 2, 4}
  LoraRank = 2
  InTile = 2
  OutTile = 8
  WeightTile = 8
  Repeat = 4
  OrgVocab = 5
  AddedVocab = 3
  VocabShard = 4
  AddedShard = 2
SPECIFICATION FairSpec
INVARIANTS
  TypeOK
  SleepKeepsWeights
  SameCollective
  ContextsAgree
  DecodesFromGraphs
  MoEOutputsExact
  SpeculationExact
  AttentionExact
  RowsGetOwnWeights
PROPERTIES
  NoRankHangs
