\* Three rows, three ids, one of them submitted again, and a preemption.
CONSTANTS
  NumReq = 3
  MaxNumReqs = 3
  MaxSubmits = 3
  MaxLen = 2
  MaxPreempts = 1
  MaxBlocks = 2
  Seeded = {1, 2}
  Masked = {}
  Adapter <- MCAdapter
  Backends = {"attention", "mla"}
SPECIFICATION Spec
INVARIANTS
  TypeOK
  BatchIsScheduled
  RowsBelong
  GeneratorsBelong
  AdaptersBelong
  SamplerFollows
  UpdatesFollow
