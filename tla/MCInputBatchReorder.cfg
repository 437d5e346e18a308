\* The MLA backend reorders the batch after its metadata was refreshed.
CONSTANTS
  NumReq = 2
  MaxNumReqs = 2
  MaxSubmits = 2
  MaxLen = 2
  MaxPreempts = 0
  MaxBlocks = 1
  Seeded = {}
  Masked = {}
  Adapter <- NoAdapter
  Backends = {"mla"}
SPECIFICATION Spec
INVARIANT SampledWithOwnParams
