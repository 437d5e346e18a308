\* A row that condense left keeps the mask of the request that was moved.
CONSTANTS
  NumReq = 3
  MaxNumReqs = 3
  MaxSubmits = 4
  MaxLen = 2
  MaxPreempts = 0
  MaxBlocks = 1
  Seeded = {}
  Masked = {2}
  Adapter <- NoAdapter
  Backends = {"attention"}
SPECIFICATION Spec
INVARIANT MaskedByOwn
