\* A slow answer from the prefill engine, and nothing else going wrong.
CONSTANTS
  r1 = r1
  r2 = r2
  None = None
  Req <- MCReq
  Sample <- MCSample
  TinyReq = {}
  PTpSize = 2
  DTpSize = 2
  Slot = {1}
  MayTimeout = TRUE
  LossyRank = {}
  FailReq = {}
  MayAbortInFlight = FALSE
SPECIFICATION Spec
INVARIANT
  AlwaysSignalled
