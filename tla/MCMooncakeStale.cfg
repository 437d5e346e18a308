\* A one-token prompt, and nothing going wrong.
CONSTANTS
  r1 = r1
  r2 = r2
  None = None
  Req <- MCReq
  Sample <- MCSample
  TinyReq = {r2}
  PTpSize = 2
  DTpSize = 2
  Slot = {1}
  MayTimeout = FALSE
  LossyRank = {}
  FailReq = {}
  MayAbortInFlight = FALSE
SPECIFICATION Spec
INVARIANT
  NoStaleRecvIds
