\* Late answers, a one-token prompt and a request aborted while it is pulled.
CONSTANTS
  r1 = r1
  r2 = r2
  None = None
  Req <- MCReq
  Sample <- MCSample
  TinyReq = {r2}
  PTpSize = 2
  DTpSize = 2
  Slot = {1}
  MayTimeout = TRUE
  LossyRank = {}
  FailReq = {}
  MayAbortInFlight = TRUE
SPECIFICATION FairSpec
PROPERTIES
  
  PrefillReleased
