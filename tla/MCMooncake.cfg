\* Late answers, lost messages, failed reads and aborts during the pull; the two
\* requests share the one slot of the decode engine, so the second reuses the
\* first one's blocks while a thread may still read into them.  A thread may
\* wait for ever for a lost answer (CHECK_DEADLOCK FALSE).
CONSTANTS
  r1 = r1
  r2 = r2
  None = None
  Req <- MCReq
  Sample <- MCSample
  TinyReq = {}
  PTpSize = 2
  DTpSize = 2
  Slot = {1}
  MayTimeout = TRUE
  LossyRank = {1}
  FailReq = {r1}
  MayAbortInFlight = TRUE
SPECIFICATION Spec
INVARIANTS
  TypeOK
  HeldUntilPulled
  ReportedWhileHeld
  SignalInOnePlace
  ReceivedByAllRanks
  RunsOnOwnKV
PROPERTIES
  ImplementsHandoff
CHECK_DEADLOCK FALSE
