\* two callers that write and send, stale reads of mIsWorking included
SPECIFICATION Spec
CONSTANTS
  p1 = p1
  p2 = p2
  NoModel = NoModel
  Producers = {p1, p2}
  Actions = {"WRITE", "SEND"}
  mMaxQueue = 2
  MaxCalls = 2
  StaleReads = TRUE
SYMMETRY Callers
INVARIANTS TypeOK Conservation OneUpload CallOrder WriteOvershoot
PROPERTY ImplementsPipe
CHECK_DEADLOCK FALSE
