\* every read of mIsWorking current: a flush can still be stranded
SPECIFICATION FairSpec
CONSTANTS
  p1 = p1
  NoModel = NoModel
  Producers = {p1}
  Actions = {"FLUSH"}
  mMaxQueue = 2
  MaxCalls = 1
  StaleReads = FALSE
PROPERTY FlushHandled
CHECK_DEADLOCK FALSE
