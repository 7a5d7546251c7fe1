\* a process that sends nothing: a notify that gets through drains the queue
SPECIFICATION FairSpec
CONSTANTS
  p1 = p1
  p2 = p2
  NoModel = NoModel
  Producers = {p1, p2}
  Actions = {"WRITE", "FLUSH"}
  mMaxQueue = 2
  MaxCalls = 2
  StaleReads = TRUE
PROPERTY WokenDrains
CHECK_DEADLOCK FALSE
