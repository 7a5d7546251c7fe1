\* every read of mIsWorking current: sync and sendSync in opposite orders
SPECIFICATION NotifyOnlySpec
CONSTANTS
  p1 = p1
  p2 = p2
  NoModel = NoModel
  Producers = {p1, p2}
  Actions = {"SEND"}
  mMaxQueue = 2
  MaxCalls = 2
  StaleReads = FALSE
INVARIANT NoLockCycle
CHECK_DEADLOCK FALSE
