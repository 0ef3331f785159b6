CONSTANTS
  wwww = wwww
  File1 = File1
  Thread = {t1, t2, t3}
  File = {wwww, File1}
  CallsOnWwww = {}
  CallsOnFile1 = {"WriteTo"}
  CallsOn <- MCCallsOn
  MaxDeletes = 0
  MaxUnits = 2
  Semaphore <- MCSemaphore
  InitialValue <- MCInitialValue
  None = None
SPECIFICATION FairSpec
PROPERTIES CallsReturn
CHECK_DEADLOCK FALSE
