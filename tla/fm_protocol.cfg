CONSTANTS
  wwww = wwww
  File1 = File1
  Thread = {t1, t2, t3}
  File = {wwww, File1}
  CallsOnWwww = {"FileTest", "DeleteIt"}
  CallsOnFile1 = {"FileTest", "Read", "Write"}
  CallsOn <- MCCallsOn
  MaxDeletes = 2
  MaxUnits = 2
  Semaphore <- MCSemaphore
  InitialValue <- MCInitialValue
  None = None
SPECIFICATION FairSpec
INVARIANTS TypeOK WriteExclusion DeleteWaitsForWriter
PROPERTIES WaiterIsServed
CHECK_DEADLOCK FALSE
