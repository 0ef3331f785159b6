CONSTANTS
  Thread = {t1, t2, t3}
  lock = lock
  disk = disk
  Semaphore = {lock, disk}
  DeviceSemaphore = {disk}
  InitialValue <- MCInitialValue
  Quantum = {0, 2}
  MaxValue = 2
  None = None
SPECIFICATION FairSpec
INVARIANTS TypeOK NoLostWakeup ThreadPlacement OneCarcass
PROPERTIES ReadyRuns UnitIsTaken
CHECK_DEADLOCK FALSE
