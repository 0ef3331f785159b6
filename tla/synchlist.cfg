CONSTANTS
  t1 = t1
  t2 = t2
  t3 = t3
  w1 = w1
  w2 = w2
  w3 = w3
  Thread = {t1, t2, t3}
  ListLock = listLock
  Semaphore = {listLock, w1, w2, w3}
  InitialValue <- MCInitialValue
  WaiterOf <- MCWaiterOf
  Item = {a, b}
  MaxItems = 2
  None = None
SPECIFICATION FairSpec
INVARIANTS TypeOK MutualExclusion NoDanglingWaiter SignalIsKept
PROPERTIES ImplementsFIFOQueue ItemsFindTakers AppendReturns
CHECK_DEADLOCK FALSE
