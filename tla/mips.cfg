CONSTANTS
  t1 = t1
  t2 = t2
  Thread = {t1, t2}
  WordSize = 8
  MemorySize = 8
  Programs <- MCPrograms
  Data <- MCData
  InitialMemory <- MCMemory
SPECIFICATION Spec
PROPERTIES ImplementsCPU
CHECK_DEADLOCK FALSE
