CONSTANTS
  t1 = t1
  t2 = t2
  Thread = {t1, t2}
  PagesOfT1 = 2
  PagesOfT2 = 1
  NumPages <- MCNumPages
  NumPhysPages = 2
  Value = {0, 1}
  Zero = 0
  MaxBuffer = 1
  None = None
SPECIFICATION FairSpec
INVARIANTS TypeOK FrameOwnership CleanPagesInSwap RegisterFollowsThread
PROPERTIES ImplementsPrivateMemory InstructionCompletes
CHECK_DEADLOCK FALSE
