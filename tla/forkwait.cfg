CONSTANTS
  Program = {p1, p2}
  Child = {c1, c2, c3}
  ID = {1, 2}
  OncePerID = TRUE
  Nil = Nil
SPECIFICATION ForkWaitFairSpec
INVARIANTS ForkWaitTypeOK ChildrenAreAlive SleeperHasChild NeverReadyTwice
PROPERTIES WaitEnds
CHECK_DEADLOCK FALSE
