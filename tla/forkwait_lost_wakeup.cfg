CONSTANTS
  Program = {p1, p2}
  Child = {c1, c2, c3}
  ID = {1, 2}
  OncePerID = FALSE
  Nil = Nil
SPECIFICATION ForkWaitFairSpec
PROPERTIES WaitEnds
CHECK_DEADLOCK FALSE
