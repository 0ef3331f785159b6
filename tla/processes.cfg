CONSTANTS
  MaxProcess = 4
  MaxRandom = 3
  MaxThread = 2
  Priority = {1, 2}
  Lines = 2
  TimeQuantum = 2
SPECIFICATION FairSpec
INVARIANTS TypeOK HighestPriorityRuns Placement
PROPERTIES EverybodyEnds
CHECK_DEADLOCK FALSE
