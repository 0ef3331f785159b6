CONSTANTS
  Name = {f}
  Handle = {h1}
  NumSectors = 13
  SectorSize = 2
  NumDirect = 2
  PerIndirect = 4
  NumDirEntries = 2
  SystemSectors = 4
  Slack = 5
  FileSize = {2}
  WriteRange <- MCWriteWhole
  NoName = NoName
SPECIFICATION Spec
INVARIANT WriteKeepsTheRest
CHECK_DEADLOCK FALSE
