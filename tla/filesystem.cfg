CONSTANTS
  Name = {f, g}
  Handle = {h1, h2}
  NumSectors = 12
  SectorSize = 2
  NumDirect = 2
  PerIndirect = 4
  NumDirEntries = 2
  SystemSectors = 4
  Slack = 5
  FileSize = {2, 4, 7}
  WriteRange <- MCWriteRange
  NoName = NoName
SPECIFICATION Spec
INVARIANTS TypeOK NoSharedSectors
 
SYMMETRY Symmetry
CHECK_DEADLOCK FALSE
