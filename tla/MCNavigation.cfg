\* Every way to move, with directories that vanish and come back.
SPECIFICATION NavSpec
CONSTANTS
  Root = 0
  Paths <- MCPaths
  Dirs <- MCDirs
  Parent <- MCParent
  Real <- MCReal
  Hidden <- MCHidden
  Sorted <- MCSorted
  Disks <- MCDisks
  Starts <- MCPaths
  JumpMax = 3
INVARIANTS
  WayBackToStart
PROPERTIES
  MoveRecorded
