\* Every key of the files pane and the preview, with files coming and going.
SPECIFICATION Spec
CONSTANTS
  Root = 0
  Paths <- MCPaths
  Dirs <- MCDirs
  Parent <- MCParent
  Real <- MCReal
  Hidden <- MCHidden
  Sorted <- MCSorted
  Disks <- MCDisks
  Starts = {2}
  JumpMax = 1
  Lines <- MCLines
  Media <- MCMedia
  Sizes <- MCSizes
  MinCols = 4
  MinRows = 7
  CellWidth = 2
  ScrollMax = 3
INVARIANTS
  CursorColumnDrawn
  TitleRightWhenIdle
  PreviewIsOfCursor
  PreviewFillsPane
PROPERTIES
  FrameSettles
