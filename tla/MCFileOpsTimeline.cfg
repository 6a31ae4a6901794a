\* Rename and move, alone with the files: the history is a line of states.
SPECIFICATION Spec
CONSTANTS
  Dir = Dir
  a = a
  b = b
  c = c
  d = d
  e = e
  dot = dot
  InitFs <- MCRootFiles
  Letters <- MCLetters
  Hidden <- MCHidden
  Places <- MCPlacesRoot
  NewNames <- MCNewNames
  TrashDir <- MCTrashDir
  UndoMax = 2
  RegisterMax = 1
  MaxFiles = 4
  Kinds = {"RENAME", "MOVE"}
  Careful = TRUE
  MaxCommands = 3
  MaxForeign = 0
  MaxTime = 1
PROPERTIES
  FollowsTimeline
CHECK_DEADLOCK FALSE
