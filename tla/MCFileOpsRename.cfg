\* Rename to any name, alone with the files.
SPECIFICATION Spec
CONSTANTS
  Dir = Dir
  a = a
  b = b
  c = c
  d = d
  e = e
  dot = dot
  InitFs <- MCFiles
  Letters <- MCLetters
  Hidden <- MCHidden
  Places <- MCPlaces
  NewNames <- MCTakenNames
  TrashDir <- MCTrashDir
  UndoMax = 10
  RegisterMax = 2
  MaxFiles = 4
  Kinds = {"RENAME"}
  Careful = FALSE
  MaxCommands = 3
  MaxForeign = 0
  MaxTime = 0
PROPERTIES
  OperationsUndoable
CHECK_DEADLOCK FALSE
