\* All operations, with another process changing the files.
SPECIFICATION Spec
CONSTANTS
  Dir = Dir
  a = a
  b = b
  c = c
  d = d
  e = e
  dot = dot
  InitFs <- MCFiles
  Letters <- MCLetters
  Hidden <- MCHidden
  Places <- MCPlaces
  NewNames <- MCTakenNames
  TrashDir <- MCTrashDir
  UndoMax = 10
  RegisterMax = 2
  MaxFiles = 4
  Kinds = {"RENAME", "TRASH", "DELETE_PERM", "MOVE"}
  Careful = FALSE
  MaxCommands = 2
  MaxForeign = 1
  MaxTime = 0
INVARIANTS
  TypeOK
  RegisterHasNoDuplicates
PROPERTIES
  PasteLosesNothing
  PasteAccountsForAll
  UndoRestores
  UndoableWhenAlone
CHECK_DEADLOCK FALSE
