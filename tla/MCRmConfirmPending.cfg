\* A question pending, and the user somewhere else than at the answer.
SPECIFICATION Spec
CONSTANTS
  Dirs <- MCDirs
  Names <- MCNames
  SelName = 2
  Blanks <- MCBlanks
  InitDisk <- MCDisk
  Commands <- MCCommands
  ListMax = 4
  MaxChanges = 0
PROPERTIES
  RemovesWhatWasListed
