\* The user may do anything before answering, other processes too.
SPECIFICATION Spec
CONSTANTS
  Dirs <- MCDirs
  Names <- MCNames
  SelName = 2
  Blanks <- MCBlanks
  InitDisk <- MCDisk
  Commands <- MCCommands
  ListMax = 2
  MaxChanges = 1
PROPERTIES
  YesRemovesAllAsked
  YesRemovesOnlyAsked
