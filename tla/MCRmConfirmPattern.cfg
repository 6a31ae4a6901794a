\* A selected name with a blank in it.
SPECIFICATION Spec
CONSTANTS
  Dirs <- MCDirs
  Names <- MCNames
  SelName = 0
  Blanks <- MCBlanks
  InitDisk <- MCDisk
  Commands <- MCPatterns
  ListMax = 4
  MaxChanges = 0
PROPERTIES
  NothingListedGoesUnasked
