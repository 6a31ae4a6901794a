\* Every key, with the directories changing under the listing.
SPECIFICATION Spec
CONSTANTS
  Top = Top
  NoDir = NoDir
  Names <- MCNames
  DirNames <- MCDirNames
  InitDisk <- MCDisk
  HalfPage = 2
  RegisterMax = 2
  MaxChanges = 3
INVARIANTS
  TypeOK
  CursorInRange
  SelectionCounted
  FlagsMatchRegister
  DialogTellsTargets
PROPERTIES
  CursorLostOnlyByPaging
  SelectionDiesWithListing
