\* Stack discipline, a stack of three.
SPECIFICATION Spec
CONSTANTS
  Items = {x, y}
  UndoMax = 3
  MaxItems = 2
  MaxBatch = 3
INVARIANTS
  StacksFit
  BatchNotSplit
  BatchesOrdered
PROPERTIES
  HistoryKept
  PasteIsOneGroup
