SPECIFICATION SessionSpec
CONSTANTS
  Grammars <- SessionPrograms
  Numbers = {}
  MaxFrames = 4
  MaxObjects = 20
  MaxSources = 3
INVARIANT
  EmptyAtEnd
CHECK_DEADLOCK FALSE
