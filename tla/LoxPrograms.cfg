SPECIFICATION LoxSpec
CONSTANTS
  Grammars <- Programs
  Identifiers = {}
  Pair = {}
  Numbers = {1}
  MaxFrames = 3
  MaxObjects = 8
INVARIANTS
  AbortsOnValuesOnly
  Layout
  ThisIsInstance
PROPERTIES
  ReturnReplacesCall
  InitReturnsInstance
CHECK_DEADLOCK FALSE
