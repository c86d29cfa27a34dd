SPECIFICATION LoxSpec
CONSTANTS
  Grammars <- ReturnFromScopePrograms
  Identifiers = {}
  Pair = {}
  Numbers = {}
  MaxFrames = 2
  MaxObjects = 5
PROPERTY
  ReturnReplacesCall
CHECK_DEADLOCK FALSE
