SPECIFICATION LoxSpec
CONSTANTS
  Grammars <- CaptureOrderPrograms
  a = a
  b = b
  f = f
  g = g
  Identifiers = {a, b, f, g}
  Pair = {}
  Numbers = {}
  MaxFrames = 1
  MaxObjects = 8
INVARIANT
  OneUpvaluePerVariable
SYMMETRY IdentifierSymmetry
CHECK_DEADLOCK FALSE
