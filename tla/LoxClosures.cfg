SPECIFICATION LoxSpec
CONSTANTS
  Grammars <- ClosurePrograms
  a = a
  f = f
  g = g
  p = p
  q = q
  Identifiers = {a, f, g}
  Pair = {p, q}
  Numbers = {}
  MaxFrames = 2
  MaxObjects = 7
INVARIANTS
  AbortsOnValuesOnly
  OpenUpvaluesSorted
  NoStaleUpvalue
PROPERTY OnlyAssignmentChangesVariable
SYMMETRY IdentifierSymmetry
CHECK_DEADLOCK FALSE
