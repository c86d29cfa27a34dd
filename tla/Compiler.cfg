SPECIFICATION Spec
CONSTANTS
  Grammars <- Programs
  a = a
  b = b
  Identifiers = {a, b}
  Numbers = {1}
INVARIANTS
  TypeOK
  JumpsLand
  OperandsValid
  LocalsScoped
  UpvaluesResolve
  ThisIsReceiver
  PlainStackBalanced
SYMMETRY IdentifierSymmetry
CHECK_DEADLOCK FALSE
