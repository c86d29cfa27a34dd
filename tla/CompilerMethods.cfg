SPECIFICATION Spec
CONSTANTS
  Grammars <- MethodPrograms
  Identifiers = {}
  Numbers = {}
INVARIANT
  StackBalanced
CHECK_DEADLOCK FALSE
