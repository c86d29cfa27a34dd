SPECIFICATION Spec
CONSTANTS
  Families <- MCFamilies
  Identifiers <- MCIdentifiers
  Exponents <- MCExponents
  NoToken = NoToken
INVARIANTS
  AcceptsOnlyPrograms
  AcceptsPrograms
  RefusedForAReason
  AbortsOnlyHere
  ScopesRestored
PROPERTY
  Terminates
CHECK_DEADLOCK FALSE
