SPECIFICATION Spec
CONSTANTS
  Letters <- MCLetters
  Digits <- MCDigits
  Sources <- MCSources
  NoToken = NoToken
INVARIANTS
  LongestMatch
  Tiled
  LinesCounted
  RefusesNonLexemes
  AbortsKnown
  ShownLineInSource
PROPERTY
  AdvanceReturns
CHECK_DEADLOCK FALSE
