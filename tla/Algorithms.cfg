SPECIFICATION Spec
CONSTANTS
  One = 32
  Kappa = 2
  MaxWidth = 40
  Features = 3
  MaxExponent = 324
CHECK_DEADLOCK FALSE
INVARIANTS
  AcceptsDottedQuads
  ShortestDigits
  TextReadsBack
  SeriesInOrder
