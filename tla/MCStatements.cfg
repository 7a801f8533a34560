SPECIFICATION StatementSpec
CONSTANTS
  PrimitiveWidths = {1, 3}
  UsizeBits = 3
  Widths = {1, 2, 3, 4}
  LiteralWidths = {1, 2, 3}
  Variables <- MCVariables
  Patterns <- MCPatterns
  Values <- MCValues
INVARIANTS
  Canonical BackendsAgree RuntimeIsRtl
  TypeOK ReadsBack WritesAreKnown ConstantRegionIsExact
CHECK_DEADLOCK FALSE
