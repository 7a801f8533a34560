SPECIFICATION ValuesSpec
CONSTANTS
  Designs <- MCDesigns
  Edited <- ValueDesigns
  Capital <- MCCapital
  Keywords <- MCKeywords
  Reserved <- MCReserved
  Most = 3
  MaxDepth = 4
  MaxAssigns = 2
  PrimitiveWidths = {1, 3, 4}
  UsizeBits = 4
INVARIANTS TypeNamesDistinct SignalsGrouped LayoutAsDocumented ValuesSurvive Lossless
CHECK_DEADLOCK FALSE
