SPECIFICATION SmallSpec
VIEW RopeView
CONSTANTS
  Char = {1, 2, 3, 4, 5, 6, 7, 8, 9}
  NL = 1
  Freed = Freed
  MAX_SIZE_LEAF = 2
  Wrap = 64
  MaxLen = 9
  MaxPiece = 5
  Dense = 5
INVARIANTS TypeOK GetReturnsPiece CountsCoverReferences WeightsMeasure HeightBounded
PROPERTY ImplementsText
CHECK_DEADLOCK FALSE
