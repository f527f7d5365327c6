SPECIFICATION SliceSpec
CONSTANTS
  Width = 4
  Rows = 2
  Scales <- MCScales
  Blocks = 2
  Coefs = 4
  Coded <- MCCoded
  Exts <- MCExts
  Factors = {2}
  MaxAltTable = 0
INVARIANTS Recoded SamePrediction WholeSlice OwnHeaders
