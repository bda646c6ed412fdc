SPECIFICATION Spec

CONSTANTS
  Mantissa = 3
  Align = 4
  MaxRank = 3
  MaxRaw = 5
  MaxRows = 3
  MaxOps = 4

INVARIANTS
  ExpandsAsWritten
  BatchesComeBack
  CutFilesAreNoticed
  StoredComesBack
  PixelsStayInPlace
  RewritesKeepSamples

CHECK_DEADLOCK FALSE
