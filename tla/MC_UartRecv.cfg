CONSTANTS
  LineCount <- MC_LineCount
  LineSize <- MC_LineSize
  Chars <- MC_Chars
  CR = CR
  LF = LF
  NUL = NUL
SPECIFICATION Spec
INVARIANT TypeOK
INVARIANT HeldLineStable
PROPERTY LineQueueRefinement
