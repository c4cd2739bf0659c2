CONSTANTS
  Data <- MC_Data
  Digits <- MC_Digits
  BufSize <- MC_BufSize
  Unwritten = Unwritten
SPECIFICATION Spec
INVARIANT HexRendered
