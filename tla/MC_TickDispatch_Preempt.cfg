CONSTANTS
  MaxTicks <- MC_MaxTicks
  RtcModulus <- MC_RtcModulus
  NULL = NULL
SPECIFICATION Spec
INVARIANT LongNeverOverShort
