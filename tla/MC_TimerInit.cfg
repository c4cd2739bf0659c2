CONSTANTS
  McuHz <- MC_McuHz
  RtcHz <- MC_RtcHz
  NULL = NULL
SPECIFICATION Spec
INVARIANT TickPeriodCorrect
