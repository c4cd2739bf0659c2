---------------------------- MODULE MC_TimerInit ----------------------------
(* TLC instance of TimerInit.  The rates straddle every boundary of the   *)
(* divisor: a quotient of 0, 1 and 2, the byte boundaries 255..257 and     *)
(* the 16-bit ceiling 65535..65538, and the board's 16 MHz clock with the  *)
(* tick rates the applications use.                                        *)
EXTENDS TimerInit

MC_McuHz == {0, 1, 2, 3, 255, 256, 257, 1000, 16000, 65535, 65536, 65537,
             131072, 131073, 8000000, 16000000}
MC_RtcHz == {0, 1, 2, 3, 8000, 16000, 65535}

=============================================================================
