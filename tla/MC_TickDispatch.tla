--------------------------- MODULE MC_TickDispatch ---------------------------
(* TLC instance of TickDispatch: five compare matches and a 2-bit        *)
(* timestamp, so that the counter wraps.                                   *)
EXTENDS TickDispatch

MC_MaxTicks == 5
MC_RtcModulus == 4

=============================================================================
