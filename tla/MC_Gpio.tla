------------------------------- MODULE MC_Gpio -------------------------------
(* TLC instance of Gpio: argument bytes that touch one port, both ports,   *)
(* the boundary bits 2 and 3, and every bit.                                *)
EXTENDS Gpio

MC_Masks == {{}, {0, 3}, {2, 3, 7}, {1, 4}, Bits}

=============================================================================
