------------------------------- MODULE MC_Adc -------------------------------
(***************************************************************************)
(* Model-checking instance of Adc: three channels, so that a request can   *)
(* leave a channel below, between and above the others, and three calls   *)
(* of ADC_StartConversion, so that a request can follow one whose          *)
(* conversion is still running.                                            *)
(***************************************************************************)
EXTENDS Adc

MC_ChannelCount == 3
MC_MaxRequests == 3

(* Once the bound on requests is reached and everything has settled, the   *)
(* model stops; the firmware would go on polling.                          *)
Settled ==
  /\ request = MaxRequests
  /\ UNCHANGED vars

MC_Next == Next \/ Settled

MC_Spec == Init /\ [][MC_Next]_vars /\ Fairness

=============================================================================
