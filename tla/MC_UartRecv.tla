---------------------------- MODULE MC_UartRecv ----------------------------
(***************************************************************************)
(* Model-checking instance of UartRecv: a ring of 4 rows of 2 bytes (so a  *)
(* row fills after 2 characters and the ring fills after 3 lines), and two *)
(* ordinary characters so that rows can be told apart.                     *)
(***************************************************************************)
EXTENDS UartRecv

MC_LineCount == 4
MC_LineSize == 2
MC_Chars == {"a", "b"}

=============================================================================
