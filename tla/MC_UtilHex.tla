----------------------------- MODULE MC_UtilHex -----------------------------
(* TLC instance of UtilHex: values with zero, single, letter and full      *)
(* nibbles, and wider than the digits asked for (TLC's integers stop at   *)
(* 2^31 - 1, so 0x7fffffff stands for the widest uint32_t); the widths of *)
(* the three callers in part_002; the 16-byte scratchstr they pass.        *)
EXTENDS UtilHex

MC_Data == {0, 9, 171, 4660, 305419896, 2147483647}
MC_Digits == {2, 4, 8}
MC_BufSize == 16

=============================================================================
