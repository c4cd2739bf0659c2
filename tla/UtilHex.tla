------------------------------ MODULE UtilHex ------------------------------
(***************************************************************************)
(* UTIL_WriteHex(buffer, data, digits) (core/neuravr-util.cpp), the hex    *)
(* renderer behind UART_PrintHex8/16/32.  The loop fills the buffer from   *)
(* its last digit backwards, taking the low nibble of data and shifting    *)
(* data right by four each time; it writes no terminator.  Each iteration *)
(* is a step, so the run follows the loop through every digit.             *)
(***************************************************************************)
EXTENDS Naturals

CONSTANTS
  Data,       \* the uint32_t values rendered
  Digits,     \* the digit counts the callers pass (2, 4 and 8)
  BufSize,    \* the size of the caller's buffer
  Unwritten   \* a buffer byte the call did not write

(* data is a uint32_t.                                                     *)
ASSUME DataAssumption == Data \subseteq Nat

(* The callers, UART_PrintHex8/16/32 in part_002, pass 2, 4 or 8 digits,   *)
(* at most the 8 nibbles of a uint32_t, into the 16-byte scratchstr.       *)
ASSUME DigitsAssumption ==
  /\ BufSize \in Nat
  /\ Digits \subseteq 0..8
  /\ \A n \in Digits : n <= BufSize

VARIABLES
  buffer,     \* the caller's buffer: index -> character
  data,       \* the parameter, shifted as the loop runs
  didx, bidx, \* the loop counters
  pc,         \* "idle" or "loop"
  call        \* ghost: the arguments of the current call

vars == <<buffer, data, didx, bidx, pc, call>>

Indices == 0..BufSize - 1

(* const char hexdigits[16]                                                *)
hexdigits == <<"0", "1", "2", "3", "4", "5", "6", "7",
               "8", "9", "a", "b", "c", "d", "e", "f">>

(* hexdigits[n], indexed from 0.                                           *)
HexDigit(n) == hexdigits[n + 1]

Init ==
  /\ buffer = [i \in Indices |-> Unwritten]
  /\ data = 0
  /\ didx = 0
  /\ bidx = 0
  /\ pc = "idle"
  /\ call = [data |-> 0, digits |-> 0, before |-> buffer]

(* A call: the parameters are set and bidx starts at digits.  The buffer   *)
(* keeps whatever an earlier call left in it.                             *)
UTIL_WriteHex(d, n) ==
  /\ pc = "idle"
  /\ data' = d
  /\ didx' = 0
  /\ bidx' = n
  /\ pc' = "loop"
  /\ call' = [data |-> d, digits |-> n, before |-> buffer]
  /\ UNCHANGED buffer

(* Mutant: the loop writes at didx, from the front.                        *)
WriteDigit_Forward ==
  /\ buffer' = [buffer EXCEPT ![didx] = HexDigit(data % 16)]
  /\ bidx' = bidx - 1

(* "bidx--; buffer[bidx] = hexdigits[data & 0x0f];"                        *)
WriteDigit ==
  /\ bidx' = bidx - 1
  /\ buffer' = [buffer EXCEPT ![bidx - 1] = HexDigit(data % 16)]

(* One iteration of the loop: a digit, then "data >>= 4".                  *)
LoopStep ==
  /\ pc = "loop"
  /\ didx < call.digits
  /\ WriteDigit
  /\ data' = data \div 16
  /\ didx' = didx + 1
  /\ UNCHANGED <<pc, call>>

(* The loop test fails and the function returns.                           *)
LoopExit ==
  /\ pc = "loop"
  /\ ~(didx < call.digits)
  /\ pc' = "idle"
  /\ UNCHANGED <<buffer, data, didx, bidx, call>>

Next ==
  \/ \E d \in Data, n \in Digits : UTIL_WriteHex(d, n)
  \/ LoopStep
  \/ LoopExit

Spec == Init /\ [][Next]_vars

-----------------------------------------------------------------------------
(* Reference: digit i of an n-digit rendering of d is nibble n - 1 - i,    *)
(* most significant first.                                                 *)
Rendering(d, n) ==
  [i \in 0..n - 1 |-> HexDigit((d \div 16^(n - 1 - i)) % 16)]

(* When UTIL_WriteHex returns, its first digits bytes spell the low        *)
(* 4 * digits bits of data in hex, most significant digit first, and no    *)
(* other byte of the buffer changed.                                       *)
HexRendered ==
  pc = "idle" =>
    /\ \A i \in 0..call.digits - 1 :
         buffer[i] = Rendering(call.data, call.digits)[i]
    /\ \A i \in Indices \ (0..call.digits - 1) : buffer[i] = call.before[i]

=============================================================================
