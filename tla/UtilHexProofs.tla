---------------------------- MODULE UtilHexProofs ----------------------------
(***************************************************************************)
(* Proof that UTIL_WriteHex (module UtilHex) renders its argument, for     *)
(* every value, every digit count its callers pass and every buffer size. *)
(* The loop keeps data equal to the argument shifted right by four bits    *)
(* per digit written, and the digits written so far are the last ones of  *)
(* the rendering.                                                          *)
(***************************************************************************)
EXTENDS UtilHex, TLAPS

(* What the buffer can hold: a hex digit or an unwritten byte.             *)
BufBytes == {HexDigit(n) : n \in 0..15} \cup {Unwritten}

(* The values the call record can hold: the initial one, or a call's.      *)
Calls == [data : Data \cup {0}, digits : Digits \cup {0},
          before : [Indices -> BufBytes]]

(* Bytes from Done(n, k) on are the k digits the loop has written so far.  *)
Done(n, k) == n - k

(* The inductive invariant: during the loop bidx is digits - didx and,    *)
(* while a digit is left, data is the argument shifted by 4 * didx bits;  *)
(* each byte is the rendering where the loop wrote it and what it was     *)
(* before the call elsewhere; and the loop is left only with every digit  *)
(* written.                                                                *)
HexInv ==
  /\ buffer \in [Indices -> BufBytes]
  /\ call \in Calls
  /\ pc \in {"idle", "loop"}
  /\ didx \in 0..call.digits
  /\ pc = "loop" => bidx = Done(call.digits, didx)
  /\ pc = "loop" /\ didx < call.digits => data = call.data \div 16^didx
  /\ pc = "idle" => didx = call.digits
  /\ \A i \in Indices :
       buffer[i] = IF i \in Done(call.digits, didx)..call.digits - 1
                   THEN Rendering(call.data, call.digits)[i]
                   ELSE call.before[i]


USE DataAssumption, DigitsAssumption

-----------------------------------------------------------------------------
(* "data >>= 4" as division: the provers evaluate 16^k only for a literal *)
(* k, so the eight exponents a uint32_t needs are taken one by one.        *)

LEMMA Pow16 ==
  ASSUME NEW k \in 0..7
  PROVE  16^k \in Nat \ {0} /\ 16^(k + 1) = 16^k * 16
<1>0. k \in {0, 1, 2, 3, 4, 5, 6, 7}
  OBVIOUS
<1>1. CASE k = 0 BY <1>1
<1>2. CASE k = 1 BY <1>2
<1>3. CASE k = 2 BY <1>3
<1>4. CASE k = 3 BY <1>4
<1>5. CASE k = 4 BY <1>5
<1>6. CASE k = 5 BY <1>6
<1>7. CASE k = 6 BY <1>7
<1>8. CASE k = 7 BY <1>8
<1> QED
  BY <1>0, <1>1, <1>2, <1>3, <1>4, <1>5, <1>6, <1>7, <1>8

(* Shifting k nibbles off, then one more, shifts k + 1 nibbles off.        *)
LEMMA ShiftStep ==
  ASSUME NEW d \in Nat, NEW k \in 0..7
  PROVE  /\ d \div 16^k \in Nat
         /\ (d \div 16^k) \div 16 = d \div 16^(k + 1)
<1>1. 16^k \in Nat \ {0} /\ 16^(k + 1) = 16^k * 16
  BY Pow16
<1> QED
  BY <1>1

(* The values a call record holds are a uint32_t and a digit count of    *)
(* the callers, or the zeros of the initial record.                        *)
LEMMA DataNat ==
  ASSUME NEW x \in Data \cup {0}
  PROVE  x \in Nat
OBVIOUS

LEMMA DigitsRange ==
  ASSUME NEW x \in Digits \cup {0}
  PROVE  x \in 0..8 /\ x <= BufSize
OBVIOUS

LEMMA CallFields ==
  ASSUME NEW c \in Calls
  PROVE  /\ c.digits \in Digits \cup {0} /\ c.digits \in 0..8
         /\ c.digits <= BufSize /\ c.data \in Nat
<1>1. c.digits \in Digits \cup {0} /\ c.data \in Data \cup {0}
  BY Zenon DEF Calls
<1> QED
  BY <1>1, DataNat, DigitsRange

-----------------------------------------------------------------------------
LEMMA InitHexInv == Init => HexInv
<1> SUFFICES ASSUME Init PROVE HexInv
  OBVIOUS
<1>1. Unwritten \in BufBytes
  BY DEF BufBytes
<1>2. buffer \in [Indices -> BufBytes] /\ call \in Calls
  BY <1>1 DEF Init, Calls
<1> QED
  BY <1>2 DEF Init, HexInv, Done

(* A call starts the loop with no digit written.                           *)
LEMMA WriteHexStep ==
  ASSUME HexInv, NEW d \in Data, NEW n \in Digits, UTIL_WriteHex(d, n)
  PROVE  HexInv'
<1>1. call' \in Calls /\ call'.digits = n /\ call'.data = d /\ call'.before = buffer
  BY DEF UTIL_WriteHex, HexInv, Calls
<1>2. n \in Nat /\ d \in Nat /\ 16^0 = 1
  OBVIOUS
<1>3. \A i \in Indices : ~(i \in Done(n, 0)..n - 1)
  BY <1>2 DEF Done
<1> QED
  BY <1>1, <1>2, <1>3 DEF UTIL_WriteHex, HexInv, Done

(* One turn of the loop writes the next digit from the back and shifts    *)
(* data by a nibble.                                                       *)
LEMMA LoopStepInv ==
  ASSUME HexInv, LoopStep
  PROVE  HexInv'
<1> DEFINE n == call.digits
           d == call.data
           k == didx
           j == n - k - 1
<1>0. call \in Calls /\ buffer \in [Indices -> BufBytes] /\ pc = "loop"
  BY DEF HexInv, LoopStep
<1>1. n \in Digits /\ n \in 1..8 /\ n <= BufSize /\ d \in Nat
  <2>1. n \in Digits \cup {0} /\ d \in Data \cup {0} /\ k \in 0..n /\ k < n
    BY <1>0 DEF Calls, HexInv, LoopStep
  <2>2. n \in Digits
    BY <2>1
  <2>3. n \in 0..8 /\ n <= BufSize /\ d \in Nat
    BY <1>0, CallFields
  <2> QED
    BY <2>1, <2>2, <2>3
<1>2. k \in 0..7 /\ k \in 0..n - 1 /\ bidx = n - k /\ data = d \div 16^k
  <2>1. k \in 0..n /\ k < n
    BY DEF HexInv, LoopStep
  <2>2. k \in 0..7 /\ k \in 0..n - 1
    BY <1>1, <2>1
  <2> QED
    BY <1>0, <2>2 DEF HexInv, LoopStep, Done
<1>9. j \in Indices /\ j \in 0..n - 1 /\ n - 1 - j = k
  BY <1>1, <1>2 DEF Indices
<1>3. /\ buffer' = [buffer EXCEPT ![j] = HexDigit(data % 16)]
      /\ bidx' = j /\ didx' = k + 1 /\ data' = data \div 16
      /\ pc' = pc /\ call' = call
  BY <1>2 DEF LoopStep, WriteDigit
<1>4. data \in Nat /\ data % 16 \in 0..15
  <2>1. d \div 16^k \in Nat
    BY <1>1, <1>2, ShiftStep
  <2> QED
    BY <1>2, <2>1
<1>5. data' = d \div 16^(k + 1)
  <2>1. (d \div 16^k) \div 16 = d \div 16^(k + 1)
    BY <1>1, <1>2, ShiftStep
  <2> QED
    BY <1>2, <1>3, <2>1
<1>6. HexDigit(data % 16) = Rendering(d, n)[j]
  <2>1. Rendering(d, n)[j] = HexDigit((d \div 16^(n - 1 - j)) % 16)
    BY <1>9 DEF Rendering
  <2> QED
    BY <1>0, <1>2, <1>9, <2>1
<1>7. buffer' \in [Indices -> BufBytes]
  <2>1. HexDigit(data % 16) \in BufBytes
    BY <1>4 DEF BufBytes
  <2> QED
    BY <1>0, <1>2, <1>3, <2>1
<1>8. ASSUME NEW i \in Indices
      PROVE  buffer'[i] = IF i \in Done(n, k + 1)..n - 1
                          THEN Rendering(d, n)[i] ELSE call.before[i]
  <2>1. CASE i = j
    <3>1. buffer'[i] = HexDigit(data % 16)
      BY <1>0, <1>3, <1>9, <2>1
    <3>2. i \in Done(n, k + 1)..n - 1
      BY <1>1, <1>2, <1>9, <2>1 DEF Done
    <3> QED
      BY <1>6, <2>1, <3>1, <3>2
  <2>2. CASE i # j
    <3>1. buffer'[i] = buffer[i]
      BY <1>0, <1>2, <1>3, <2>2
    <3>2. (i \in Done(n, k + 1)..n - 1) <=> (i \in Done(n, k)..n - 1)
      BY <1>1, <1>2, <2>2 DEF Done, Indices
    <3> QED
      BY <3>1, <3>2 DEF HexInv
  <2> QED
    BY <2>1, <2>2
<1> QED
  BY <1>0, <1>2, <1>1, <1>3, <1>5, <1>7, <1>8 DEF HexInv, Done

LEMMA HexInvStep == HexInv /\ [Next]_vars => HexInv'
<1> SUFFICES ASSUME HexInv, [Next]_vars PROVE HexInv'
  OBVIOUS
<1>1. ASSUME NEW d \in Data, NEW n \in Digits, UTIL_WriteHex(d, n) PROVE HexInv'
  BY <1>1, WriteHexStep
<1>2. CASE LoopStep
  BY <1>2, LoopStepInv
<1>3. CASE LoopExit
  <2>1. call.digits \in Nat
    <3>1. call \in Calls
      BY DEF HexInv
    <3> QED
      BY <3>1, CallFields
  <2> QED
    BY <1>3, <2>1 DEF LoopExit, HexInv
<1>4. CASE UNCHANGED vars
  BY <1>4 DEF vars, HexInv
<1> QED
  BY <1>1, <1>2, <1>3, <1>4 DEF Next

LEMMA HexInvRendered == HexInv => HexRendered
<1> SUFFICES ASSUME HexInv, pc = "idle"
             PROVE  /\ \A i \in 0..call.digits - 1 :
                          buffer[i] = Rendering(call.data, call.digits)[i]
                    /\ \A i \in Indices \ (0..call.digits - 1) :
                          buffer[i] = call.before[i]
  BY DEF HexRendered
<1>1. didx = call.digits /\ call.digits \in 0..8 /\ call.digits <= BufSize
  BY DEF HexInv, Calls
<1>2. 0..call.digits - 1 \subseteq Indices /\ Done(call.digits, didx) = 0
  BY <1>1 DEF Indices, Done
<1> QED
  BY <1>1, <1>2 DEF HexInv

(* UTIL_WriteHex, whenever it returns, has written data's low 4 * digits  *)
(* bits as hex, most significant first, into the first digits bytes and   *)
(* left every other byte of the buffer alone: for every value, every     *)
(* digit count of its callers and every buffer size.                       *)
THEOREM HexRenderedInvariant == Spec => []HexRendered
<1>1. HexInv => HexRendered
  BY HexInvRendered
<1> QED
  BY InitHexInv, HexInvStep, <1>1, PTL DEF Spec

=============================================================================
