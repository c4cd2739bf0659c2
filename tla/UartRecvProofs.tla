--------------------------- MODULE UartRecvProofs ---------------------------
(***************************************************************************)
(* Proofs about the receive ring of UartRecv, for every ring size and row  *)
(* size: the type invariant, and that the row the main loop holds is never *)
(* written by the receive interrupt.                                       *)
(***************************************************************************)
EXTENDS UartRecv, TLAPS

USE LineCountAssumption, LineSizeAssumption

(* Row arithmetic.                                                         *)

(* A byte of a row lies inside the array.                                  *)
LEMMA CellInRange ==
  ASSUME NEW r \in Rows, NEW j \in SlotIdx
  PROVE  RowBase(r) + j \in Cells
  <1>1. r * LineSize + LineSize <= LineCount * LineSize
    BY SMT DEF Rows
  <1>2. QED
    BY <1>1, SMT DEF RowBase, Rows, SlotIdx, Cells

(* Bytes of two different rows are different bytes of the array.           *)
LEMMA SlotsDisjoint ==
  ASSUME NEW a \in Rows, NEW b \in Rows, a # b,
         NEW j \in SlotIdx, NEW k \in SlotIdx
  PROVE  RowBase(a) + j # RowBase(b) + k
  <1>1. CASE a < b
    <2>1. (a + 1) * LineSize <= b * LineSize
      BY <1>1, SMT DEF Rows
    <2>2. QED
      BY <2>1, SMT DEF RowBase, SlotIdx, Rows
  <1>2. CASE b < a
    <2>1. (b + 1) * LineSize <= a * LineSize
      BY <1>2, SMT DEF Rows
    <2>2. QED
      BY <2>1, SMT DEF RowBase, SlotIdx, Rows
  <1>3. QED
    BY <1>1, <1>2 DEF Rows

(* Stepping a ring index: "(row + 1) & (UART_LINE_COUNT - 1)".            *)
LEMMA RingStep ==
  ASSUME NEW x \in Rows
  PROVE  (x + 1) % LineCount = IF x + 1 < LineCount THEN x + 1 ELSE 0
  BY SMT DEF Rows

(* The bytes of row r of an array f; SlotAt(r) is RowOf(recvlines, r).    *)
RowOf(f, r) == [j \in SlotIdx |-> f[RowBase(r) + j]]

(* Writing one byte of row b leaves every other row as it was.             *)
LEMMA WriteOtherRow ==
  ASSUME NEW f \in [Cells -> Bytes], NEW a \in Rows, NEW b \in Rows, a # b,
         NEW k \in SlotIdx, NEW v
  PROVE  RowOf([f EXCEPT ![RowBase(b) + k] = v], a) = RowOf(f, a)
  <1>1. ASSUME NEW j \in SlotIdx
        PROVE  [f EXCEPT ![RowBase(b) + k] = v][RowBase(a) + j] = f[RowBase(a) + j]
    <2>1. RowBase(a) + j # RowBase(b) + k
      BY SlotsDisjoint
    <2>2. RowBase(a) + j \in Cells
      BY CellInRange
    <2>3. QED
      BY <2>1, <2>2
  <1>2. QED
    BY <1>1 DEF RowOf

-----------------------------------------------------------------------------
(* Type correctness.                                                       *)

LEMMA InitTypeOK == Init => TypeOK
  <1> SUFFICES ASSUME Init PROVE TypeOK
    OBVIOUS
  <1>1. heldslot \in [SlotIdx -> Bytes]
    BY DEF Init, Bytes
  <1>2. recvlines \in [Cells -> Bytes]
    BY DEF Init, UART_InitBuffers_ISR, Bytes
  <1>3. /\ rowcount \in 0..LineCount - 1
        /\ oldestrow \in Rows /\ newestrow \in Rows /\ held \in Rows
        /\ recvcharptr \in 0..LineSize
    BY DEF Init, UART_InitBuffers_ISR, Rows
  <1>4. QED
    BY <1>1, <1>2, <1>3 DEF Init, UART_InitBuffers_ISR, TypeOK

LEMMA EndLineTypeOK ==
  ASSUME TypeOK, EndLine
  PROVE  /\ recvlines' \in [Cells -> Bytes]
         /\ newestrow' \in Rows
         /\ rowcount' \in 0..LineCount - 1
         /\ recvcharptr' \in 0..LineSize
  <1>1. newestrow' \in Rows
    BY RingStep DEF EndLine, TypeOK, Rows
  <1>2. recvlines' \in [Cells -> Bytes]
    BY DEF EndLine, TypeOK, Bytes
  <1>3. rowcount' \in 0..LineCount - 1
    BY DEF EndLine, RowAdvances, TypeOK
  <1>4. QED
    BY <1>1, <1>2, <1>3 DEF EndLine

LEMMA TypeOKStep == TypeOK /\ [Next]_vars => TypeOK'
  <1> SUFFICES ASSUME TypeOK, [Next]_vars PROVE TypeOK'
    OBVIOUS
  <1>1. ASSUME NEW c \in RecvInput, UART_HandleRecvChar_ISR(c) PROVE TypeOK'
    <2>1. CASE saw_cr /\ c = LF
      BY <1>1, <2>1 DEF UART_HandleRecvChar_ISR, TypeOK
    <2>2. CASE ~(saw_cr /\ c = LF) /\ c \in {CR, LF}
                 /\ uart_filter_empty_lines /\ recvcharptr = 0
      BY <1>1, <2>2 DEF UART_HandleRecvChar_ISR, TypeOK
    <2>3. CASE ~(saw_cr /\ c = LF) /\ c \in {CR, LF}
                 /\ ~(uart_filter_empty_lines /\ recvcharptr = 0)
      <3>1. EndLine
        BY <1>1, <2>3, CharsAssumption DEF UART_HandleRecvChar_ISR
      <3>2. QED
        BY <1>1, <3>1, EndLineTypeOK DEF UART_HandleRecvChar_ISR, TypeOK
    <2>4. CASE c \notin {CR, LF}
      <3>1. c \in Bytes
        BY <2>4 DEF RecvInput, Bytes
      <3>2. AddChar(c)
        BY <1>1, <2>4 DEF UART_HandleRecvChar_ISR
      <3>3. QED
        BY <1>1, <3>1, <3>2 DEF UART_HandleRecvChar_ISR, AddChar, HasRoom, TypeOK
    <2>5. QED
      BY <2>1, <2>2, <2>3, <2>4
  <1>2. CASE UART_GetNextLine
    <2>1. SlotAt(oldestrow) \in [SlotIdx -> Bytes]
      BY CellInRange DEF SlotAt, TypeOK
    <2>2. QED
      BY <1>2, <2>1 DEF UART_GetNextLine, TypeOK
  <1>3. CASE UART_DoneWithLine
    BY <1>3, RingStep DEF UART_DoneWithLine, TypeOK, Rows
  <1>4. ASSUME NEW b \in BOOLEAN, UART_SetLineFiltering(b) PROVE TypeOK'
    BY <1>4 DEF UART_SetLineFiltering, TypeOK
  <1>5. CASE UNCHANGED vars
    BY <1>5 DEF vars, TypeOK
  <1>6. QED
    BY <1>1, <1>2, <1>3, <1>4, <1>5 DEF Next

(* Every reachable state of the receive ring is well typed.                *)
THEOREM TypeCorrect == Spec => []TypeOK
  BY InitTypeOK, TypeOKStep, PTL DEF Spec

-----------------------------------------------------------------------------
(* The held row is never written.                                          *)

(* While the main loop holds a row, the interrupt handler fills another.   *)
LEMMA FillingOtherRow ==
  ASSUME TypeOK, RingConsistent, 0 < rowcount
  PROVE  newestrow # oldestrow
  BY DEF TypeOK, RingConsistent, Rows

(* The same, for any ring position and count.                            *)
LEMMA FillingOtherRowArith ==
  ASSUME NEW o \in Rows, NEW n \in Rows, NEW r \in 1..LineCount - 1,
         o + r \in {n, n + LineCount}
  PROVE  n # o
  BY DEF Rows

LEMMA InitIInv == Init => IInv
  BY InitTypeOK DEF Init, UART_InitBuffers_ISR, IInv, RingConsistent,
                    HoldsOldest, HeldLineStable

(* The end-of-line branch keeps the ring consistent and the held row.      *)
LEMMA EndLineIInv ==
  ASSUME IInv, TypeOK', EndLine,
         UNCHANGED <<oldestrow, mainpc, held, heldslot>>
  PROVE  RingConsistent' /\ HoldsOldest' /\ HeldLineStable'
  <1> USE DEF IInv
  <1>1. RingConsistent'
    <2>1. CASE RowAdvances
      <3>1. rowcount' = rowcount + 1
            /\ newestrow' = (newestrow + 1) % LineCount
        BY <2>1 DEF EndLine
      <3>2. (newestrow + 1) % LineCount
              = IF newestrow + 1 < LineCount THEN newestrow + 1 ELSE 0
        BY RingStep DEF TypeOK
      <3>3. rowcount + 1 <= LineCount - 1
        BY <2>1 DEF RowAdvances, TypeOK
      <3>4. QED
        BY <3>1, <3>2, <3>3 DEF RingConsistent, TypeOK, Rows
    <2>2. CASE ~RowAdvances
      BY <2>2 DEF EndLine, RingConsistent
    <2>3. QED
      BY <2>1, <2>2
  <1>2. HoldsOldest'
    BY DEF EndLine, HoldsOldest, TypeOK
  <1>3. HeldLineStable'
    <2> SUFFICES ASSUME mainpc = "holding" PROVE SlotAt(held)' = heldslot
      BY DEF HeldLineStable
    <2> DEFINE term == [recvlines EXCEPT ![RowBase(newestrow) + TermPos] = NUL]
               nrow == IF RowAdvances THEN (newestrow + 1) % LineCount
                       ELSE newestrow
    <2>1. held = oldestrow /\ 0 < rowcount
      BY DEF HoldsOldest
    <2>2. newestrow # oldestrow
      BY <2>1, FillingOtherRow
    <2>3. nrow = newestrow' /\ nrow \in Rows
      BY DEF EndLine, TypeOK
    <2>4. nrow # oldestrow
      <3>1. rowcount' \in 1..LineCount - 1
        BY <2>1 DEF EndLine, TypeOK
      <3>2. newestrow' \in Rows /\ oldestrow' = oldestrow
        BY DEF TypeOK
      <3>3. oldestrow' + rowcount' \in {newestrow', newestrow' + LineCount}
        BY <1>1 DEF RingConsistent
      <3>4. newestrow' # oldestrow
        BY <3>1, <3>2, <3>3, FillingOtherRowArith
      <3>5. QED
        BY <2>3, <3>4
    <2>5. TermPos \in SlotIdx /\ 0 \in SlotIdx
      BY DEF TermPos, TypeOK, SlotIdx
    <2>6. recvlines' = [term EXCEPT ![RowBase(nrow)] = NUL]
      BY DEF EndLine
    <2>7. ASSUME NEW j \in SlotIdx
          PROVE  recvlines'[RowBase(oldestrow) + j] = recvlines[RowBase(oldestrow) + j]
      <3>1. RowBase(oldestrow) + j # RowBase(newestrow) + TermPos
        BY <2>2, <2>5, SlotsDisjoint DEF TypeOK
      <3>2. RowBase(oldestrow) + j # RowBase(nrow)
        <4>1. RowBase(oldestrow) + j # RowBase(nrow) + 0
          BY <2>3, <2>4, <2>5, SlotsDisjoint DEF TypeOK
        <4>2. RowBase(nrow) + 0 = RowBase(nrow)
          BY <2>3 DEF RowBase, Rows
        <4>3. QED
          BY <4>1, <4>2
      <3>3. RowBase(oldestrow) + j \in Cells
        BY CellInRange DEF TypeOK
      <3>4. QED
        BY <2>6, <3>1, <3>2, <3>3 DEF TypeOK
    <2>8. QED
      BY <2>1, <2>7 DEF SlotAt, HeldLineStable
  <1>4. QED
    BY <1>1, <1>2, <1>3

(* A stored character lands in the row being filled, not the held one.     *)
LEMMA AddCharIInv ==
  ASSUME IInv, NEW c \in Bytes, AddChar(c),
         UNCHANGED <<oldestrow, mainpc, held, heldslot>>
  PROVE  RingConsistent' /\ HoldsOldest' /\ HeldLineStable'
  <1> USE DEF IInv
  <1>1. CASE HasRoom
    <2>1. RingConsistent' /\ HoldsOldest'
      BY <1>1 DEF AddChar, RingConsistent, HoldsOldest
    <2>2. HeldLineStable'
      <3> SUFFICES ASSUME mainpc = "holding" PROVE SlotAt(held)' = heldslot
        BY DEF HeldLineStable
      <3>1. held = oldestrow /\ newestrow # oldestrow
        BY FillingOtherRow DEF HoldsOldest
      <3>2. recvcharptr \in SlotIdx
        BY <1>1 DEF HasRoom, TypeOK, SlotIdx
      <3>3. RowOf(recvlines', oldestrow) = RowOf(recvlines, oldestrow)
        BY <1>1, <3>1, <3>2, WriteOtherRow DEF AddChar, TypeOK
      <3>4. QED
        BY <3>1, <3>3 DEF SlotAt, RowOf, HeldLineStable
    <2>3. QED
      BY <2>1, <2>2
  <1>2. CASE ~HasRoom
    BY <1>2 DEF AddChar, RingConsistent, HoldsOldest, HeldLineStable, SlotAt
  <1>3. QED
    BY <1>1, <1>2

(* A step that leaves the ring and the main loop alone keeps the invariant. *)
LEMMA QuietStep ==
  ASSUME RingConsistent, HoldsOldest, HeldLineStable,
         UNCHANGED <<recvlines, rowcount, oldestrow, newestrow, mainpc, held,
                     heldslot>>
  PROVE  RingConsistent' /\ HoldsOldest' /\ HeldLineStable'
  BY DEF RingConsistent, HoldsOldest, HeldLineStable, SlotAt

(* Releasing the oldest row keeps the ring consistent.                     *)
LEMMA DoneWithLineRing ==
  ASSUME TypeOK, RingConsistent, 0 < rowcount,
         oldestrow' = (oldestrow + 1) % LineCount, rowcount' = rowcount - 1,
         newestrow' = newestrow
  PROVE  RingConsistent'
  <1>1. (oldestrow + 1) % LineCount
          = IF oldestrow + 1 < LineCount THEN oldestrow + 1 ELSE 0
    BY RingStep DEF TypeOK
  <1>2. CASE oldestrow + 1 < LineCount
    BY <1>1, <1>2 DEF RingConsistent, TypeOK, Rows
  <1>3. CASE ~(oldestrow + 1 < LineCount)
    <2>1. oldestrow = LineCount - 1
      BY <1>3 DEF TypeOK, Rows
    <2>2. oldestrow + rowcount = newestrow + LineCount
      BY <2>1 DEF RingConsistent, TypeOK, Rows
    <2>3. QED
      BY <1>1, <1>3, <2>2 DEF RingConsistent, TypeOK, Rows
  <1>4. QED
    BY <1>2, <1>3

LEMMA IInvStep == IInv /\ [Next]_vars => IInv'
  <1> SUFFICES ASSUME TypeOK, RingConsistent, HoldsOldest, HeldLineStable,
                      [Next]_vars
               PROVE  RingConsistent' /\ HoldsOldest' /\ HeldLineStable'
    BY TypeOKStep DEF IInv
  <1>0. TypeOK'
    BY TypeOKStep DEF IInv
  <1>1. ASSUME NEW c \in RecvInput, UART_HandleRecvChar_ISR(c)
        PROVE  RingConsistent' /\ HoldsOldest' /\ HeldLineStable'
    <2>1. CASE \/ saw_cr /\ c = LF
               \/ /\ ~(saw_cr /\ c = LF) /\ c \in {CR, LF}
                  /\ uart_filter_empty_lines /\ recvcharptr = 0
      <3>1. UNCHANGED <<recvlines, rowcount, oldestrow, newestrow, mainpc, held,
                        heldslot>>
        BY <1>1, <2>1 DEF UART_HandleRecvChar_ISR
      <3>2. QED
        BY <3>1, QuietStep
    <2>2. CASE ~(saw_cr /\ c = LF) /\ c \in {CR, LF}
                 /\ ~(uart_filter_empty_lines /\ recvcharptr = 0)
      <3>1. EndLine
        BY <1>1, <2>2, CharsAssumption DEF UART_HandleRecvChar_ISR
      <3>2. UNCHANGED <<oldestrow, mainpc, held, heldslot>>
        BY <1>1 DEF UART_HandleRecvChar_ISR
      <3>3. QED
        BY <1>0, <3>1, <3>2, EndLineIInv DEF IInv
    <2>3. CASE c \notin {CR, LF}
      <3>1. c \in Bytes
        BY <2>3 DEF RecvInput, Bytes
      <3>2. AddChar(c)
        BY <1>1, <2>3 DEF UART_HandleRecvChar_ISR
      <3>3. UNCHANGED <<oldestrow, mainpc, held, heldslot>>
        BY <1>1 DEF UART_HandleRecvChar_ISR
      <3>4. QED
        BY <3>1, <3>2, <3>3, AddCharIInv DEF IInv
    <2>4. QED
      BY <2>1, <2>2, <2>3
  <1>2. CASE UART_GetNextLine
    <2>1. RingConsistent' /\ HoldsOldest'
      BY <1>2 DEF UART_GetNextLine, RingConsistent, HoldsOldest
    <2>2. HeldLineStable'
      BY <1>2 DEF UART_GetNextLine, HeldLineStable, SlotAt
    <2>3. QED
      BY <2>1, <2>2
  <1>3. CASE UART_DoneWithLine
    <2>1. 0 < rowcount
      BY <1>3 DEF UART_DoneWithLine, HoldsOldest
    <2>2. RingConsistent'
      BY <1>3, <2>1, DoneWithLineRing DEF UART_DoneWithLine
    <2>3. QED
      BY <1>3, <2>2 DEF UART_DoneWithLine, HoldsOldest, HeldLineStable
  <1>4. ASSUME NEW b \in BOOLEAN, UART_SetLineFiltering(b)
        PROVE  RingConsistent' /\ HoldsOldest' /\ HeldLineStable'
    <2>1. UNCHANGED <<recvlines, rowcount, oldestrow, newestrow, mainpc, held,
                      heldslot>>
      BY <1>4 DEF UART_SetLineFiltering
    <2>2. QED
      BY <2>1, QuietStep
  <1>5. CASE UNCHANGED vars
    <2>1. UNCHANGED <<recvlines, rowcount, oldestrow, newestrow, mainpc, held,
                      heldslot>>
      BY <1>5 DEF vars
    <2>2. QED
      BY <2>1, QuietStep
  <1>6. QED
    BY <1>1, <1>2, <1>3, <1>4, <1>5 DEF Next

(* The receive interrupt never changes a byte of the line the main loop    *)
(* is echoing and parsing (UART_GetNextLine .. UART_DoneWithLine in        *)
(* DoPolling), whatever the ring and row sizes.                            *)
THEOREM HeldLineStableInvariant == Spec => []HeldLineStable
  <1>1. IInv => HeldLineStable
    BY DEF IInv
  <1>2. QED
    BY InitIInv, IInvStep, <1>1, PTL DEF Spec

=============================================================================
