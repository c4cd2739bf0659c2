------------------------- MODULE UartRecvRefinement -------------------------
(***************************************************************************)
(* Proof that the receive ring implements the line queue the header        *)
(* promises (LineQueueRefinement), for every ring size and row size.  The *)
(* queued lines are the C strings at the complete rows; the proof keeps,   *)
(* beside IInv, that each complete row is NUL-terminated inside itself, so *)
(* that its string depends on that row alone, and that the row being       *)
(* filled holds characters up to the write position.                       *)
(***************************************************************************)
EXTENDS UartRecvProofs, SequenceTheorems

(* The i-th complete row, counting from 0 at the oldest.                   *)
RowIdx(i) == (oldestrow + i) % LineCount

(* Row r of array f holds a string of n characters, terminated inside the  *)
(* row.                                                                    *)
RowHolds(f, r, n) ==
  /\ f[RowBase(r) + n] = NUL
  /\ \A j \in 0..n - 1 : f[RowBase(r) + j] # NUL

(* Every complete row holds a terminated string.                           *)
CompleteRows ==
  \A i \in 0..rowcount - 1 : \E n \in SlotIdx : RowHolds(recvlines, RowIdx(i), n)

(* The row being filled holds received characters up to the write          *)
(* position.                                                               *)
PartialChars ==
  \A j \in 0..recvcharptr - 1 : recvlines[RowBase(newestrow) + j] \in Chars

(* The inductive invariant behind the refinement.                          *)
RefInv == IInv /\ CompleteRows /\ PartialChars


-----------------------------------------------------------------------------
(* The C string at row r of any array f, as LineAt computes it.            *)

NulEnds(f, r) == {i \in RowBase(r)..LineCount * LineSize - 1 : f[i] = NUL}

LineStop(f, r) ==
  IF NulEnds(f, r) = {} THEN LineCount * LineSize
  ELSE CHOOSE i \in NulEnds(f, r) : \A k \in NulEnds(f, r) : i <= k

LineOf(f, r) == [j \in 1..(LineStop(f, r) - RowBase(r)) |-> f[RowBase(r) + j - 1]]

USE LineCountAssumption, LineSizeAssumption

LEMMA LineAtIsLineOf ==
  ASSUME NEW r
  PROVE  /\ LineAt(r) = LineOf(recvlines, r)
         /\ LineAt(r)' = LineOf(recvlines', r)
BY DEF LineAt, LineOf, LineStop, NulEnds

(* A row terminated inside itself: its string is its first n bytes, and   *)
(* nothing beyond the row matters.                                         *)
LEMMA LineOfRow ==
  ASSUME NEW f \in [Cells -> Bytes], NEW r \in Rows, NEW n \in SlotIdx,
         RowHolds(f, r, n)
  PROVE  LineOf(f, r) = [j \in 1..n |-> f[RowBase(r) + j - 1]]
<1> DEFINE b == RowBase(r)
           e == NulEnds(f, r)
<1>0. b \in Nat /\ b + n \in Cells
  BY CellInRange DEF RowBase, Rows, SlotIdx
<1>1. b + n \in e
  BY <1>0 DEF NulEnds, RowHolds, Cells, SlotIdx
<1>2. ASSUME NEW k \in e PROVE b + n <= k
  <2>1. k \in b..LineCount * LineSize - 1 /\ f[k] = NUL
    BY DEF NulEnds
  <2>2. SUFFICES ASSUME k < b + n PROVE FALSE
    BY <1>0, <2>1 DEF SlotIdx
  <2>3. k - b \in 0..n - 1 /\ b + (k - b) = k
    BY <1>0, <2>1, <2>2 DEF SlotIdx
  <2> QED
    BY <2>1, <2>3 DEF RowHolds
<1>3. LineStop(f, r) = b + n
  <2>1. e # {}
    BY <1>1
  <2>2. ASSUME NEW i \in e, \A k \in e : i <= k PROVE i = b + n
    <3>1. i <= b + n /\ b + n <= i
      BY <1>1, <1>2, <2>2
    <3>2. i \in Nat
      BY <1>0 DEF NulEnds
    <3> QED
      BY <3>1, <3>2, <1>0 DEF Cells
  <2>3. \A k \in e : b + n <= k
    BY <1>2
  <2> QED
    BY <1>1, <2>1, <2>2, <2>3 DEF LineStop
<1>4. LineStop(f, r) - b = n
  BY <1>0, <1>3 DEF SlotIdx
<1> QED
  BY <1>4 DEF LineOf


-----------------------------------------------------------------------------
(* Ring positions: "& (UART_LINE_COUNT - 1)" is "% UART_LINE_COUNT".       *)

(* Less than two turns of the ring: one wrap at most.                       *)
LEMMA ModSmall ==
  ASSUME NEW x \in 0..2 * LineCount - 1
  PROVE  x % LineCount = IF x < LineCount THEN x ELSE x - LineCount
BY SMT

LEMMA RingMod ==
  ASSUME NEW o \in Rows, NEW i \in 0..LineCount - 1
  PROVE  /\ (o + i) % LineCount \in Rows
         /\ (((o + i) % LineCount) + 1) % LineCount = (o + i + 1) % LineCount
         /\ (((o + 1) % LineCount) + i) % LineCount = (o + 1 + i) % LineCount
<1>0. o + i \in 0..2 * LineCount - 1 /\ o + i + 1 \in 0..2 * LineCount - 1
  BY DEF Rows
<1>1. (o + i) % LineCount = IF o + i < LineCount THEN o + i ELSE o + i - LineCount
  <2>1. PICK x \in 0..2 * LineCount - 1 : x = o + i
    BY <1>0
  <2>2. x % LineCount = IF x < LineCount THEN x ELSE x - LineCount
    BY ModSmall
  <2> QED
    BY <2>1, <2>2 DEF Rows
<1>2. (o + i + 1) % LineCount
        = IF o + i + 1 < LineCount THEN o + i + 1 ELSE o + i + 1 - LineCount
  BY <1>0, ModSmall
<1>3. (o + 1) % LineCount = IF o + 1 < LineCount THEN o + 1 ELSE 0
  BY RingStep
<1>4. (o + i) % LineCount \in Rows
  BY <1>1 DEF Rows
<1>5. (((o + i) % LineCount) + 1) % LineCount = (o + i + 1) % LineCount
  <2>1. ((o + i) % LineCount) + 1 \in 0..2 * LineCount - 1
    BY <1>4 DEF Rows
  <2> QED
    BY <1>1, <1>2, <2>1, ModSmall DEF Rows
<1>6. (((o + 1) % LineCount) + i) % LineCount = (o + 1 + i) % LineCount
  <2>1. ((o + 1) % LineCount) + i \in 0..2 * LineCount - 1
    BY <1>3 DEF Rows
  <2> QED
    BY <1>2, <1>3, <2>1, ModSmall DEF Rows
<1> QED
  BY <1>4, <1>5, <1>6

(* Fewer than LineCount steps round the ring reach different rows.         *)
LEMMA RingInjective ==
  ASSUME NEW o \in Rows, NEW i \in 0..LineCount - 1, NEW k \in 0..LineCount - 1,
         i # k
  PROVE  (o + i) % LineCount # (o + k) % LineCount
BY DEF Rows

(* The row being filled follows the complete ones.                         *)
LEMMA RingNewest ==
  ASSUME TypeOK, RingConsistent
  PROVE  RowIdx(rowcount) = newestrow
BY DEF TypeOK, RingConsistent, RowIdx, Rows


-----------------------------------------------------------------------------
(* Sequences written as functions on 1..n.                                 *)

LEMMA AppendLit ==
  ASSUME NEW n \in Nat, NEW s, NEW e, s = [i \in 1..n |-> s[i]]
  PROVE  Append(s, e) = [i \in 1..n + 1 |-> IF i <= n THEN s[i] ELSE e]
<1> DEFINE S == {s[i] : i \in 1..n} \cup {e}
           t == [i \in 1..n + 1 |-> IF i <= n THEN s[i] ELSE e]
<1>0. s \in [1..n -> S] /\ e \in S
  OBVIOUS
<1>1. s \in Seq(S) /\ Len(s) = n
  BY <1>0
<1>2. /\ Append(s, e) \in Seq(S)
      /\ Len(Append(s, e)) = n + 1
      /\ \A i \in 1..n : Append(s, e)[i] = s[i]
      /\ Append(s, e)[n + 1] = e
  BY <1>0, <1>1, AppendProperties
<1>3. t \in Seq(S) /\ Len(t) = n + 1
  <2>1. t \in [1..n + 1 -> S]
    BY <1>0
  <2> QED
    BY <2>1
<1>4. \A i \in 1..n + 1 : Append(s, e)[i] = t[i]
  BY <1>2
<1> QED
  BY <1>2, <1>3, <1>4, SeqEqual

LEMMA TailLit ==
  ASSUME NEW n \in Nat \ {0}, NEW s, s = [i \in 1..n |-> s[i]]
  PROVE  Tail(s) = [i \in 1..n - 1 |-> s[i + 1]]
<1> DEFINE S == {s[i] : i \in 1..n}
<1>1. s \in Seq(S) /\ Len(s) = n /\ s # <<>>
  OBVIOUS
<1>2. Tail(s) = SubSeq(s, 2, n)
  BY <1>1, TailIsSubSeq
<1>3. SubSeq(s, 2, n) = [i \in 1..n - 1 |-> s[i + 1]]
  BY <1>1
<1> QED
  BY <1>2, <1>3

-----------------------------------------------------------------------------
(* Rows that a step does not write.                                        *)

(* Two arrays that agree on a terminated row hold the same string there.   *)
LEMMA RowFrame ==
  ASSUME NEW f \in [Cells -> Bytes], NEW g \in [Cells -> Bytes],
         NEW r \in Rows, NEW n \in SlotIdx, RowHolds(f, r, n),
         \A j \in SlotIdx : g[RowBase(r) + j] = f[RowBase(r) + j]
  PROVE  RowHolds(g, r, n) /\ LineOf(g, r) = LineOf(f, r)
<1>1. RowHolds(g, r, n)
  BY DEF RowHolds, SlotIdx
<1>2. LineOf(f, r) = [j \in 1..n |-> f[RowBase(r) + j - 1]]
  BY LineOfRow
<1>3. LineOf(g, r) = [j \in 1..n |-> g[RowBase(r) + j - 1]]
  BY <1>1, LineOfRow
<1>4. \A j \in 1..n : g[RowBase(r) + j - 1] = f[RowBase(r) + j - 1]
  <2> SUFFICES ASSUME NEW j \in 1..n
               PROVE  g[RowBase(r) + j - 1] = f[RowBase(r) + j - 1]
    OBVIOUS
  <2>1. j - 1 \in SlotIdx /\ RowBase(r) + (j - 1) = RowBase(r) + j - 1
    BY DEF SlotIdx, RowBase, Rows
  <2> QED
    BY <2>1
<1> QED
  BY <1>1, <1>2, <1>3, <1>4

(* The end-of-line branch writes only the row it ends and the row it       *)
(* moves to.                                                               *)
LEMMA EndLineFrame ==
  ASSUME TypeOK, EndLine, NEW r \in Rows, r # newestrow, r # newestrow'
  PROVE  \A j \in SlotIdx : recvlines'[RowBase(r) + j] = recvlines[RowBase(r) + j]
<1> SUFFICES ASSUME NEW j \in SlotIdx
             PROVE  recvlines'[RowBase(r) + j] = recvlines[RowBase(r) + j]
  OBVIOUS
<1> DEFINE term == [recvlines EXCEPT ![RowBase(newestrow) + TermPos] = NUL]
<1>1. recvlines' = [term EXCEPT ![RowBase(newestrow')] = NUL]
      /\ newestrow' \in Rows
  BY RingStep DEF EndLine, TypeOK, Rows
<1>2. TermPos \in SlotIdx /\ 0 \in SlotIdx
  BY DEF TermPos, TypeOK, SlotIdx
<1>3. RowBase(r) + j # RowBase(newestrow) + TermPos
  BY <1>2, SlotsDisjoint DEF TypeOK
<1>4. RowBase(r) + j # RowBase(newestrow')
  <2>1. RowBase(r) + j # RowBase(newestrow') + 0
    BY <1>1, <1>2, SlotsDisjoint
  <2>2. RowBase(newestrow') + 0 = RowBase(newestrow')
    BY <1>1 DEF RowBase, Rows
  <2> QED
    BY <2>1, <2>2
<1>5. RowBase(r) + j \in Cells
  BY CellInRange
<1> QED
  BY <1>1, <1>3, <1>4, <1>5 DEF TypeOK

(* A stored character lands in the row being filled.                       *)
LEMMA AddCharFrame ==
  ASSUME TypeOK, NEW c, AddChar(c), NEW r \in Rows, r # newestrow
  PROVE  \A j \in SlotIdx : recvlines'[RowBase(r) + j] = recvlines[RowBase(r) + j]
<1> SUFFICES ASSUME NEW j \in SlotIdx
             PROVE  recvlines'[RowBase(r) + j] = recvlines[RowBase(r) + j]
  OBVIOUS
<1>1. CASE HasRoom
  <2>1. recvcharptr \in SlotIdx
    BY <1>1 DEF HasRoom, TypeOK, SlotIdx
  <2>2. RowBase(r) + j # RowBase(newestrow) + recvcharptr
    BY <2>1, SlotsDisjoint DEF TypeOK
  <2>3. RowBase(r) + j \in Cells
    BY CellInRange
  <2> QED
    BY <1>1, <2>2, <2>3 DEF AddChar, TypeOK
<1>2. CASE ~HasRoom
  BY <1>2 DEF AddChar
<1> QED
  BY <1>1, <1>2

(* A step that writes no complete row keeps the queued lines.              *)
LEMMA QueuedFrame ==
  ASSUME TypeOK, TypeOK', CompleteRows, UNCHANGED <<rowcount, oldestrow>>,
         \A i \in 0..rowcount - 1 : \A j \in SlotIdx :
            recvlines'[RowBase(RowIdx(i)) + j] = recvlines[RowBase(RowIdx(i)) + j]
  PROVE  QueuedLines' = QueuedLines /\ CompleteRows'
<1>1. ASSUME NEW i \in 0..rowcount - 1
      PROVE  /\ \E n \in SlotIdx : RowHolds(recvlines', RowIdx(i), n)
             /\ LineOf(recvlines', RowIdx(i)) = LineOf(recvlines, RowIdx(i))
  <2>1. RowIdx(i) \in Rows
    BY RingMod DEF RowIdx, TypeOK
  <2>2. PICK n \in SlotIdx : RowHolds(recvlines, RowIdx(i), n)
    BY DEF CompleteRows
  <2>3. RowHolds(recvlines', RowIdx(i), n)
        /\ LineOf(recvlines', RowIdx(i)) = LineOf(recvlines, RowIdx(i))
    BY <2>1, <2>2, RowFrame DEF TypeOK
  <2> QED
    BY <2>3
<1>2. CompleteRows'
  BY <1>1 DEF CompleteRows, RowIdx
<1>3. ASSUME NEW i \in 1..rowcount
      PROVE  LineAt((oldestrow + i - 1) % LineCount)'
               = LineAt((oldestrow + i - 1) % LineCount)
  <2>1. i - 1 \in 0..rowcount - 1 /\ (oldestrow + i - 1) = oldestrow + (i - 1)
    BY DEF TypeOK, Rows
  <2>2. LineAt((oldestrow + i - 1) % LineCount)'
          = LineOf(recvlines', RowIdx(i - 1))
    BY <2>1, LineAtIsLineOf DEF RowIdx
  <2>3. LineAt((oldestrow + i - 1) % LineCount)
          = LineOf(recvlines, RowIdx(i - 1))
    BY <2>1, LineAtIsLineOf DEF RowIdx
  <2> QED
    BY <1>1, <2>1, <2>2, <2>3
<1> QED
  BY <1>2, <1>3 DEF QueuedLines


-----------------------------------------------------------------------------
(* The row being filled.                                                   *)

(* Ending a line terminates the newest row at the clamped write position  *)
(* and keeps the characters before it, when the branch moves on to        *)
(* another row.                                                            *)
LEMMA EndLineTerm ==
  ASSUME TypeOK, PartialChars, EndLine, newestrow' # newestrow
  PROVE  /\ RowHolds(recvlines', newestrow, TermPos)
         /\ \A j \in 0..TermPos - 1 :
              recvlines'[RowBase(newestrow) + j] = recvlines[RowBase(newestrow) + j]
<1> DEFINE term == [recvlines EXCEPT ![RowBase(newestrow) + TermPos] = NUL]
<1>1. recvlines' = [term EXCEPT ![RowBase(newestrow')] = NUL]
      /\ newestrow' \in Rows
  BY RingStep DEF EndLine, TypeOK, Rows
<1>2. TermPos \in SlotIdx /\ 0 \in SlotIdx /\ TermPos <= recvcharptr
  BY DEF TermPos, TypeOK, SlotIdx
<1>3. ASSUME NEW j \in SlotIdx
      PROVE  /\ RowBase(newestrow) + j # RowBase(newestrow')
             /\ RowBase(newestrow) + j \in Cells
  <2>1. RowBase(newestrow) + j # RowBase(newestrow') + 0
    BY <1>1, <1>2, SlotsDisjoint DEF TypeOK
  <2>2. RowBase(newestrow') + 0 = RowBase(newestrow')
    BY <1>1 DEF RowBase, Rows
  <2> QED
    BY <2>1, <2>2, CellInRange DEF TypeOK
<1>4. recvlines'[RowBase(newestrow) + TermPos] = NUL
  BY <1>1, <1>2, <1>3 DEF TypeOK
<1>5. ASSUME NEW j \in 0..TermPos - 1
      PROVE  /\ recvlines'[RowBase(newestrow) + j] = recvlines[RowBase(newestrow) + j]
             /\ recvlines[RowBase(newestrow) + j] \in Chars
  <2>1. j \in SlotIdx /\ j # TermPos /\ j \in 0..recvcharptr - 1
    BY <1>2 DEF SlotIdx, TypeOK
  <2>2. RowBase(newestrow) + j # RowBase(newestrow) + TermPos
    BY <1>2, <2>1 DEF RowBase, TypeOK, Rows, SlotIdx
  <2> QED
    BY <1>1, <1>3, <2>1, <2>2 DEF TypeOK, PartialChars
<1> QED
  BY <1>4, <1>5, CharsAssumption DEF RowHolds

(* The mapped partial line is a sequence of recvcharptr bytes.            *)
LEMMA PartialLineSeq ==
  ASSUME TypeOK
  PROVE  /\ PartialLine \in [1..recvcharptr -> Bytes]
         /\ Len(PartialLine) = recvcharptr
         /\ PartialLine = <<>> <=> recvcharptr = 0
<1>1. \A i \in 1..recvcharptr : RowBase(newestrow) + i - 1 \in Cells
  <2> SUFFICES ASSUME NEW i \in 1..recvcharptr
               PROVE  RowBase(newestrow) + i - 1 \in Cells
    OBVIOUS
  <2>1. i - 1 \in SlotIdx /\ RowBase(newestrow) + (i - 1) = RowBase(newestrow) + i - 1
    BY DEF TypeOK, SlotIdx, RowBase, Rows
  <2> QED
    BY <2>1, CellInRange DEF TypeOK
<1>2. PartialLine \in [1..recvcharptr -> Bytes]
  BY <1>1 DEF PartialLine, TypeOK
<1> QED
  BY <1>2 DEF TypeOK

(* Cut, applied to the mapped partial line, keeps the bytes before the     *)
(* clamped write position: the string the end-of-line branch terminates.  *)
LEMMA CutPartial ==
  ASSUME TypeOK
  PROVE  DropNewest!Cut(PartialLine)
           = [j \in 1..TermPos |-> recvlines[RowBase(newestrow) + j - 1]]
<1>1. PartialLine \in [1..recvcharptr -> Bytes] /\ Len(PartialLine) = recvcharptr
  BY PartialLineSeq
<1>2. CASE recvcharptr >= LineSize
  <2>1. TermPos = LineSize - 1 /\ LineSize - 1 \in 0..recvcharptr
    BY <1>2 DEF TermPos, TypeOK
  <2>2. SubSeq(PartialLine, 1, LineSize - 1) = [j \in 1..LineSize - 1 |-> PartialLine[j]]
    BY <1>1, <2>1 DEF TypeOK
  <2>3. [j \in 1..LineSize - 1 |-> PartialLine[j]]
          = [j \in 1..TermPos |-> recvlines[RowBase(newestrow) + j - 1]]
    BY <2>1 DEF PartialLine, TypeOK
  <2>4. DropNewest!Cut(PartialLine) = SubSeq(PartialLine, 1, LineSize - 1)
    BY <1>1, <1>2 DEF DropNewest!Cut
  <2> QED
    BY <2>2, <2>3, <2>4
<1>3. CASE recvcharptr < LineSize
  <2>1. DropNewest!Cut(PartialLine) = PartialLine
    BY <1>1, <1>3 DEF DropNewest!Cut
  <2>2. TermPos = recvcharptr
    BY <1>3 DEF TermPos, TypeOK
  <2> QED
    BY <2>1, <2>2 DEF PartialLine
<1> QED
  BY <1>2, <1>3 DEF TypeOK

(* The mapped queue is a sequence of rowcount strings.                     *)
LEMMA QueuedLinesSeq ==
  ASSUME TypeOK
  PROVE  LET S == {QueuedLines[i] : i \in 1..rowcount}
         IN  /\ QueuedLines \in [1..rowcount -> S]
             /\ Len(QueuedLines) = rowcount
             /\ QueuedLines = <<>> <=> rowcount = 0
BY DEF QueuedLines, TypeOK


(* Entry i of the mapped queue is the string at complete row i - 1.        *)
LEMMA QueuedAt ==
  ASSUME TypeOK, NEW i \in 1..rowcount
  PROVE  QueuedLines[i] = LineOf(recvlines, RowIdx(i - 1))
<1>1. (oldestrow + i - 1) = oldestrow + (i - 1)
  BY DEF TypeOK, Rows
<1> QED
  BY <1>1, LineAtIsLineOf DEF QueuedLines, RowIdx

LEMMA QueuedAtPrimed ==
  ASSUME TypeOK', UNCHANGED oldestrow, NEW i \in 1..rowcount'
  PROVE  QueuedLines'[i] = LineOf(recvlines', RowIdx(i - 1))
<1>1. (oldestrow' + i - 1) = oldestrow + (i - 1)
  BY DEF TypeOK, Rows
<1> QED
  BY <1>1, LineAtIsLineOf DEF QueuedLines, RowIdx

-----------------------------------------------------------------------------
(* The interrupt handler's branches, mapped to the queue.                  *)

(* A line ends while the ring has room: the newest row becomes the last   *)
(* complete one and holds the cut partial line, which the queue appends.  *)
LEMMA EndLineAdvanceRef ==
  ASSUME RefInv, TypeOK', EndLine, RowAdvances, UNCHANGED oldestrow
  PROVE  /\ QueuedLines' = Append(QueuedLines, DropNewest!Cut(PartialLine))
         /\ PartialLine' = <<>>
         /\ CompleteRows' /\ PartialChars'
<1> DEFINE rc == rowcount
           cut == DropNewest!Cut(PartialLine)
<1>0. TypeOK /\ RingConsistent /\ CompleteRows /\ PartialChars
  BY DEF RefInv, IInv
<1>1. /\ rc \in 0..LineCount - 2
      /\ rowcount' = rc + 1 /\ recvcharptr' = 0
      /\ newestrow' = (newestrow + 1) % LineCount
  BY <1>0 DEF EndLine, RowAdvances, TypeOK
<1>2. newestrow = RowIdx(rc)
  BY <1>0, RingNewest
<1>3. newestrow' = RowIdx(rc + 1)
  <2>1. oldestrow \in Rows /\ rc \in 0..LineCount - 1
    BY <1>0, <1>1 DEF TypeOK
  <2>2. (((oldestrow + rc) % LineCount) + 1) % LineCount
          = (oldestrow + rc + 1) % LineCount
    BY <2>1, RingMod
  <2>3. oldestrow + rc + 1 = oldestrow + (rc + 1)
    BY <2>1 DEF Rows
  <2> QED
    BY <1>1, <1>2, <2>2, <2>3 DEF RowIdx
<1>4. ASSUME NEW i \in 0..rc - 1
      PROVE  /\ RowIdx(i) \in Rows
             /\ RowIdx(i) # newestrow /\ RowIdx(i) # newestrow'
  <2>1. oldestrow \in Rows /\ i \in 0..LineCount - 1 /\ rc \in 0..LineCount - 1
        /\ rc + 1 \in 0..LineCount - 1 /\ i # rc /\ i # rc + 1
    BY <1>0, <1>1 DEF TypeOK
  <2>2. RowIdx(i) \in Rows
    BY <2>1, RingMod DEF RowIdx
  <2>3. RowIdx(i) # RowIdx(rc) /\ RowIdx(i) # RowIdx(rc + 1)
    BY <2>1, RingInjective DEF RowIdx
  <2> QED
    BY <1>2, <1>3, <2>2, <2>3
<1>5. newestrow' # newestrow
  <2>1. oldestrow \in Rows /\ rc \in 0..LineCount - 1 /\ rc + 1 \in 0..LineCount - 1
    BY <1>0, <1>1 DEF TypeOK
  <2>2. RowIdx(rc) # RowIdx(rc + 1)
    BY <2>1, RingInjective DEF RowIdx
  <2> QED
    BY <1>2, <1>3, <2>2
<1>6. ASSUME NEW i \in 0..rc - 1
      PROVE  /\ \E n \in SlotIdx : RowHolds(recvlines', RowIdx(i), n)
             /\ LineOf(recvlines', RowIdx(i)) = LineOf(recvlines, RowIdx(i))
  <2>1. PICK n \in SlotIdx : RowHolds(recvlines, RowIdx(i), n)
    BY <1>0 DEF CompleteRows
  <2>2. \A j \in SlotIdx : recvlines'[RowBase(RowIdx(i)) + j]
                              = recvlines[RowBase(RowIdx(i)) + j]
    BY <1>0, <1>4, EndLineFrame
  <2> QED
    BY <1>0, <1>4, <2>1, <2>2, RowFrame DEF TypeOK
<1>7. /\ RowHolds(recvlines', newestrow, TermPos)
      /\ LineOf(recvlines', newestrow) = cut
  <2>1. RowHolds(recvlines', newestrow, TermPos)
        /\ \A j \in 0..TermPos - 1 :
             recvlines'[RowBase(newestrow) + j] = recvlines[RowBase(newestrow) + j]
    BY <1>0, <1>5, EndLineTerm
  <2>2. TermPos \in SlotIdx
    BY <1>0 DEF TermPos, TypeOK, SlotIdx
  <2>3. LineOf(recvlines', newestrow)
          = [j \in 1..TermPos |-> recvlines'[RowBase(newestrow) + j - 1]]
    BY <1>0, <2>1, <2>2, LineOfRow DEF TypeOK
  <2>4. [j \in 1..TermPos |-> recvlines'[RowBase(newestrow) + j - 1]]
          = [j \in 1..TermPos |-> recvlines[RowBase(newestrow) + j - 1]]
    <3> SUFFICES ASSUME NEW j \in 1..TermPos
                 PROVE  recvlines'[RowBase(newestrow) + j - 1]
                          = recvlines[RowBase(newestrow) + j - 1]
      OBVIOUS
    <3>1. j - 1 \in 0..TermPos - 1
          /\ RowBase(newestrow) + (j - 1) = RowBase(newestrow) + j - 1
      BY <1>0, <2>2 DEF SlotIdx, RowBase, TypeOK, Rows
    <3> QED
      BY <2>1, <3>1
  <2> QED
    BY <1>0, <2>1, <2>3, <2>4, CutPartial
<1>8. CompleteRows'
  <2> SUFFICES ASSUME NEW i \in 0..rc
               PROVE  \E n \in SlotIdx : RowHolds(recvlines', RowIdx(i), n)
    BY <1>1 DEF CompleteRows, RowIdx
  <2>1. CASE i < rc
    <3>1. i \in 0..rc - 1
      BY <1>1, <2>1
    <3> QED
      BY <1>6, <3>1
  <2>2. CASE i = rc
    <3>1. TermPos \in SlotIdx
      BY <1>0 DEF TermPos, TypeOK, SlotIdx
    <3> QED
      BY <1>2, <1>7, <2>2, <3>1
  <2> QED
    BY <1>1, <2>1, <2>2
<1>9. PartialChars' /\ PartialLine' = <<>>
  BY <1>1 DEF PartialChars, PartialLine
<1>10. ASSUME NEW i \in 1..rc + 1
       PROVE  QueuedLines'[i] = IF i <= rc THEN QueuedLines[i] ELSE cut
  <2>1. QueuedLines'[i] = LineOf(recvlines', RowIdx(i - 1))
    BY <1>1, QueuedAtPrimed
  <2>2. CASE i <= rc
    <3>1. i - 1 \in 0..rc - 1
      BY <1>1, <2>2
    <3>2. QueuedLines[i] = LineOf(recvlines, RowIdx(i - 1))
      BY <1>0, <2>2, QueuedAt
    <3> QED
      BY <1>6, <2>1, <2>2, <3>1, <3>2
  <2>3. CASE ~(i <= rc)
    <3>1. i - 1 = rc
      BY <1>1, <2>3
    <3> QED
      BY <1>2, <1>7, <2>1, <2>3, <3>1
  <2> QED
    BY <2>2, <2>3
<1>11. Append(QueuedLines, cut)
         = [i \in 1..rc + 1 |-> IF i <= rc THEN QueuedLines[i] ELSE cut]
  <2>1. QueuedLines = [i \in 1..rc |-> QueuedLines[i]] /\ rc \in Nat
    BY <1>1 DEF QueuedLines
  <2> QED
    BY <2>1, AppendLit
<1>12. QueuedLines' = [i \in 1..rc + 1 |-> IF i <= rc THEN QueuedLines[i] ELSE cut]
  BY <1>1, <1>10 DEF QueuedLines
<1> QED
  BY <1>8, <1>9, <1>11, <1>12


(* The complete rows are not the row being filled.                         *)
LEMMA CompleteNotNewest ==
  ASSUME TypeOK, RingConsistent, NEW i \in 0..rowcount - 1
  PROVE  RowIdx(i) \in Rows /\ RowIdx(i) # newestrow
<1>1. oldestrow \in Rows /\ i \in 0..LineCount - 1 /\ rowcount \in 0..LineCount - 1
      /\ i # rowcount
  BY DEF TypeOK
<1>2. RowIdx(i) \in Rows
  BY <1>1, RingMod DEF RowIdx
<1>3. RowIdx(i) # RowIdx(rowcount)
  BY <1>1, RingInjective DEF RowIdx
<1> QED
  BY <1>2, <1>3, RingNewest

(* A line ends while the ring is full: the handler stays on the newest    *)
(* row and restarts it, so the queue drops the line.                       *)
LEMMA EndLineFullRef ==
  ASSUME RefInv, TypeOK', EndLine, ~RowAdvances, UNCHANGED oldestrow
  PROVE  /\ ~(Len(QueuedLines) < LineCount - 1)
         /\ QueuedLines' = QueuedLines
         /\ PartialLine' = <<>>
         /\ CompleteRows' /\ PartialChars'
<1>0. TypeOK /\ RingConsistent /\ CompleteRows /\ PartialChars
  BY DEF RefInv, IInv
<1>1. /\ rowcount' = rowcount /\ newestrow' = newestrow /\ recvcharptr' = 0
      /\ ~(rowcount < LineCount - 1)
  BY DEF EndLine, RowAdvances
<1>2. \A i \in 0..rowcount - 1 : \A j \in SlotIdx :
        recvlines'[RowBase(RowIdx(i)) + j] = recvlines[RowBase(RowIdx(i)) + j]
  BY <1>0, <1>1, CompleteNotNewest, EndLineFrame
<1>3. QueuedLines' = QueuedLines /\ CompleteRows'
  BY <1>0, <1>1, <1>2, QueuedFrame
<1>4. Len(QueuedLines) = rowcount
  BY <1>0, QueuedLinesSeq
<1> QED
  BY <1>1, <1>3, <1>4 DEF PartialChars, PartialLine

(* A character arrives: the queue is untouched and the partial line grows *)
(* while the row has room.                                                 *)
LEMMA AddCharRef ==
  ASSUME RefInv, TypeOK', NEW c \in Chars, AddChar(c),
         UNCHANGED <<oldestrow, rowcount, newestrow>>
  PROVE  /\ QueuedLines' = QueuedLines
         /\ PartialLine' = IF Len(PartialLine) < LineSize
                           THEN Append(PartialLine, c) ELSE PartialLine
         /\ CompleteRows' /\ PartialChars'
<1>0. TypeOK /\ RingConsistent /\ CompleteRows /\ PartialChars
  BY DEF RefInv, IInv
<1>1. \A i \in 0..rowcount - 1 : \A j \in SlotIdx :
        recvlines'[RowBase(RowIdx(i)) + j] = recvlines[RowBase(RowIdx(i)) + j]
  BY <1>0, CompleteNotNewest, AddCharFrame
<1>2. QueuedLines' = QueuedLines /\ CompleteRows'
  BY <1>0, <1>1, QueuedFrame
<1>3. Len(PartialLine) = recvcharptr
  BY <1>0, PartialLineSeq
<1>4. CASE HasRoom
  <2> DEFINE p == recvcharptr
             b == RowBase(newestrow)
  <2>1. recvlines' = [recvlines EXCEPT ![b + p] = c] /\ recvcharptr' = p + 1
    BY <1>4 DEF AddChar
  <2>2. p \in SlotIdx /\ newestrow \in Rows /\ b \in Nat /\ b + p \in Cells
    <3>1. p \in SlotIdx /\ newestrow \in Rows
      BY <1>0, <1>4 DEF HasRoom, TypeOK, SlotIdx
    <3>2. b \in Nat
      BY <3>1 DEF RowBase, Rows
    <3> QED
      BY <3>1, <3>2, CellInRange
  <2>3. ASSUME NEW j \in 0..p - 1
        PROVE  recvlines'[b + j] = recvlines[b + j] /\ b + j # b + p
    <3>1. j \in SlotIdx
      BY <2>2 DEF SlotIdx
    <3>2. b + j \in Cells
      BY <3>1, CellInRange DEF TypeOK
    <3> QED
      BY <1>0, <2>1, <2>2, <3>2 DEF TypeOK
  <2>4. recvlines'[b + p] = c
    BY <1>0, <2>1, <2>2 DEF TypeOK
  <2>5. PartialChars'
    <3> SUFFICES ASSUME NEW j \in 0..p
                 PROVE  recvlines'[b + j] \in Chars
      BY <2>1, <2>2 DEF PartialChars, SlotIdx
    <3>1. CASE j < p
      <4>1. j \in 0..p - 1
        BY <2>2, <3>1 DEF SlotIdx
      <4> QED
        BY <1>0, <2>3, <4>1 DEF PartialChars
    <3>2. CASE j = p
      BY <2>4, <3>2, Zenon
    <3> QED
      BY <2>2, <3>1, <3>2 DEF SlotIdx
  <2>6. PartialLine' = [i \in 1..p + 1 |-> IF i <= p THEN PartialLine[i] ELSE c]
    <3> SUFFICES ASSUME NEW i \in 1..p + 1
                 PROVE  recvlines'[b + i - 1] = IF i <= p THEN PartialLine[i] ELSE c
      BY <2>1 DEF PartialLine
    <3>1. i - 1 \in 0..p /\ b + (i - 1) = b + i - 1
      BY <2>2 DEF SlotIdx
    <3>2. CASE i <= p
      <4>1. i - 1 \in 0..p - 1
        BY <2>2, <3>2 DEF SlotIdx
      <4> QED
        BY <2>3, <3>1, <3>2, <4>1 DEF PartialLine
    <3>3. CASE ~(i <= p)
      <4>1. i - 1 = p
        BY <2>2, <3>3 DEF SlotIdx
      <4> QED
        BY <2>4, <3>1, <3>3, <4>1
    <3> QED
      BY <3>2, <3>3
  <2>7. Append(PartialLine, c)
          = [i \in 1..p + 1 |-> IF i <= p THEN PartialLine[i] ELSE c]
    <3>1. PartialLine = [i \in 1..p |-> PartialLine[i]] /\ p \in Nat
      BY <2>2 DEF PartialLine, SlotIdx
    <3> QED
      BY <3>1, AppendLit
  <2>8. Len(PartialLine) < LineSize
    BY <1>3, <1>4 DEF HasRoom
  <2> QED
    BY <1>2, <2>5, <2>6, <2>7, <2>8
<1>5. CASE ~HasRoom
  <2>1. UNCHANGED <<recvlines, recvcharptr>>
    BY <1>5 DEF AddChar
  <2>2. ~(Len(PartialLine) < LineSize)
    BY <1>3, <1>5 DEF HasRoom
  <2> QED
    BY <1>0, <1>2, <2>1, <2>2 DEF PartialLine, PartialChars
<1> QED
  BY <1>4, <1>5


-----------------------------------------------------------------------------
(* The main loop's steps, mapped to the queue.                             *)

(* A step that leaves the ring alone leaves the queue and the partial line *)
(* alone.                                                                  *)
LEMMA RingFrame ==
  ASSUME UNCHANGED <<recvlines, rowcount, oldestrow, newestrow, recvcharptr>>
  PROVE  /\ QueuedLines' = QueuedLines /\ PartialLine' = PartialLine
         /\ CompleteRows = CompleteRows' /\ PartialChars = PartialChars'
BY DEF QueuedLines, LineAt, PartialLine, CompleteRows, RowIdx, PartialChars

(* UART_DoneWithLine releases the oldest complete row: the queue loses its *)
(* head, and the next row becomes the oldest.                              *)
LEMMA DoneWithLineRef ==
  ASSUME RefInv, UART_DoneWithLine
  PROVE  /\ QueuedLines # <<>>
         /\ QueuedLines' = Tail(QueuedLines)
         /\ PartialLine' = PartialLine
         /\ CompleteRows' /\ PartialChars'
<1>0. TypeOK /\ CompleteRows /\ PartialChars /\ 0 < rowcount
  BY DEF RefInv, IInv, HoldsOldest, UART_DoneWithLine
<1>1. /\ oldestrow' = (oldestrow + 1) % LineCount /\ rowcount' = rowcount - 1
      /\ UNCHANGED <<recvlines, newestrow, recvcharptr>>
  BY <1>0 DEF UART_DoneWithLine
<1>2. ASSUME NEW i \in 0..rowcount - 2
      PROVE  /\ (oldestrow' + i) % LineCount = RowIdx(i + 1)
             /\ i + 1 \in 0..rowcount - 1
  <2>1. oldestrow \in Rows /\ i \in 0..LineCount - 1 /\ i + 1 \in 0..rowcount - 1
    BY <1>0 DEF TypeOK
  <2>2. (((oldestrow + 1) % LineCount) + i) % LineCount = (oldestrow + 1 + i) % LineCount
    BY <2>1, RingMod
  <2>3. oldestrow + 1 + i = oldestrow + (i + 1)
    BY <2>1 DEF Rows
  <2> QED
    BY <1>1, <2>1, <2>2, <2>3 DEF RowIdx
<1>3. QueuedLines' = [i \in 1..rowcount - 1 |-> QueuedLines[i + 1]]
  <2> SUFFICES ASSUME NEW i \in 1..rowcount - 1
               PROVE  LineAt((oldestrow + i - 1) % LineCount)' = QueuedLines[i + 1]
    BY <1>1 DEF QueuedLines
  <2>1. i - 1 \in 0..rowcount - 2 /\ i + 1 \in 1..rowcount
        /\ oldestrow' + i - 1 = oldestrow' + (i - 1) /\ (i - 1) + 1 = i
    BY <1>0, <1>1, RingMod DEF TypeOK
  <2>2. LineAt((oldestrow + i - 1) % LineCount)' = LineOf(recvlines, RowIdx(i))
    BY <1>1, <1>2, <2>1, LineAtIsLineOf
  <2>3. QueuedLines[i + 1] = LineOf(recvlines, RowIdx(i))
    <3>1. QueuedLines[i + 1] = LineOf(recvlines, RowIdx(i + 1 - 1))
      BY <1>0, <2>1, QueuedAt
    <3> QED
      BY <3>1, <2>1 DEF TypeOK
  <2> QED
    BY <2>2, <2>3
<1>4. QueuedLines # <<>> /\ Tail(QueuedLines) = [i \in 1..rowcount - 1 |-> QueuedLines[i + 1]]
  <2>1. QueuedLines = [i \in 1..rowcount |-> QueuedLines[i]] /\ rowcount \in Nat \ {0}
    BY <1>0 DEF QueuedLines, TypeOK
  <2>2. QueuedLines # <<>>
    BY <1>0, QueuedLinesSeq
  <2> QED
    BY <2>1, <2>2, TailLit
<1>5. CompleteRows'
  <2> SUFFICES ASSUME NEW i \in 0..rowcount' - 1
               PROVE  \E n \in SlotIdx : RowHolds(recvlines, (oldestrow' + i) % LineCount, n)
    BY <1>1 DEF CompleteRows, RowIdx
  <2>1. i \in 0..rowcount - 2
    BY <1>0, <1>1 DEF TypeOK
  <2> QED
    BY <1>0, <1>2, <2>1 DEF CompleteRows
<1> QED
  BY <1>1, <1>3, <1>4, <1>5, <1>0 DEF PartialLine, PartialChars

(* The ring starts empty, like the queue.                                  *)
LEMMA InitRef == Init => RefInv /\ DropNewest!Init
<1> SUFFICES ASSUME Init PROVE RefInv /\ DropNewest!Init
  OBVIOUS
<1>1. IInv
  BY InitIInv
<1>2. rowcount = 0 /\ recvcharptr = 0 /\ saw_cr = FALSE
      /\ uart_filter_empty_lines = FALSE /\ mainpc = "idle"
  BY DEF Init, UART_InitBuffers_ISR
<1>3. CompleteRows /\ PartialChars
  BY <1>2 DEF CompleteRows, PartialChars
<1>4. QueuedLines = <<>> /\ PartialLine = <<>>
  BY <1>2 DEF QueuedLines, PartialLine
<1> QED
  BY <1>1, <1>2, <1>3, <1>4 DEF RefInv, DropNewest!Init


-----------------------------------------------------------------------------
(* Every step of the ring is a step of the queue.                          *)

(* The receive interrupt, whatever the character, is Receive(c) of the    *)
(* queue.                                                                  *)
LEMMA ISRRef ==
  ASSUME RefInv, TypeOK', NEW c \in RecvInput, UART_HandleRecvChar_ISR(c)
  PROVE  DropNewest!Receive(c) /\ CompleteRows' /\ PartialChars'
<1>0. TypeOK
  BY DEF RefInv, IInv
<1>1. /\ saw_cr' = (c = CR)
      /\ UNCHANGED <<oldestrow, uart_filter_empty_lines, mainpc>>
  BY DEF UART_HandleRecvChar_ISR
<1>2. PartialLine = <<>> <=> recvcharptr = 0
  BY <1>0, PartialLineSeq
<1>3. CASE \/ saw_cr /\ c = LF
           \/ /\ ~(saw_cr /\ c = LF) /\ c \in {CR, LF}
              /\ uart_filter_empty_lines /\ recvcharptr = 0
  <2>1. UNCHANGED <<recvlines, rowcount, newestrow, recvcharptr>>
    BY <1>3 DEF UART_HandleRecvChar_ISR
  <2>2. /\ QueuedLines' = QueuedLines /\ PartialLine' = PartialLine
        /\ CompleteRows' /\ PartialChars'
    BY <1>1, <2>1, RingFrame DEF RefInv
  <2> QED
    BY <1>1, <1>2, <1>3, <2>2 DEF DropNewest!Receive
<1>4. CASE /\ ~(saw_cr /\ c = LF) /\ c \in {CR, LF}
           /\ ~(uart_filter_empty_lines /\ recvcharptr = 0)
  <2>1. EndLine
    BY <1>4, CharsAssumption DEF UART_HandleRecvChar_ISR
  <2>2. DropNewest!Complete /\ CompleteRows' /\ PartialChars'
    <3>1. CASE RowAdvances
      <4>1. Len(QueuedLines) < LineCount - 1
        BY <1>0, <3>1, QueuedLinesSeq DEF RowAdvances
      <4> QED
        BY <1>1, <2>1, <3>1, <4>1, EndLineAdvanceRef DEF DropNewest!Complete
    <3>2. CASE ~RowAdvances
      BY <1>1, <2>1, <3>2, EndLineFullRef DEF DropNewest!Complete
    <3> QED
      BY <3>1, <3>2
  <2> QED
    BY <1>1, <1>2, <1>4, <2>2 DEF DropNewest!Receive
<1>5. CASE c \notin {CR, LF}
  <2>1. c \in Chars /\ AddChar(c)
    BY <1>5 DEF UART_HandleRecvChar_ISR, RecvInput
  <2>2. UNCHANGED <<rowcount, newestrow>>
    BY <2>1 DEF AddChar
  <2>3. /\ QueuedLines' = QueuedLines
        /\ PartialLine' = IF Len(PartialLine) < LineSize
                          THEN Append(PartialLine, c) ELSE PartialLine
        /\ CompleteRows' /\ PartialChars'
    BY <1>1, <2>1, <2>2, AddCharRef
  <2> QED
    BY <1>1, <1>5, <2>3 DEF DropNewest!Receive
<1> QED
  BY <1>3, <1>4, <1>5

(* RefInv is inductive, and every step of the ring maps to a step of the   *)
(* queue or leaves the mapped queue as it was.                             *)
LEMMA NextRef ==
  ASSUME RefInv, [Next]_vars
  PROVE  RefInv' /\ [DropNewest!Next]_DropNewest!vars
<1>0. IInv' /\ TypeOK'
  BY IInvStep DEF RefInv, IInv
<1>1. ASSUME NEW c \in RecvInput, UART_HandleRecvChar_ISR(c)
      PROVE  RefInv' /\ [DropNewest!Next]_DropNewest!vars
  <2>1. DropNewest!Receive(c) /\ CompleteRows' /\ PartialChars'
    BY <1>0, <1>1, ISRRef
  <2> QED
    BY <1>0, <2>1 DEF RefInv, DropNewest!Next, RecvInput
<1>2. CASE UART_GetNextLine
  <2>1. /\ QueuedLines' = QueuedLines /\ PartialLine' = PartialLine
        /\ CompleteRows' /\ PartialChars'
    BY <1>2, RingFrame DEF RefInv, UART_GetNextLine
  <2>2. QueuedLines # <<>>
    BY <1>2, QueuedLinesSeq DEF UART_GetNextLine, RefInv, IInv
  <2>3. DropNewest!Peek
    BY <1>2, <2>1, <2>2 DEF UART_GetNextLine, DropNewest!Peek
  <2> QED
    BY <1>0, <2>1, <2>3 DEF RefInv, DropNewest!Next
<1>3. CASE UART_DoneWithLine
  <2>1. DropNewest!Release /\ CompleteRows' /\ PartialChars'
    BY <1>3, DoneWithLineRef DEF UART_DoneWithLine, DropNewest!Release
  <2> QED
    BY <1>0, <2>1 DEF RefInv, DropNewest!Next
<1>4. ASSUME NEW b \in BOOLEAN, UART_SetLineFiltering(b)
      PROVE  RefInv' /\ [DropNewest!Next]_DropNewest!vars
  <2>1. /\ QueuedLines' = QueuedLines /\ PartialLine' = PartialLine
        /\ CompleteRows' /\ PartialChars'
    BY <1>4, RingFrame DEF RefInv, UART_SetLineFiltering
  <2>2. DropNewest!SetFiltering(b)
    BY <1>4, <2>1 DEF UART_SetLineFiltering, DropNewest!SetFiltering
  <2> QED
    BY <1>0, <2>1, <2>2 DEF RefInv, DropNewest!Next
<1>5. CASE UNCHANGED vars
  <2>1. /\ QueuedLines' = QueuedLines /\ PartialLine' = PartialLine
        /\ CompleteRows' /\ PartialChars'
    BY <1>5, RingFrame DEF RefInv, vars
  <2> QED
    BY <1>0, <1>5, <2>1 DEF RefInv, vars, DropNewest!vars
<1> QED
  BY <1>1, <1>2, <1>3, <1>4, <1>5 DEF Next

(* The receive ring and its main-loop consumer implement the line queue   *)
(* neuravr.h promises, with a line that completes while the ring is full  *)
(* discarded, for every ring size and row size: UART_HandleRecvChar_ISR   *)
(* is Receive, UART_GetNextLine is Peek, UART_DoneWithLine is Release.    *)
THEOREM LineQueueRefinementHolds == Spec => LineQueueRefinement
<1>1. Init => RefInv /\ DropNewest!Init
  BY InitRef
<1>2. RefInv /\ [Next]_vars => RefInv' /\ [DropNewest!Next]_DropNewest!vars
  BY NextRef
<1> QED
  BY <1>1, <1>2, PTL DEF Spec, LineQueueRefinement, DropNewest!Spec

=============================================================================
