------------------------------ MODULE UartRecv ------------------------------
(***************************************************************************)
(* Receive side of the serial channel (src/unnamed/part_002, common core   *)
(* UART functions).  The receive-complete interrupt feeds one character at *)
(* a time to UART_HandleRecvChar_ISR, which accumulates it into the        *)
(* in-progress row of a ring of UART_LINE_COUNT rows of UART_LINE_SIZE     *)
(* bytes, stored as one flat array UART_recvlines.  The main loop peeks    *)
(* at the oldest complete row with UART_GetNextLine, keeps the returned    *)
(* pointer while it echoes and parses the line, and releases the row with  *)
(* UART_DoneWithLine.  Both main-loop calls run inside ATOMIC_BLOCK and    *)
(* the interrupt handler runs with interrupts disabled, so each of them is *)
(* one atomic step; the interrupt may fire between any two main-loop       *)
(* steps, in particular while the main loop holds the line pointer.        *)
(***************************************************************************)
EXTENDS Naturals, Sequences

CONSTANTS
  LineCount,   \* UART_LINE_COUNT (8 on both AVR targets)
  LineSize,    \* UART_LINE_SIZE = 1 << UART_LINE_BITS (64 or 128)
  Chars,       \* the received characters that are not line terminators
  CR, LF,      \* '\r' and '\n'
  NUL          \* the string terminator 0

ASSUME LineCountAssumption == LineCount \in Nat \ {0, 1}

(* UART_LINE_COUNT is a power of two: the ring index wraps with            *)
(* "& (UART_LINE_COUNT - 1)", which is "% UART_LINE_COUNT" only then.       *)
ASSUME LineCountPowerOfTwo == \E k \in 0..LineCount : 2^k = LineCount

ASSUME LineSizeAssumption == LineSize \in Nat \ {0}

ASSUME CharsAssumption ==
  /\ CR # LF /\ CR # NUL /\ LF # NUL
  /\ CR \notin Chars /\ LF \notin Chars /\ NUL \notin Chars

VARIABLES
  recvlines,    \* UART_recvlines: flat array of LineCount * LineSize bytes
  rowcount,     \* number of complete rows not yet released
  oldestrow,    \* row returned by UART_GetNextLine
  newestrow,    \* row the interrupt handler is filling
  recvcharptr,  \* write position in the newest row
  saw_cr,       \* static local of UART_HandleRecvChar_ISR
  uart_filter_empty_lines,
  mainpc,       \* main loop: "idle", or "holding" a line pointer
  held,         \* row of the pointer UART_GetNextLine returned
  heldslot      \* ghost: the bytes of that row when it was returned

vars == <<recvlines, rowcount, oldestrow, newestrow, recvcharptr, saw_cr,
          uart_filter_empty_lines, mainpc, held, heldslot>>

RecvInput == Chars \cup {CR, LF}
Bytes == Chars \cup {NUL}
Rows == 0..LineCount - 1
Cells == 0..LineCount * LineSize - 1
SlotIdx == 0..LineSize - 1

(* Index of the first byte of a row: "row << UART_LINE_BITS".              *)
RowBase(r) == r * LineSize

(* The bytes of one row.                                                   *)
SlotAt(r) == [j \in SlotIdx |-> recvlines[RowBase(r) + j]]

(* The C string that starts at row r: the bytes up to the first NUL at or  *)
(* after the row's first byte, which need not lie in the same row.         *)
LineAt(r) ==
  LET ends == {i \in RowBase(r)..LineCount * LineSize - 1 : recvlines[i] = NUL}
      stop == IF ends = {} THEN LineCount * LineSize
              ELSE CHOOSE i \in ends : \A k \in ends : i <= k
  IN  [j \in 1..(stop - RowBase(r)) |-> recvlines[RowBase(r) + j - 1]]

(***************************************************************************)
(* UART_InitBuffers_ISR, called from UART_Init with interrupts off.  The   *)
(* array is a zero-initialised global; saw_cr is a static local that       *)
(* starts false and is not reset here.                                     *)
(***************************************************************************)
UART_InitBuffers_ISR ==
  /\ recvlines = [i \in Cells |-> NUL]
  /\ rowcount = 0
  /\ oldestrow = 0
  /\ newestrow = 0
  /\ recvcharptr = 0
  /\ saw_cr = FALSE
  /\ uart_filter_empty_lines = FALSE

Init ==
  /\ UART_InitBuffers_ISR
  /\ mainpc = "idle"
  /\ held = 0
  /\ heldslot = [j \in SlotIdx |-> NUL]

(* Mutant: the ring counted full at UART_LINE_COUNT complete rows.        *)
RowAdvances_NoReserve == rowcount < LineCount

(* The test of the end-of-line branch: a row is advanced to only while     *)
(* fewer than UART_LINE_COUNT - 1 rows are complete, since the newest row  *)
(* is always the one being filled.                                         *)
RowAdvances == rowcount < LineCount - 1

(* Mutant: the terminator written at the write position unclamped.        *)
TermPos_NoClamp == recvcharptr

(* Where the terminator goes: the write position, clamped into the row.   *)
TermPos == IF recvcharptr >= LineSize THEN LineSize - 1 ELSE recvcharptr

(* End-of-line branch of UART_HandleRecvChar_ISR when the line is kept:    *)
(* clamp the write position, terminate the row, advance to a new row if    *)
(* there is room (else stay on this one), and terminate the new row.       *)
EndLine ==
  LET term == [recvlines EXCEPT ![RowBase(newestrow) + TermPos] = NUL]
      nrow == IF RowAdvances THEN (newestrow + 1) % LineCount ELSE newestrow
  IN  /\ recvlines' = [term EXCEPT ![RowBase(nrow)] = NUL]
      /\ newestrow' = nrow
      /\ rowcount' = IF RowAdvances THEN rowcount + 1 ELSE rowcount
      /\ recvcharptr' = 0

(* Mutant: the room test of the character branch off by one.              *)
HasRoom_OffByOne == recvcharptr <= LineSize

(* The character branch stores into the row only while it has room.      *)
HasRoom == recvcharptr < LineSize

(* Character branch: store it if the row has room, else drop it.          *)
AddChar(c) ==
  IF HasRoom
  THEN /\ recvlines' = [recvlines EXCEPT ![RowBase(newestrow) + recvcharptr] = c]
       /\ recvcharptr' = recvcharptr + 1
       /\ UNCHANGED <<rowcount, newestrow>>
  ELSE UNCHANGED <<recvlines, rowcount, newestrow, recvcharptr>>

(* The receive-complete interrupt delivering character c.                 *)
UART_HandleRecvChar_ISR(c) ==
  /\ \/ /\ saw_cr /\ c = LF
        /\ UNCHANGED <<recvlines, rowcount, newestrow, recvcharptr>>
     \/ /\ ~(saw_cr /\ c = LF)
        /\ c \in {CR, LF}
        /\ IF uart_filter_empty_lines /\ recvcharptr = 0
           THEN UNCHANGED <<recvlines, rowcount, newestrow, recvcharptr>>
           ELSE EndLine
     \/ /\ c \notin {CR, LF}
        /\ AddChar(c)
  /\ saw_cr' = (c = CR)
  /\ UNCHANGED <<oldestrow, uart_filter_empty_lines, mainpc, held, heldslot>>

(* DoPolling: UART_GetNextLine returned a non-NULL pointer to the oldest   *)
(* complete row (a NULL return changes nothing and is not a step).         *)
UART_GetNextLine ==
  /\ mainpc = "idle"
  /\ 0 < rowcount
  /\ mainpc' = "holding"
  /\ held' = oldestrow
  /\ heldslot' = SlotAt(oldestrow)
  /\ UNCHANGED <<recvlines, rowcount, oldestrow, newestrow, recvcharptr,
                 saw_cr, uart_filter_empty_lines>>

(* DoPolling has finished with the line and calls UART_DoneWithLine.      *)
UART_DoneWithLine ==
  /\ mainpc = "holding"
  /\ IF 0 < rowcount
     THEN /\ oldestrow' = (oldestrow + 1) % LineCount
          /\ rowcount' = rowcount - 1
     ELSE UNCHANGED <<oldestrow, rowcount>>
  /\ mainpc' = "idle"
  /\ UNCHANGED <<recvlines, newestrow, recvcharptr, saw_cr,
                 uart_filter_empty_lines, held, heldslot>>

(* The application turns empty-line filtering on or off.                   *)
UART_SetLineFiltering(b) ==
  /\ uart_filter_empty_lines' = b
  /\ UNCHANGED <<recvlines, rowcount, oldestrow, newestrow, recvcharptr,
                 saw_cr, mainpc, held, heldslot>>

Next ==
  \/ \E c \in RecvInput : UART_HandleRecvChar_ISR(c)
  \/ UART_GetNextLine
  \/ UART_DoneWithLine
  \/ \E b \in BOOLEAN : UART_SetLineFiltering(b)

Spec == Init /\ [][Next]_vars

-----------------------------------------------------------------------------
(* Every variable keeps the type its C declaration and its uses give it.   *)
TypeOK ==
  /\ recvlines \in [Cells -> Bytes]
  /\ rowcount \in 0..LineCount - 1
  /\ oldestrow \in Rows
  /\ newestrow \in Rows
  /\ recvcharptr \in 0..LineSize
  /\ saw_cr \in BOOLEAN
  /\ uart_filter_empty_lines \in BOOLEAN
  /\ mainpc \in {"idle", "holding"}
  /\ held \in Rows
  /\ heldslot \in [SlotIdx -> Bytes]

(* While the main loop holds the pointer UART_GetNextLine returned (it     *)
(* echoes and parses the line, interrupts enabled), no received character  *)
(* changes a byte of that row: the interrupt handler only ever writes the  *)
(* row it is filling, and that row is never the held one.                  *)
HeldLineStable ==
  mainpc = "holding" => SlotAt(held) = heldslot

-----------------------------------------------------------------------------
(* The rows from oldestrow on, rowcount of them, are the complete ones and *)
(* the next row after them, counting round the ring, is the one being      *)
(* filled.                                                                 *)
RingConsistent == oldestrow + rowcount \in {newestrow, newestrow + LineCount}

(* The main loop only ever holds the oldest complete row.                  *)
HoldsOldest == mainpc = "holding" => held = oldestrow /\ 0 < rowcount

(* The inductive strengthening of HeldLineStable.                          *)
IInv == TypeOK /\ RingConsistent /\ HoldsOldest /\ HeldLineStable

-----------------------------------------------------------------------------
(* The queue the ring stands for: the strings at the rowcount rows from    *)
(* oldestrow on, and the characters written so far into the newest row.   *)
QueuedLines == [i \in 1..rowcount |-> LineAt((oldestrow + i - 1) % LineCount)]
PartialLine == [i \in 1..recvcharptr |-> recvlines[RowBase(newestrow) + i - 1]]

DropNewest ==
  INSTANCE LineQueue WITH
    lines <- QueuedLines, partial <- PartialLine, sawCR <- saw_cr,
    filtering <- uart_filter_empty_lines, reader <- mainpc,
    FullPolicy <- "drop_newest"

DropOldest ==
  INSTANCE LineQueue WITH
    lines <- QueuedLines, partial <- PartialLine, sawCR <- saw_cr,
    filtering <- uart_filter_empty_lines, reader <- mainpc,
    FullPolicy <- "drop_oldest"

(* The ring buffer implements the line queue the header promises: every    *)
(* step of the interrupt handler or of the main loop is a step of the      *)
(* queue (a line completing while the ring is full is discarded).          *)
LineQueueRefinement == DropNewest!Spec

(* spec.md 4.3: when the ring is full of unread lines, the oldest unread   *)
(* line is overwritten by the line that completes.                         *)
SpecLineQueueRefinement == DropOldest!Spec

=============================================================================
