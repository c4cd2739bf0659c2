----------------------------- MODULE LineQueue -----------------------------
(***************************************************************************)
(* What the receive side of the serial channel promises its user          *)
(* (src/include/neuravr.h, UART_GetNextLine / UART_DoneWithLine, and the   *)
(* line rules of UART_HandleRecvChar_ISR): received characters form a FIFO *)
(* queue of complete lines, each cut to UART_LINE_SIZE - 1 characters; a   *)
(* line ends at CR, at LF, or at the LF of CRLF (counted once); at most    *)
(* UART_LINE_COUNT - 1 complete lines are queued.  The user peeks at the   *)
(* head of the queue and later releases it.  FullPolicy says what becomes  *)
(* of a line that completes while the queue is full: "drop_newest"         *)
(* discards it, "drop_oldest" discards the oldest queued line instead.     *)
(***************************************************************************)
EXTENDS Naturals, Sequences

CONSTANTS LineCount, LineSize, Chars, CR, LF,
          FullPolicy   \* "drop_newest" or "drop_oldest"

VARIABLES
  lines,      \* queued complete lines, oldest first
  partial,    \* characters of the line being received
  sawCR,      \* the last character received was CR
  filtering,  \* empty lines are discarded
  reader      \* "idle", or "holding" the head line

vars == <<lines, partial, sawCR, filtering, reader>>

Init ==
  /\ lines = <<>>
  /\ partial = <<>>
  /\ sawCR = FALSE
  /\ filtering = FALSE
  /\ reader = "idle"

(* The completed line: at most LineSize - 1 of its characters.             *)
Cut(s) == IF Len(s) >= LineSize THEN SubSeq(s, 1, LineSize - 1) ELSE s

Complete ==
  /\ lines' = IF Len(lines) < LineCount - 1 THEN Append(lines, Cut(partial))
              ELSE IF FullPolicy = "drop_oldest"
                   THEN Append(Tail(lines), Cut(partial))
                   ELSE lines
  /\ partial' = <<>>

Receive(c) ==
  /\ \/ /\ sawCR /\ c = LF
        /\ UNCHANGED <<lines, partial>>
     \/ /\ ~(sawCR /\ c = LF)
        /\ c \in {CR, LF}
        /\ IF filtering /\ partial = <<>>
           THEN UNCHANGED <<lines, partial>>
           ELSE Complete
     \/ /\ c \notin {CR, LF}
        /\ partial' = IF Len(partial) < LineSize THEN Append(partial, c)
                      ELSE partial
        /\ UNCHANGED lines
  /\ sawCR' = (c = CR)
  /\ UNCHANGED <<filtering, reader>>

Peek ==
  /\ reader = "idle"
  /\ lines # <<>>
  /\ reader' = "holding"
  /\ UNCHANGED <<lines, partial, sawCR, filtering>>

Release ==
  /\ reader = "holding"
  /\ lines' = IF lines # <<>> THEN Tail(lines) ELSE lines
  /\ reader' = "idle"
  /\ UNCHANGED <<partial, sawCR, filtering>>

SetFiltering(b) ==
  /\ filtering' = b
  /\ UNCHANGED <<lines, partial, sawCR, reader>>

Next ==
  \/ \E c \in Chars \cup {CR, LF} : Receive(c)
  \/ Peek
  \/ Release
  \/ \E b \in BOOLEAN : SetFiltering(b)

Spec == Init /\ [][Next]_vars

=============================================================================
