----------------------------- MODULE TimerInit -----------------------------
(***************************************************************************)
(* Timer_Init(mcu_hz, rtc_hz) of the ATmega328P (m328p timer.cpp): it     *)
(* masks the timer interrupts, stops the timers, clears the timestamp and  *)
(* the callback and, for a nonzero rate, loads OCR1A with the tick period  *)
(* and starts Timer 1 in CTC mode with a /1 prescaler, which fires every   *)
(* OCR1A + 1 clocks.  The 16-bit OCR1A is written as two bytes.            *)
(*                                                                         *)
(* The arguments are uint32_t; the model calls Timer_Init repeatedly with  *)
(* inputs from the sets below, chosen around every boundary of the code.   *)
(* Only Timer 1 is followed: Timers 0 and 2 are merely stopped.            *)
(***************************************************************************)
EXTENDS Naturals

CONSTANTS
  McuHz,   \* the CPU clock rates tried
  RtcHz,   \* the tick rates tried
  NULL     \* the null callback pointer

(* The rates are unsigned (uint32_t).                                      *)
ASSUME McuHzAssumption == McuHz \subseteq Nat

ASSUME RtcHzAssumption == RtcHz \subseteq Nat

VARIABLES
  ocr1ah, ocr1al,      \* OCR1A, high and low byte
  timer1_running,      \* TCCR1B clock select is /1 (0b01001) rather than off
  ocie1a,              \* TIMSK1 compare-match A interrupt enable
  rtc_timestamp,
  rtc_usercallback,
  requested            \* ghost: the arguments of the last call

vars == <<ocr1ah, ocr1al, timer1_running, ocie1a, rtc_timestamp,
          rtc_usercallback, requested>>

OCRMax == 65535   \* 0xffff, the ceiling of the 16-bit compare register

(* The ceiling Timer_Init computes: the clocks per tick less one, clamped *)
(* to 16 bits; no decrement below zero.                                    *)
ClocksPerTick_NoClamp(mcu_hz, rtc_hz) ==
  LET cpt == mcu_hz \div rtc_hz
  IN  IF 0 < cpt THEN cpt - 1 ELSE cpt

ClocksPerTick(mcu_hz, rtc_hz) ==
  LET cpt  == mcu_hz \div rtc_hz
      dec  == IF 0 < cpt THEN cpt - 1 ELSE cpt
  IN  IF OCRMax < dec THEN OCRMax ELSE dec

(* The bytes written to OCR1AH and OCR1AL: (x >> 8) & 0xff and x & 0xff.  *)
HighByte(x) == (x \div 256) % 256
LowByte(x) == x % 256

(* Power-on state: registers and globals are zero, the callback NULL.     *)
Init ==
  /\ ocr1ah = 0
  /\ ocr1al = 0
  /\ timer1_running = FALSE
  /\ ocie1a = FALSE
  /\ rtc_timestamp = 0
  /\ rtc_usercallback = NULL
  /\ requested = <<0, 0>>

(* Timer_Init: the interrupt is masked, the timer stopped (CTC mode,      *)
(* TCCR1B = 0b01000), the timestamp and callback cleared; a nonzero rate  *)
(* loads OCR1A high byte first, clears TCNT1, starts the timer and        *)
(* unmasks the interrupt.  A zero rate leaves OCR1A as it was.            *)
Timer_Init(mcu_hz, rtc_hz) ==
  /\ rtc_timestamp' = 0
  /\ rtc_usercallback' = NULL
  /\ requested' = <<mcu_hz, rtc_hz>>
  /\ IF 0 < rtc_hz
     THEN LET cpt == ClocksPerTick(mcu_hz, rtc_hz)
          IN  /\ ocr1ah' = HighByte(cpt)
              /\ ocr1al' = LowByte(cpt)
              /\ timer1_running' = TRUE
              /\ ocie1a' = TRUE
     ELSE /\ timer1_running' = FALSE
          /\ ocie1a' = FALSE
          /\ UNCHANGED <<ocr1ah, ocr1al>>

Next == \E m \in McuHz, r \in RtcHz : Timer_Init(m, r)

Spec == Init /\ [][Next]_vars

-----------------------------------------------------------------------------
(* Every register holds a byte and the flags are Boolean.                 *)
TypeOK ==
  /\ ocr1ah \in 0..255
  /\ ocr1al \in 0..255
  /\ timer1_running \in BOOLEAN
  /\ ocie1a \in BOOLEAN
  /\ rtc_usercallback = NULL

(* Reference: a /1 CTC timer with ceiling k ticks every k + 1 clocks.  The *)
(* ceilings that tick at least as often as asked are those with            *)
(* (k + 1) * rtc_hz <= mcu_hz; they form an initial segment of 0..OCRMax.  *)
(* The intended ceiling is the largest of them (the rate closest to the    *)
(* request from above), or 0, the fastest rate, when none fits.            *)
Fits(k, mcu_hz, rtc_hz) == (k + 1) * rtc_hz <= mcu_hz

BestCeiling(mcu_hz, rtc_hz) ==
  IF Fits(0, mcu_hz, rtc_hz)
  THEN CHOOSE k \in 0..OCRMax :
         Fits(k, mcu_hz, rtc_hz) /\ (k = OCRMax \/ ~Fits(k + 1, mcu_hz, rtc_hz))
  ELSE 0

(* spec.md 4.2 init: the compare register, read back as 16 bits, holds    *)
(* the ceiling that makes Timer 1 tick at the requested rate as closely   *)
(* as the /1 prescaler allows, and the interrupt is on exactly for a     *)
(* nonzero rate.                                                          *)
TickPeriodCorrect ==
  /\ ocie1a = timer1_running
  /\ ocie1a <=> requested[2] > 0
  /\ ocie1a => ocr1ah * 256 + ocr1al = BestCeiling(requested[1], requested[2])

=============================================================================
