--------------------------- MODULE TimerInitProofs ---------------------------
(***************************************************************************)
(* Proofs about Timer_Init (module TimerInit) for all rates: the divisor   *)
(* arithmetic of timer.cpp lines 66-73 and the byte split of lines 80-83   *)
(* load the ceiling closest to the requested tick rate.                    *)
(***************************************************************************)
EXTENDS TimerInit, TLAPS

(* Division by a positive rate: k + 1 ticks of rtc_hz fit in mcu_hz        *)
(* exactly when k + 1 is at most the quotient the code computes.           *)
LEMMA FitsQuotient ==
  ASSUME NEW m \in Nat, NEW r \in Nat \ {0}, NEW k \in Nat
  PROVE  Fits(k, m, r) <=> k + 1 <= m \div r
<1>1. m \div r \in Nat /\ m % r \in 0..r - 1 /\ m = (m \div r) * r + (m % r)
  OBVIOUS
<1>2. ASSUME k + 1 <= m \div r PROVE (k + 1) * r <= m
  <2>1. (k + 1) * r <= (m \div r) * r
    BY <1>1, <1>2
  <2> QED
    BY <1>1, <2>1
<1>3. ASSUME (k + 1) * r <= m PROVE k + 1 <= m \div r
  <2> SUFFICES ASSUME m \div r < k + 1 PROVE FALSE
    OBVIOUS
  <2>1. (m \div r + 1) * r <= (k + 1) * r
    BY <1>1
  <2> QED
    BY <1>1, <1>3, <2>1
<1> QED
  BY <1>2, <1>3 DEF Fits

(* The ceiling as a function of the quotient q = mcu_hz / rtc_hz.         *)
Clamp(q) == IF OCRMax < q - 1 THEN OCRMax ELSE IF 0 < q THEN q - 1 ELSE 0

LEMMA ClocksPerTickClamp ==
  ASSUME NEW m \in Nat, NEW r \in Nat \ {0}
  PROVE  ClocksPerTick(m, r) = Clamp(m \div r)
<1>1. m \div r \in Nat
  OBVIOUS
<1> QED
  BY <1>1 DEF ClocksPerTick, Clamp, OCRMax

(* Writing a 16-bit value as its high and low bytes loses nothing.        *)
LEMMA BytesRecombine ==
  ASSUME NEW x \in Nat, x <= OCRMax
  PROVE  /\ HighByte(x) \in 0..255 /\ LowByte(x) \in 0..255
         /\ HighByte(x) * 256 + LowByte(x) = x
<1>1. x \div 256 \in 0..255 /\ x % 256 \in 0..255
  BY SMTT(30) DEF OCRMax
<1>2. (x \div 256) % 256 = x \div 256
  BY <1>1, SMTT(30)
<1>3. (x \div 256) * 256 + (x % 256) = x
  BY SMTT(30) DEF OCRMax
<1> QED
  BY <1>1, <1>2, <1>3 DEF HighByte, LowByte

(* For a quotient of at least one, Clamp(q) is the one ceiling k with    *)
(* k + 1 <= q that is either the register's maximum or the last such k.    *)
LEMMA OCRMaxNat == OCRMax \in Nat \ {0}
BY DEF OCRMax

LEMMA ClampFits ==
  ASSUME NEW q \in Nat, 1 <= q
  PROVE  /\ Clamp(q) \in 0..OCRMax
         /\ Clamp(q) + 1 <= q
         /\ Clamp(q) = OCRMax \/ q < Clamp(q) + 2
BY OCRMaxNat DEF Clamp

LEMMA ClampUnique ==
  ASSUME NEW q \in Nat, NEW k \in 0..OCRMax,
         k + 1 <= q, k = OCRMax \/ q < k + 2
  PROVE  k = Clamp(q)
BY OCRMaxNat DEF Clamp

(* Timer_Init's ceiling is the reference one: the largest ceiling that     *)
(* ticks at least as often as asked, or 0 when none does.                  *)
LEMMA ClocksPerTickBest ==
  ASSUME NEW m \in Nat, NEW r \in Nat \ {0}
  PROVE  ClocksPerTick(m, r) = BestCeiling(m, r)
<1> DEFINE P(k) == Fits(k, m, r) /\ (k = OCRMax \/ ~Fits(k + 1, m, r))
<1>1. PICK q \in Nat : q = m \div r
  OBVIOUS
<1>2. ClocksPerTick(m, r) = Clamp(q)
  BY <1>1, ClocksPerTickClamp
<1>3. ASSUME NEW k \in Nat PROVE Fits(k, m, r) <=> k + 1 <= q
  BY <1>1, FitsQuotient
<1>4. CASE Fits(0, m, r)
  <2>1. 1 <= q
    BY <1>3, <1>4
  <2>2. Clamp(q) \in 0..OCRMax /\ Clamp(q) + 1 <= q
        /\ (Clamp(q) = OCRMax \/ q < Clamp(q) + 2)
    BY <2>1, ClampFits
  <2>3. P(Clamp(q))
    <3>1. Fits(Clamp(q), m, r)
      BY <1>3, <2>2
    <3>2. Clamp(q) = OCRMax \/ ~Fits(Clamp(q) + 1, m, r)
      BY <1>3, <2>2
    <3> QED
      BY <3>1, <3>2
  <2>4. ASSUME NEW k \in 0..OCRMax, P(k) PROVE k = Clamp(q)
    <3>1. k + 1 <= q
      BY <1>3, <2>4
    <3>2. k = OCRMax \/ q < k + 2
      BY <1>3, <2>4
    <3> QED
      BY <3>1, <3>2, ClampUnique
  <2>5. (CHOOSE k \in 0..OCRMax : P(k)) = Clamp(q)
    BY <2>2, <2>3, <2>4
  <2> QED
    BY <1>2, <1>4, <2>5 DEF BestCeiling
<1>5. CASE ~Fits(0, m, r)
  <2>1. q = 0
    BY <1>3, <1>5
  <2> QED
    BY <1>2, <1>5, <2>1 DEF BestCeiling, Clamp, OCRMax
<1> QED
  BY <1>4, <1>5

LEMMA ClampRange ==
  ASSUME NEW q \in Nat
  PROVE  Clamp(q) \in Nat /\ Clamp(q) <= OCRMax
BY OCRMaxNat DEF Clamp

(* The inductive invariant: the types, the arguments of the last call     *)
(* among the rates tried, and the property itself.                         *)
TimerInv ==
  /\ TypeOK
  /\ requested \in {<<0, 0>>} \cup (McuHz \X RtcHz)
  /\ TickPeriodCorrect

LEMMA InitTimerInv == Init => TimerInv
<1> SUFFICES ASSUME Init PROVE TimerInv
  OBVIOUS
<1>1. TypeOK
  <2>1. ocr1ah \in 0..255 /\ ocr1al \in 0..255
    BY DEF Init
  <2>2. timer1_running \in BOOLEAN /\ ocie1a \in BOOLEAN /\ rtc_usercallback = NULL
    BY DEF Init
  <2> QED
    BY <2>1, <2>2 DEF TypeOK
<1>2. requested \in {<<0, 0>>} \cup (McuHz \X RtcHz)
  BY DEF Init
<1>3. TickPeriodCorrect
  <2>1. ocie1a = FALSE /\ timer1_running = FALSE /\ requested = <<0, 0>>
    BY DEF Init
  <2>2. requested[2] = 0
    BY <2>1
  <2>3. ~(requested[2] > 0)
    BY <2>2
  <2> QED
    BY <2>1, <2>3, Zenon DEF TickPeriodCorrect
<1> QED
  BY <1>1, <1>2, <1>3 DEF TimerInv

(* One call of Timer_Init establishes the invariant, whatever came before. *)
LEMMA TimerInitStep ==
  ASSUME TimerInv, NEW m \in McuHz, NEW r \in RtcHz, Timer_Init(m, r)
  PROVE  TimerInv'
<1>1. m \in Nat /\ r \in Nat
  BY McuHzAssumption, RtcHzAssumption
<1>2. requested' = <<m, r>> /\ requested' \in {<<0, 0>>} \cup (McuHz \X RtcHz)
  BY DEF Timer_Init
<1>3. rtc_usercallback' = NULL
  BY DEF Timer_Init
<1>4. CASE 0 < r
  <2>0. PICK q \in Nat : q = m \div r
    BY <1>1, <1>4
  <2>1. PICK c \in Nat : c = ClocksPerTick(m, r)
    <3>1. ClocksPerTick(m, r) = Clamp(q)
      BY <1>1, <1>4, <2>0, ClocksPerTickClamp
    <3>2. Clamp(q) \in Nat
      BY ClampRange
    <3> QED
      BY <3>1, <3>2
  <2>2. c <= OCRMax /\ c = BestCeiling(m, r)
    <3>1. c = Clamp(q)
      BY <1>1, <1>4, <2>0, <2>1, ClocksPerTickClamp
    <3>2. c <= OCRMax
      BY <3>1, ClampRange
    <3>3. c = BestCeiling(m, r)
      BY <1>1, <1>4, <2>1, ClocksPerTickBest
    <3> QED
      BY <3>2, <3>3
  <2>3. /\ HighByte(c) \in 0..255 /\ LowByte(c) \in 0..255
        /\ HighByte(c) * 256 + LowByte(c) = c
    BY <2>1, <2>2, BytesRecombine
  <2>4. /\ ocr1ah' = HighByte(c) /\ ocr1al' = LowByte(c)
        /\ timer1_running' = TRUE /\ ocie1a' = TRUE
    BY <1>4, <2>1 DEF Timer_Init
  <2> QED
    BY <1>2, <1>3, <1>4, <2>2, <2>3, <2>4 DEF TimerInv, TypeOK, TickPeriodCorrect
<1>5. CASE ~(0 < r)
  <2>1. /\ timer1_running' = FALSE /\ ocie1a' = FALSE
        /\ ocr1ah' = ocr1ah /\ ocr1al' = ocr1al
    BY <1>5 DEF Timer_Init
  <2> QED
    BY <1>1, <1>2, <1>3, <1>5, <2>1 DEF TimerInv, TypeOK, TickPeriodCorrect
<1> QED
  BY <1>4, <1>5

(* spec.md 4.2: after any sequence of Timer_Init calls, Timer 1 runs and  *)
(* interrupts exactly when the last call asked for a nonzero rate, and     *)
(* OCR1A then holds the ceiling that ticks as close to the requested rate  *)
(* as a /1 prescaler allows, for every pair of unsigned rates.             *)
THEOREM TickPeriodCorrectInvariant == Spec => []TickPeriodCorrect
<1>1. TimerInv /\ [Next]_vars => TimerInv'
  <2> SUFFICES ASSUME TimerInv, [Next]_vars PROVE TimerInv'
    OBVIOUS
  <2>1. CASE Next
    <3>1. PICK m \in McuHz, r \in RtcHz : Timer_Init(m, r)
      BY <2>1 DEF Next
    <3> QED
      BY <3>1, TimerInitStep
  <2>2. CASE UNCHANGED vars
    <3>1. UNCHANGED <<ocr1ah, ocr1al, timer1_running, ocie1a, rtc_usercallback,
                      requested>>
      BY <2>2 DEF vars
    <3> QED
      BY <3>1 DEF TimerInv, TypeOK, TickPeriodCorrect
  <2> QED
    BY <2>1, <2>2
<1>2. TimerInv => TickPeriodCorrect
  BY DEF TimerInv
<1> QED
  BY <1>1, <1>2, InitTimerInv, PTL DEF Spec

====
