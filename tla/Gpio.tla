-------------------------------- MODULE Gpio --------------------------------
(***************************************************************************)
(* The 8-bit digital I/O bank of the ATmega328P (m328p gpio.cpp).  IO8     *)
(* bits 0..2 are port D pins 5..7 and bits 3..7 are port B pins 0..4; the  *)
(* other pins of both ports are not GPIOs and must stay high-Z inputs.     *)
(* The driver keeps shadow copies of the direction masks and of the port   *)
(* bytes, which hold output levels for outputs and pull-ups for inputs.    *)
(*                                                                         *)
(* A byte is the set of its bit positions, so & is \cap, | is \cup, ~ is   *)
(* the complement in 0..7 and a shift moves every position, dropping the   *)
(* ones that leave the byte.  Calls are main-loop only and single steps.   *)
(***************************************************************************)
EXTENDS Naturals

CONSTANT Masks   \* the argument bytes tried, as sets of bit positions

(* Every argument is a uint8_t.                                            *)
ASSUME MasksAssumption == Masks \subseteq SUBSET (0..7)

VARIABLES
  dirmask_portd, dirmask_portb,  \* shadow direction masks
  data_d, data_b,                \* shadow port bytes
  lastval_8,                     \* the last IO8_WriteData argument
  DDRD, DDRB, PORTD, PORTB,      \* the registers
  pullup_req,                    \* ghost: the last IO8_SetPullups argument
  outputs_stale,                 \* ghost: directions changed since the last write
  pullups_stale                  \* ghost: directions changed since the last pull-up call

vars == <<dirmask_portd, dirmask_portb, data_d, data_b, lastval_8,
          DDRD, DDRB, PORTD, PORTB, pullup_req, outputs_stale, pullups_stale>>

Bits == 0..7
Byte == SUBSET Bits

Not(x) == Bits \ x
Shl(x, n) == {b + n : b \in x} \cap Bits
Shr(x, n) == {b - n : b \in {c \in x : c >= n}}

GPMASK_PORTD == {5, 6, 7}         \* 0xe0
GPMASK_PORTB == {0, 1, 2, 3, 4}   \* 0x1f
Low3 == {0, 1, 2}                 \* 0x07
High5 == {3, 4, 5, 6, 7}          \* 0xf8

(* The port D and port B halves of an IO8 byte: (x & 0x07) << 5 and       *)
(* (x & 0xf8) >> 3.                                                        *)
PartD(x) == Shl(x \cap Low3, 5)
PartB(x) == Shr(x \cap High5, 3)

(* MCU_Init: every pin a high-Z input; the shadows start at zero.          *)
Init ==
  /\ dirmask_portd = {} /\ dirmask_portb = {}
  /\ data_d = {} /\ data_b = {}
  /\ lastval_8 = {}
  /\ DDRD = {} /\ DDRB = {} /\ PORTD = {} /\ PORTB = {}
  /\ pullup_req = {}
  /\ outputs_stale = FALSE
  /\ pullups_stale = FALSE

(* IO8_SelectOutputs: the direction masks, cut to the mapped pins, go to  *)
(* DDRD and DDRB.  The port bytes are left alone.                          *)
IO8_SelectOutputs(output_mask) ==
  LET d == PartD(output_mask) \cap GPMASK_PORTD
      b == PartB(output_mask) \cap GPMASK_PORTB
  IN  /\ dirmask_portd' = d /\ dirmask_portb' = b
      /\ DDRD' = d /\ DDRB' = b
      /\ outputs_stale' = TRUE
      /\ pullups_stale' = TRUE
      /\ UNCHANGED <<data_d, data_b, lastval_8, PORTD, PORTB, pullup_req>>

(* Mutant: the data bits are not cut to the outputs.                       *)
KeepOutputs_All(scratch, dirmask) == scratch

(* "Keep bits that are outputs."                                           *)
KeepOutputs(scratch, dirmask) == scratch \cap dirmask

(* IO8_WriteData: the output bits of the shadows take the new data, the   *)
(* input (pull-up) bits are kept, and both ports are written.              *)
IO8_WriteData(output_data) ==
  LET d == (data_d \cap Not(dirmask_portd))
             \cup KeepOutputs(PartD(output_data), dirmask_portd)
      b == (data_b \cap Not(dirmask_portb))
             \cup KeepOutputs(PartB(output_data), dirmask_portb)
  IN  /\ lastval_8' = output_data
      /\ data_d' = d /\ data_b' = b
      /\ PORTD' = d /\ PORTB' = b
      /\ outputs_stale' = FALSE
      /\ UNCHANGED <<dirmask_portd, dirmask_portb, DDRD, DDRB, pullup_req,
                     pullups_stale>>

(* IO8_GetOutputValue.                                                     *)
IO8_GetOutputValue == lastval_8

(* IO8_SetPullups: the mapped input bits of the shadows take the mask,    *)
(* the output bits are kept, and both ports are written.                   *)
IO8_SetPullups(pullup_mask) ==
  LET d == (data_d \cap dirmask_portd)
             \cup (PartD(pullup_mask) \cap Not(dirmask_portd) \cap GPMASK_PORTD)
      b == (data_b \cap dirmask_portb)
             \cup (PartB(pullup_mask) \cap Not(dirmask_portb) \cap GPMASK_PORTB)
  IN  /\ data_d' = d /\ data_b' = b
      /\ PORTD' = d /\ PORTB' = b
      /\ pullup_req' = pullup_mask
      /\ pullups_stale' = FALSE
      /\ UNCHANGED <<dirmask_portd, dirmask_portb, DDRD, DDRB, lastval_8,
                     outputs_stale>>

(* IO8_ReadData for pin levels pind and pinb: the mapped input bits,      *)
(* moved back to IO8 positions.                                            *)
IO8_ReadData(pind, pinb) ==
  (Shr(pind \cap Not(dirmask_portd) \cap GPMASK_PORTD, 5) \cap Low3)
    \cup (Shl(pinb \cap Not(dirmask_portb) \cap GPMASK_PORTB, 3) \cap High5)

Next ==
  \E m \in Masks :
    \/ IO8_SelectOutputs(m)
    \/ IO8_WriteData(m)
    \/ IO8_SetPullups(m)

Spec == Init /\ [][Next]_vars

-----------------------------------------------------------------------------
(* The register bit that drives IO8 bit k: its place in the port bytes.    *)
PortBit(k) == IF k \in Low3 THEN k + 5 \in PORTD ELSE k - 3 \in PORTB
IsOutput(k) == IF k \in Low3 THEN k + 5 \in DDRD ELSE k - 3 \in DDRB

(* Every register holds a byte.                                            *)
TypeOK ==
  /\ {dirmask_portd, dirmask_portb, data_d, data_b, lastval_8,
      DDRD, DDRB, PORTD, PORTB, pullup_req} \subseteq Byte
  /\ {outputs_stale, pullups_stale} \subseteq BOOLEAN

(* The header's contract: once IO8_WriteData has followed the last         *)
(* IO8_SelectOutputs, every output drives its bit of the written value;    *)
(* once IO8_SetPullups has, every input has exactly the pull-up asked     *)
(* for; and the other call never disturbs either.  Read back with each    *)
(* pin at its port level, IO8_ReadData returns exactly the inputs pulled   *)
(* up, so the read mapping inverts the write mapping.  And, as the driver *)
(* wants, no pin outside the GPIO masks is ever an output or pulled up.    *)
PortsFollowLastCalls ==
  /\ DDRD \cup PORTD \subseteq GPMASK_PORTD
  /\ DDRB \cup PORTB \subseteq GPMASK_PORTB
  /\ ~outputs_stale =>
       \A k \in Bits : IsOutput(k) => (PortBit(k) <=> k \in lastval_8)
  /\ ~pullups_stale =>
       \A k \in Bits : ~IsOutput(k) => (PortBit(k) <=> k \in pullup_req)
  /\ IO8_ReadData(PORTD, PORTB) = {k \in Bits : ~IsOutput(k) /\ PortBit(k)}

(* The header: IO8_GetOutputValue returns the last written value so that  *)
(* the caller can set or clear bits without disturbing the others.  After *)
(* IO8_SelectOutputs and the IO8_SetPullups the header prescribes next,   *)
(* every output drives the bit IO8_GetOutputValue reports.                 *)
OutputsMatchLastValue ==
  ~pullups_stale =>
    \A k \in Bits : IsOutput(k) => (PortBit(k) <=> k \in IO8_GetOutputValue)

-----------------------------------------------------------------------------
(* The bank the header presents, seen through the pin map: an IO8 line is *)
(* an output when its DDR bit is set, and its level or pull-up is its     *)
(* PORT bit.                                                               *)
Io8Dir == {k \in Bits : IsOutput(k)}
Io8Level == {k \in Bits : PortBit(k)}

Bank == INSTANCE Io8Bank WITH dir <- Io8Dir, level <- Io8Level, last <- lastval_8

(* The two-port driver implements the 8-bit bank of the header: every     *)
(* IO8_SelectOutputs, IO8_WriteData and IO8_SetPullups changes the lines   *)
(* exactly as the same call on one 8-bit register would, whatever the     *)
(* bits and whichever call came before.                                   *)
Io8Refinement == Bank!Spec

=============================================================================
