------------------------------ MODULE GpioProofs ------------------------------
(***************************************************************************)
(* Proofs about the 8-bit GPIO bank (module Gpio) for every set of         *)
(* argument bytes.  The header's contract PortsFollowLastCalls is stated   *)
(* per IO8 bit; the proof works per port pin, where each call is a plain   *)
(* set update, and translates back through the pin map.                    *)
(***************************************************************************)
EXTENDS Gpio, TLAPS

(* The contract per port: pins outside the GPIO masks are never outputs   *)
(* or pulled up; outputs hold the last written data unless the directions *)
(* changed since; inputs hold the last pull-up request unless they did.    *)
PortContract(ddr, port, gpmask, Part(_)) ==
  /\ ddr \subseteq gpmask /\ port \subseteq gpmask
  /\ ~outputs_stale => \A p \in ddr : p \in port <=> p \in Part(lastval_8)
  /\ ~pullups_stale =>
       \A p \in gpmask \ ddr : p \in port <=> p \in Part(pullup_req)

(* The inductive invariant: the shadows equal the registers they were     *)
(* last written to, and the contract holds on both ports.                  *)
GpioInv ==
  /\ TypeOK
  /\ DDRD = dirmask_portd /\ DDRB = dirmask_portb
  /\ PORTD = data_d /\ PORTB = data_b
  /\ PortContract(DDRD, PORTD, GPMASK_PORTD, PartD)
  /\ PortContract(DDRB, PORTB, GPMASK_PORTB, PartB)

(***************************************************************************)
(* The pin map.                                                            *)
(***************************************************************************)

(* Pin p of port D carries IO8 bit p - 5, for the pins 5..7.               *)
LEMMA PartDMem ==
  ASSUME NEW x \in SUBSET Bits, NEW p
  PROVE  p \in PartD(x) <=> p \in GPMASK_PORTD /\ p - 5 \in x
BY DEF PartD, Shl, Low3, Bits, GPMASK_PORTD

(* Pin p of port B carries IO8 bit p + 3, for the pins 0..4.               *)
LEMMA PartBMem ==
  ASSUME NEW x \in SUBSET Bits, NEW p
  PROVE  p \in PartB(x) <=> p \in GPMASK_PORTB /\ p + 3 \in x
BY DEF PartB, Shr, High5, Bits, GPMASK_PORTB

LEMMA MasksInBits ==
  /\ GPMASK_PORTD \subseteq Bits /\ GPMASK_PORTB \subseteq Bits
  /\ \A x \in SUBSET Bits : PartD(x) \subseteq GPMASK_PORTD
  /\ \A x \in SUBSET Bits : PartB(x) \subseteq GPMASK_PORTB
<1>1. GPMASK_PORTD \subseteq Bits /\ GPMASK_PORTB \subseteq Bits
  BY DEF GPMASK_PORTD, GPMASK_PORTB, Bits
<1>2. \A x \in SUBSET Bits : PartD(x) \subseteq GPMASK_PORTD
  BY PartDMem
<1>3. \A x \in SUBSET Bits : PartB(x) \subseteq GPMASK_PORTB
  BY PartBMem
<1> QED
  BY <1>1, <1>2, <1>3

(***************************************************************************)
(* The inductive invariant.                                                *)
(***************************************************************************)

(* After MCU_Init no pin is an output or pulled up, and none is asked to  *)
(* be.                                                                     *)
LEMMA InitGpioInv == Init => GpioInv
<1> SUFFICES ASSUME Init PROVE GpioInv
  OBVIOUS
<1>1. TypeOK
  BY DEF Init, TypeOK, Byte
<1>2. PartD({}) = {} /\ PartB({}) = {}
  BY PartDMem, PartBMem
<1> QED
  BY <1>1, <1>2 DEF Init, GpioInv, PortContract

(* IO8_SelectOutputs keeps the directions inside the GPIO masks and marks *)
(* both halves of the contract as owed.                                    *)
LEMMA SelectOutputsStep ==
  ASSUME GpioInv, NEW m \in Masks, IO8_SelectOutputs(m)
  PROVE  GpioInv'
<1>1. TypeOK'
  BY MasksInBits DEF GpioInv, TypeOK, IO8_SelectOutputs, Byte
<1>2. DDRD' \subseteq GPMASK_PORTD /\ DDRB' \subseteq GPMASK_PORTB
  BY DEF IO8_SelectOutputs
<1>3. outputs_stale' = TRUE /\ pullups_stale' = TRUE
  BY DEF IO8_SelectOutputs
<1> QED
  BY <1>1, <1>2, <1>3 DEF GpioInv, PortContract, IO8_SelectOutputs

(* What IO8_WriteData writes to each port: the outputs take the new data *)
(* and the GPIO inputs keep their bits.                                    *)
LEMMA WriteDataPorts ==
  ASSUME GpioInv, NEW m \in Masks, IO8_WriteData(m)
  PROVE  /\ PORTD' \subseteq GPMASK_PORTD
         /\ \A p \in DDRD : p \in PORTD' <=> p \in PartD(m)
         /\ \A p \in GPMASK_PORTD \ DDRD : p \in PORTD' <=> p \in PORTD
         /\ PORTB' \subseteq GPMASK_PORTB
         /\ \A p \in DDRB : p \in PORTB' <=> p \in PartB(m)
         /\ \A p \in GPMASK_PORTB \ DDRB : p \in PORTB' <=> p \in PORTB
<1> m \subseteq Bits
  BY MasksAssumption DEF Bits
<1>1. PartD(m) \subseteq GPMASK_PORTD /\ PartB(m) \subseteq GPMASK_PORTB
  BY MasksInBits
<1>2. /\ PORTD' \subseteq GPMASK_PORTD
      /\ \A p \in DDRD : p \in PORTD' <=> p \in PartD(m)
      /\ \A p \in GPMASK_PORTD \ DDRD : p \in PORTD' <=> p \in PORTD
  <2>1. PORTD' = (data_d \cap Not(dirmask_portd)) \cup (PartD(m) \cap dirmask_portd)
    BY DEF IO8_WriteData, KeepOutputs
  <2>2. /\ data_d \subseteq GPMASK_PORTD /\ dirmask_portd \subseteq GPMASK_PORTD
        /\ DDRD = dirmask_portd /\ PORTD = data_d
    BY DEF GpioInv, PortContract
  <2>3. GPMASK_PORTD \subseteq Bits
    BY MasksInBits
  <2> QED
    BY <2>1, <2>2, <2>3, <1>1 DEF Not
<1>3. /\ PORTB' \subseteq GPMASK_PORTB
      /\ \A p \in DDRB : p \in PORTB' <=> p \in PartB(m)
      /\ \A p \in GPMASK_PORTB \ DDRB : p \in PORTB' <=> p \in PORTB
  <2>1. PORTB' = (data_b \cap Not(dirmask_portb)) \cup (PartB(m) \cap dirmask_portb)
    BY DEF IO8_WriteData, KeepOutputs
  <2>2. /\ data_b \subseteq GPMASK_PORTB /\ dirmask_portb \subseteq GPMASK_PORTB
        /\ DDRB = dirmask_portb /\ PORTB = data_b
    BY DEF GpioInv, PortContract
  <2>3. GPMASK_PORTB \subseteq Bits
    BY MasksInBits
  <2> QED
    BY <2>1, <2>2, <2>3, <1>1 DEF Not
<1> QED
  BY <1>2, <1>3

(* IO8_WriteData: the outputs take the new data and the inputs keep their *)
(* pull-ups.                                                               *)
LEMMA WriteDataStep ==
  ASSUME GpioInv, NEW m \in Masks, IO8_WriteData(m)
  PROVE  GpioInv'
<1> m \subseteq Bits
  BY MasksAssumption DEF Bits
<1>1. PartD(m) \subseteq GPMASK_PORTD /\ PartB(m) \subseteq GPMASK_PORTB
  BY MasksInBits
<1>2. /\ PORTD' \subseteq GPMASK_PORTD
      /\ \A p \in DDRD : p \in PORTD' <=> p \in PartD(m)
      /\ \A p \in GPMASK_PORTD \ DDRD : p \in PORTD' <=> p \in PORTD
  BY WriteDataPorts
<1>3. /\ PORTB' \subseteq GPMASK_PORTB
      /\ \A p \in DDRB : p \in PORTB' <=> p \in PartB(m)
      /\ \A p \in GPMASK_PORTB \ DDRB : p \in PORTB' <=> p \in PORTB
  BY WriteDataPorts
<1>4. /\ lastval_8' = m /\ outputs_stale' = FALSE
      /\ UNCHANGED <<DDRD, DDRB, dirmask_portd, dirmask_portb, pullup_req,
                     pullups_stale>>
      /\ data_d' = PORTD' /\ data_b' = PORTB'
  BY DEF IO8_WriteData
<1>5. TypeOK'
  <2>1. /\ {dirmask_portd, dirmask_portb, data_d, data_b, lastval_8,
            DDRD, DDRB, pullup_req} \subseteq Byte
        /\ outputs_stale \in BOOLEAN /\ pullups_stale \in BOOLEAN
    BY DEF GpioInv, TypeOK
  <2>2. PORTD' \subseteq Bits /\ PORTB' \subseteq Bits /\ m \subseteq Bits
    BY <1>2, <1>3, MasksInBits
  <2>3. {dirmask_portd, dirmask_portb, data_d, data_b, lastval_8,
         DDRD, DDRB, PORTD, PORTB, pullup_req}' \subseteq Byte
    BY <1>4, <2>1, <2>2 DEF Byte
  <2>4. {outputs_stale, pullups_stale}' \subseteq BOOLEAN
    BY <1>4, <2>1
  <2> QED
    BY <2>3, <2>4 DEF TypeOK
<1> QED
  BY <1>2, <1>3, <1>4, <1>5 DEF GpioInv, PortContract

(* What IO8_SetPullups writes to each port: the GPIO inputs take the new *)
(* pull-ups and the outputs keep their levels.                             *)
LEMMA SetPullupsPorts ==
  ASSUME GpioInv, NEW m \in Masks, IO8_SetPullups(m)
  PROVE  /\ PORTD' \subseteq GPMASK_PORTD
         /\ \A p \in DDRD : p \in PORTD' <=> p \in PORTD
         /\ \A p \in GPMASK_PORTD \ DDRD : p \in PORTD' <=> p \in PartD(m)
         /\ PORTB' \subseteq GPMASK_PORTB
         /\ \A p \in DDRB : p \in PORTB' <=> p \in PORTB
         /\ \A p \in GPMASK_PORTB \ DDRB : p \in PORTB' <=> p \in PartB(m)
<1> m \subseteq Bits
  BY MasksAssumption DEF Bits
<1>1. PartD(m) \subseteq GPMASK_PORTD /\ PartB(m) \subseteq GPMASK_PORTB
  BY MasksInBits
<1>2. /\ PORTD' \subseteq GPMASK_PORTD
      /\ \A p \in DDRD : p \in PORTD' <=> p \in PORTD
      /\ \A p \in GPMASK_PORTD \ DDRD : p \in PORTD' <=> p \in PartD(m)
  <2>1. PORTD' = (data_d \cap dirmask_portd)
                   \cup (PartD(m) \cap Not(dirmask_portd) \cap GPMASK_PORTD)
    BY DEF IO8_SetPullups
  <2>2. /\ data_d \subseteq GPMASK_PORTD /\ dirmask_portd \subseteq GPMASK_PORTD
        /\ DDRD = dirmask_portd /\ PORTD = data_d
    BY DEF GpioInv, PortContract
  <2>3. GPMASK_PORTD \subseteq Bits
    BY MasksInBits
  <2> QED
    BY <2>1, <2>2, <2>3, <1>1 DEF Not
<1>3. /\ PORTB' \subseteq GPMASK_PORTB
      /\ \A p \in DDRB : p \in PORTB' <=> p \in PORTB
      /\ \A p \in GPMASK_PORTB \ DDRB : p \in PORTB' <=> p \in PartB(m)
  <2>1. PORTB' = (data_b \cap dirmask_portb)
                   \cup (PartB(m) \cap Not(dirmask_portb) \cap GPMASK_PORTB)
    BY DEF IO8_SetPullups
  <2>2. /\ data_b \subseteq GPMASK_PORTB /\ dirmask_portb \subseteq GPMASK_PORTB
        /\ DDRB = dirmask_portb /\ PORTB = data_b
    BY DEF GpioInv, PortContract
  <2>3. GPMASK_PORTB \subseteq Bits
    BY MasksInBits
  <2> QED
    BY <2>1, <2>2, <2>3, <1>1 DEF Not
<1> QED
  BY <1>2, <1>3

(* IO8_SetPullups: the inputs take the new pull-ups and the outputs keep  *)
(* their levels.                                                           *)
LEMMA SetPullupsStep ==
  ASSUME GpioInv, NEW m \in Masks, IO8_SetPullups(m)
  PROVE  GpioInv'
<1> m \subseteq Bits
  BY MasksAssumption DEF Bits
<1>1. PartD(m) \subseteq GPMASK_PORTD /\ PartB(m) \subseteq GPMASK_PORTB
  BY MasksInBits
<1>2. /\ PORTD' \subseteq GPMASK_PORTD
      /\ \A p \in DDRD : p \in PORTD' <=> p \in PORTD
      /\ \A p \in GPMASK_PORTD \ DDRD : p \in PORTD' <=> p \in PartD(m)
  BY SetPullupsPorts
<1>3. /\ PORTB' \subseteq GPMASK_PORTB
      /\ \A p \in DDRB : p \in PORTB' <=> p \in PORTB
      /\ \A p \in GPMASK_PORTB \ DDRB : p \in PORTB' <=> p \in PartB(m)
  BY SetPullupsPorts
<1>4. /\ pullup_req' = m /\ pullups_stale' = FALSE
      /\ UNCHANGED <<DDRD, DDRB, dirmask_portd, dirmask_portb, lastval_8,
                     outputs_stale>>
      /\ data_d' = PORTD' /\ data_b' = PORTB'
  BY DEF IO8_SetPullups
<1>5. TypeOK'
  <2>1. /\ {dirmask_portd, dirmask_portb, data_d, data_b, lastval_8,
            DDRD, DDRB, pullup_req} \subseteq Byte
        /\ outputs_stale \in BOOLEAN /\ pullups_stale \in BOOLEAN
    BY DEF GpioInv, TypeOK
  <2>2. PORTD' \subseteq Bits /\ PORTB' \subseteq Bits /\ m \subseteq Bits
    BY <1>2, <1>3, MasksInBits
  <2>3. {dirmask_portd, dirmask_portb, data_d, data_b, lastval_8,
         DDRD, DDRB, PORTD, PORTB, pullup_req}' \subseteq Byte
    BY <1>4, <2>1, <2>2 DEF Byte
  <2>4. {outputs_stale, pullups_stale}' \subseteq BOOLEAN
    BY <1>4, <2>1
  <2> QED
    BY <2>3, <2>4 DEF TypeOK
<1> QED
  BY <1>2, <1>3, <1>4, <1>5 DEF GpioInv, PortContract

(* Every step keeps the invariant.                                         *)
LEMMA GpioInvStep == GpioInv /\ [Next]_vars => GpioInv'
<1> SUFFICES ASSUME GpioInv, [Next]_vars PROVE GpioInv'
  OBVIOUS
<1>1. CASE Next
  <2> PICK m \in Masks : \/ IO8_SelectOutputs(m)
                         \/ IO8_WriteData(m)
                         \/ IO8_SetPullups(m)
    BY <1>1 DEF Next
  <2> QED
    BY SelectOutputsStep, WriteDataStep, SetPullupsStep
<1>2. CASE UNCHANGED vars
  BY <1>2 DEF vars, GpioInv, TypeOK, PortContract
<1> QED
  BY <1>1, <1>2

(***************************************************************************)
(* Back from pins to IO8 bits.                                             *)
(***************************************************************************)

(* IO8_ReadData undoes the pin map: with each pin at its port level it    *)
(* returns the IO8 bits whose pins are inputs and high.                    *)
LEMMA ReadDataPins ==
  ASSUME PORTD \subseteq GPMASK_PORTD, PORTB \subseteq GPMASK_PORTB,
         DDRD = dirmask_portd, DDRB = dirmask_portb
  PROVE  IO8_ReadData(PORTD, PORTB) = {k \in Bits : ~IsOutput(k) /\ PortBit(k)}
BY DEF IO8_ReadData, IsOutput, PortBit, Shr, Shl, Not, Low3, High5, Bits,
       GPMASK_PORTD, GPMASK_PORTB

(* The invariant gives the header's contract, bit by bit.                  *)
(* IO8 bits 0..2 are pins 5..7 of port D, and PartD puts them there.    *)
LEMMA PinD ==
  ASSUME NEW k \in Low3
  PROVE  /\ k + 5 \in GPMASK_PORTD
         /\ \A x \in SUBSET Bits : k + 5 \in PartD(x) <=> k \in x
<1>1. k + 5 \in GPMASK_PORTD /\ k + 5 - 5 = k
  BY DEF Low3, Bits, GPMASK_PORTD
<1>2. ASSUME NEW x \in SUBSET Bits PROVE k + 5 \in PartD(x) <=> k \in x
  <2>1. PICK q : q = k + 5
    OBVIOUS
  <2>2. q \in PartD(x) <=> q \in GPMASK_PORTD /\ q - 5 \in x
    BY PartDMem
  <2>3. q \in GPMASK_PORTD /\ q - 5 = k
    BY <2>1 DEF Low3, GPMASK_PORTD
  <2> QED
    BY <2>1, <2>2, <2>3, Zenon
<1> QED
  BY <1>1, <1>2

(* IO8 bits 3..7 are pins 0..4 of port B, and PartB puts them there.    *)
LEMMA PinB ==
  ASSUME NEW k \in Bits \ Low3
  PROVE  /\ k - 3 \in GPMASK_PORTB
         /\ \A x \in SUBSET Bits : k - 3 \in PartB(x) <=> k \in x
<1>1. k - 3 \in GPMASK_PORTB /\ k - 3 + 3 = k
  BY DEF Low3, Bits, GPMASK_PORTB
<1>2. ASSUME NEW x \in SUBSET Bits PROVE k - 3 \in PartB(x) <=> k \in x
  <2>1. PICK q : q = k - 3
    OBVIOUS
  <2>2. q \in PartB(x) <=> q \in GPMASK_PORTB /\ q + 3 \in x
    BY PartBMem
  <2>3. q \in GPMASK_PORTB /\ q + 3 = k
    BY <2>1 DEF Bits, Low3, GPMASK_PORTB
  <2> QED
    BY <2>1, <2>2, <2>3, Zenon
<1> QED
  BY <1>1, <1>2

LEMMA GpioInvContract == GpioInv => PortsFollowLastCalls
<1> SUFFICES ASSUME GpioInv PROVE PortsFollowLastCalls
  OBVIOUS
<1>1. lastval_8 \subseteq Bits /\ pullup_req \subseteq Bits
  BY DEF GpioInv, TypeOK, Byte
<1>2. /\ DDRD \subseteq GPMASK_PORTD /\ PORTD \subseteq GPMASK_PORTD
      /\ DDRB \subseteq GPMASK_PORTB /\ PORTB \subseteq GPMASK_PORTB
  BY DEF GpioInv, PortContract
<1>3. ASSUME NEW k \in Low3
      PROVE  /\ k + 5 \in GPMASK_PORTD
             /\ \A x \in SUBSET Bits : k + 5 \in PartD(x) <=> k \in x
  BY PinD
<1>4. ASSUME NEW k \in Bits \ Low3
      PROVE  /\ k - 3 \in GPMASK_PORTB
             /\ \A x \in SUBSET Bits : k - 3 \in PartB(x) <=> k \in x
  BY PinB
<1>5. ~outputs_stale =>
        \A k \in Bits : IsOutput(k) => (PortBit(k) <=> k \in lastval_8)
  <2> SUFFICES ASSUME ~outputs_stale, NEW k \in Bits, IsOutput(k)
               PROVE  PortBit(k) <=> k \in lastval_8
    OBVIOUS
  <2>1. /\ \A p \in DDRD : p \in PORTD <=> p \in PartD(lastval_8)
        /\ \A p \in DDRB : p \in PORTB <=> p \in PartB(lastval_8)
    BY DEF GpioInv, PortContract
  <2>2. CASE k \in Low3
    BY <2>2, <2>1, <1>1, <1>3 DEF IsOutput, PortBit
  <2>3. CASE k \notin Low3
    BY <2>3, <2>1, <1>1, <1>4 DEF IsOutput, PortBit
  <2> QED
    BY <2>2, <2>3
<1>6. ~pullups_stale =>
        \A k \in Bits : ~IsOutput(k) => (PortBit(k) <=> k \in pullup_req)
  <2> SUFFICES ASSUME ~pullups_stale, NEW k \in Bits, ~IsOutput(k)
               PROVE  PortBit(k) <=> k \in pullup_req
    OBVIOUS
  <2>1. /\ \A p \in GPMASK_PORTD \ DDRD : p \in PORTD <=> p \in PartD(pullup_req)
        /\ \A p \in GPMASK_PORTB \ DDRB : p \in PORTB <=> p \in PartB(pullup_req)
    BY DEF GpioInv, PortContract
  <2>2. CASE k \in Low3
    BY <2>2, <2>1, <1>1, <1>3 DEF IsOutput, PortBit
  <2>3. CASE k \notin Low3
    BY <2>3, <2>1, <1>1, <1>4 DEF IsOutput, PortBit
  <2> QED
    BY <2>2, <2>3
<1>7. IO8_ReadData(PORTD, PORTB) = {k \in Bits : ~IsOutput(k) /\ PortBit(k)}
  BY <1>2, ReadDataPins DEF GpioInv
<1> QED
  BY <1>2, <1>5, <1>6, <1>7 DEF PortsFollowLastCalls

(* The header's contract holds in every state the driver's calls reach,   *)
(* for every set of argument bytes: pins outside the GPIO masks are never *)
(* outputs or pulled up, IO8_WriteData and IO8_SetPullups each set their  *)
(* half without disturbing the other's, and IO8_ReadData reads back the    *)
(* IO8 bits through the inverse of the write mapping.                      *)
THEOREM PortsFollowLastCallsInvariant == Spec => []PortsFollowLastCalls
<1>1. Init => GpioInv
  BY InitGpioInv
<1>2. GpioInv /\ [Next]_vars => GpioInv'
  BY GpioInvStep
<1>3. GpioInv => PortsFollowLastCalls
  BY GpioInvContract
<1> QED
  BY <1>1, <1>2, <1>3, PTL DEF Spec

-----------------------------------------------------------------------------
(* The refinement: each driver call is the same call on the 8-bit bank.    *)

(* IO8_SelectOutputs makes exactly the lines of the mask outputs and       *)
(* leaves every PORT bit alone.                                            *)
LEMMA SelectOutputsRefines ==
  ASSUME GpioInv, NEW m \in Masks, IO8_SelectOutputs(m)
  PROVE  Bank!SelectOutputs(m)
<1> m \in SUBSET Bits
  BY MasksAssumption DEF Bits
<1>1. ASSUME NEW k \in Bits PROVE IsOutput(k)' <=> k \in m
  <2>1. CASE k \in Low3
    <3>1. k + 5 \in GPMASK_PORTD /\ (k + 5 \in PartD(m) <=> k \in m)
      BY <2>1, PinD
    <3> QED
      BY <2>1, <3>1 DEF IsOutput, IO8_SelectOutputs
  <2>2. CASE k \notin Low3
    <3>1. k - 3 \in GPMASK_PORTB /\ (k - 3 \in PartB(m) <=> k \in m)
      BY <2>2, PinB
    <3> QED
      BY <2>2, <3>1 DEF IsOutput, IO8_SelectOutputs
  <2> QED
    BY <2>1, <2>2
<1>2. Io8Dir' = m
  BY <1>1 DEF Io8Dir
<1>3. Io8Level' = Io8Level /\ lastval_8' = lastval_8
  BY DEF Io8Level, PortBit, IO8_SelectOutputs
<1> QED
  BY <1>2, <1>3 DEF Bank!SelectOutputs

(* IO8_WriteData drives the output lines to the value and keeps the        *)
(* pull-ups of the inputs.                                                 *)
LEMMA WriteDataRefines ==
  ASSUME GpioInv, NEW m \in Masks, IO8_WriteData(m)
  PROVE  Bank!WriteData(m)
<1> m \in SUBSET Bits
  BY MasksAssumption DEF Bits
<1>0. /\ \A p \in DDRD : p \in PORTD' <=> p \in PartD(m)
      /\ \A p \in GPMASK_PORTD \ DDRD : p \in PORTD' <=> p \in PORTD
      /\ \A p \in DDRB : p \in PORTB' <=> p \in PartB(m)
      /\ \A p \in GPMASK_PORTB \ DDRB : p \in PORTB' <=> p \in PORTB
  BY WriteDataPorts
<1>1. Io8Dir' = Io8Dir
  BY DEF Io8Dir, IsOutput, IO8_WriteData
<1>2. ASSUME NEW k \in Bits
      PROVE  PortBit(k)' <=> IF IsOutput(k) THEN k \in m ELSE PortBit(k)
  <2>1. CASE k \in Low3
    <3>1. k + 5 \in GPMASK_PORTD /\ (k + 5 \in PartD(m) <=> k \in m)
      BY <2>1, PinD
    <3> QED
      BY <1>0, <2>1, <3>1 DEF PortBit, IsOutput
  <2>2. CASE k \notin Low3
    <3>1. k - 3 \in GPMASK_PORTB /\ (k - 3 \in PartB(m) <=> k \in m)
      BY <2>2, PinB
    <3> QED
      BY <1>0, <2>2, <3>1 DEF PortBit, IsOutput
  <2> QED
    BY <2>1, <2>2
<1>3. Io8Level' = (Io8Level \ Io8Dir) \cup (m \cap Io8Dir)
  BY <1>2 DEF Io8Level, Io8Dir
<1> QED
  BY <1>1, <1>3 DEF Bank!WriteData, IO8_WriteData

(* IO8_SetPullups sets the pull-ups of the input lines to the mask and     *)
(* keeps the levels of the outputs.                                        *)
LEMMA SetPullupsRefines ==
  ASSUME GpioInv, NEW m \in Masks, IO8_SetPullups(m)
  PROVE  Bank!SetPullups(m)
<1> m \in SUBSET Bits
  BY MasksAssumption DEF Bits
<1>0. /\ \A p \in DDRD : p \in PORTD' <=> p \in PORTD
      /\ \A p \in GPMASK_PORTD \ DDRD : p \in PORTD' <=> p \in PartD(m)
      /\ \A p \in DDRB : p \in PORTB' <=> p \in PORTB
      /\ \A p \in GPMASK_PORTB \ DDRB : p \in PORTB' <=> p \in PartB(m)
  BY SetPullupsPorts
<1>1. Io8Dir' = Io8Dir /\ lastval_8' = lastval_8
  BY DEF Io8Dir, IsOutput, IO8_SetPullups
<1>2. ASSUME NEW k \in Bits
      PROVE  PortBit(k)' <=> IF IsOutput(k) THEN PortBit(k) ELSE k \in m
  <2>1. CASE k \in Low3
    <3>1. k + 5 \in GPMASK_PORTD /\ (k + 5 \in PartD(m) <=> k \in m)
      BY <2>1, PinD
    <3> QED
      BY <1>0, <2>1, <3>1 DEF PortBit, IsOutput
  <2>2. CASE k \notin Low3
    <3>1. k - 3 \in GPMASK_PORTB /\ (k - 3 \in PartB(m) <=> k \in m)
      BY <2>2, PinB
    <3> QED
      BY <1>0, <2>2, <3>1 DEF PortBit, IsOutput
  <2> QED
    BY <2>1, <2>2
<1>3. Io8Level' = (Io8Level \cap Io8Dir) \cup (m \ Io8Dir)
  BY <1>2 DEF Io8Level, Io8Dir
<1> QED
  BY <1>1, <1>3 DEF Bank!SetPullups

(* Every step of the driver is a step of the bank or leaves it as it is.   *)
LEMMA NextRefines == GpioInv /\ [Next]_vars => [Bank!Next]_Bank!vars
<1> SUFFICES ASSUME GpioInv, [Next]_vars PROVE [Bank!Next]_Bank!vars
  OBVIOUS
<1>1. ASSUME NEW m \in Masks, IO8_SelectOutputs(m) PROVE Bank!Next
  BY <1>1, SelectOutputsRefines DEF Bank!Next
<1>2. ASSUME NEW m \in Masks, IO8_WriteData(m) PROVE Bank!Next
  BY <1>2, WriteDataRefines DEF Bank!Next
<1>3. ASSUME NEW m \in Masks, IO8_SetPullups(m) PROVE Bank!Next
  BY <1>3, SetPullupsRefines DEF Bank!Next
<1>4. CASE UNCHANGED vars
  BY <1>4 DEF vars, Bank!vars, Io8Dir, Io8Level, IsOutput, PortBit
<1> QED
  BY <1>1, <1>2, <1>3, <1>4 DEF Next

(* MCU_Init leaves every line an input without pull-up and no value        *)
(* written: the bank's initial state.                                      *)
LEMMA InitRefines == Init => Bank!Init
BY DEF Init, Bank!Init, Io8Dir, Io8Level, IsOutput, PortBit

(* The two-port driver implements the header's 8-bit bank for every set   *)
(* of argument bytes: IO8_SelectOutputs, IO8_WriteData and IO8_SetPullups  *)
(* act on the lines as the same call on one 8-bit register would.          *)
THEOREM Io8RefinementHolds == Spec => Io8Refinement
<1>1. Init => GpioInv /\ Bank!Init
  BY InitGpioInv, InitRefines
<1>2. GpioInv /\ [Next]_vars => GpioInv' /\ [Bank!Next]_Bank!vars
  BY GpioInvStep, NextRefines
<1> QED
  BY <1>1, <1>2, PTL DEF Spec, Io8Refinement, Bank!Spec

=============================================================================
