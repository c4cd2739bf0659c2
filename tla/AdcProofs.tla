------------------------------ MODULE AdcProofs ------------------------------
(***************************************************************************)
(* Proofs about the analog conversion scheduler of module Adc, for every   *)
(* channel count and every bound on the requests.                          *)
(***************************************************************************)
EXTENDS Adc, TLAPS

(* The converter only ever latches a sample of a real channel.            *)
LEMMA ReadFromChannelType ==
  ASSUME TypeOK, NEW c \in Channels, ADC_ReadFromChannel(c)
  PROVE  adsc' \in BOOLEAN /\ latched' \in Values
<1>1. CASE adsc \/ c \notin Channels
  BY <1>1 DEF TypeOK, ADC_ReadFromChannel
<1>2. CASE ~(adsc \/ c \notin Channels)
  <2>1. latched' = [ch |-> c, gen |-> request] /\ adsc' = TRUE
    BY <1>2 DEF ADC_ReadFromChannel
  <2>2. [ch |-> c, gen |-> request] \in Sample
    BY DEF TypeOK, Sample
  <2> QED
    BY <2>1, <2>2 DEF Values
<1> QED
  BY <1>1, <1>2

LEMMA InitTypeOK == Init => TypeOK
<1> SUFFICES ASSUME Init PROVE TypeOK
  OBVIOUS
<1>1. Unconverted \in Values
  BY DEF Values
<1>2. first_channel \in Channels /\ request \in 0..MaxRequests
  BY ChannelCountAssumption, MaxRequestsAssumption DEF Init, Channels
<1>3. ADC_data \in [Channels -> Values]
  BY <1>1 DEF Init
<1> QED
  BY <1>1, <1>2, <1>3 DEF Init, TypeOK

LEMMA TypeOKStep == TypeOK /\ [Next]_vars => TypeOK'
<1> SUFFICES ASSUME TypeOK, [Next]_vars PROVE TypeOK'
  OBVIOUS
<1>1. CASE \E mask \in SUBSET Channels : ADC_StartConversion_Mark(mask)
  <2>1. PICK mask \in SUBSET Channels : ADC_StartConversion_Mark(mask)
    BY <1>1
  <2>2. first_channel' \in Channels
    BY <2>1, ChannelCountAssumption DEF ADC_StartConversion_Mark, IsLeast, TypeOK
  <2>3. request' \in 0..MaxRequests
    BY <2>1, MaxRequestsAssumption DEF ADC_StartConversion_Mark, TypeOK
  <2>4. pc' \in {"idle", "marked", "cleared"}
    BY <2>1 DEF ADC_StartConversion_Mark, TypeOK
  <2> QED
    BY <2>1, <2>2, <2>3, <2>4
       DEF ADC_StartConversion_Mark, ADC_ReInitBuffer, TypeOK, Values
<1>2. CASE ADC_StartConversion_ClearIdle
  BY <1>2 DEF ADC_StartConversion_ClearIdle, TypeOK
<1>3. CASE ADC_StartConversion_Start
  BY <1>3, ReadFromChannelType DEF ADC_StartConversion_Start, TypeOK
<1>4. CASE ADC_HousekeepingPoll
  <2>1. CASE Pending = {}
    BY <1>4, <2>1 DEF ADC_HousekeepingPoll, TypeOK
  <2>2. CASE Pending # {}
    <3>1. PICK c1 \in Pending : IsLeast(c1, Pending) /\ ADC_StoreResult(c1)
                 /\ IF Pending = {c1}
                    THEN ADC_idle' = TRUE /\ UNCHANGED <<adsc, latched>>
                    ELSE /\ \E c2 \in Pending \ {c1} :
                              IsLeast(c2, Pending \ {c1}) /\ ADC_ReadFromChannel(c2)
                         /\ UNCHANGED ADC_idle
      BY <1>4, <2>2 DEF ADC_HousekeepingPoll
    <3>2. c1 \in Channels
      BY <3>1 DEF Pending
    <3>3. adsc' \in BOOLEAN /\ latched' \in Values /\ ADC_idle' \in BOOLEAN
      <4>1. CASE Pending = {c1}
        BY <3>1, <4>1 DEF TypeOK
      <4>2. CASE Pending # {c1}
        <5>1. PICK c2 \in Pending \ {c1} : ADC_ReadFromChannel(c2)
          BY <3>1, <4>2
        <5>2. c2 \in Channels
          BY <5>1 DEF Pending
        <5> QED
          BY <3>1, <4>2, <5>1, <5>2, ReadFromChannelType DEF TypeOK
      <4> QED
        BY <4>1, <4>2
    <3>4. ADC_data' \in [Channels -> Values]
      BY <3>1, <3>2 DEF ADC_StoreResult, ADC_GetConversionResult, TypeOK
    <3> QED
      BY <1>4, <3>1, <3>2, <3>3, <3>4 DEF ADC_HousekeepingPoll, ADC_StoreResult, TypeOK
  <2> QED
    BY <2>1, <2>2
<1>5. CASE ADC_ReadPendingSample
  BY <1>5 DEF ADC_ReadPendingSample, TypeOK
<1>6. CASE ConversionFinishes
  BY <1>6 DEF ConversionFinishes, TypeOK
<1>7. CASE UNCHANGED vars
  BY <1>7 DEF vars, TypeOK
<1> QED
  BY <1>1, <1>2, <1>3, <1>4, <1>5, <1>6, <1>7 DEF Next

(* Every variable of the scheduler and the converter keeps its type in     *)
(* every reachable state.                                                  *)
THEOREM TypeCorrect == Spec => []TypeOK
BY InitTypeOK, TypeOKStep, PTL DEF Spec

(* A step that leaves the flags alone keeps the ordering.                 *)
LEMMA FlagsQuiet ==
  ASSUME ReadyBeforePending,
         UNCHANGED <<ADC_data_ready, ADC_needs_conversion>>
  PROVE  ReadyBeforePending'
BY DEF ReadyBeforePending

LEMMA ReadyBeforePendingStep ==
  ASSUME TypeOK, ReadyBeforePending, [Next]_vars
  PROVE  ReadyBeforePending'
<1>1. CASE \E mask \in SUBSET Channels : ADC_StartConversion_Mark(mask)
  <2>1. ADC_data_ready' = [c \in Channels |-> FALSE]
    BY <1>1 DEF ADC_StartConversion_Mark, ADC_ReInitBuffer
  <2> QED
    BY <2>1 DEF ReadyBeforePending
<1>2. CASE ADC_StartConversion_ClearIdle
  BY <1>2, FlagsQuiet DEF ADC_StartConversion_ClearIdle
<1>3. CASE ADC_StartConversion_Start
  BY <1>3, FlagsQuiet DEF ADC_StartConversion_Start
<1>4. CASE ADC_HousekeepingPoll /\ Pending = {}
  BY <1>4, FlagsQuiet DEF ADC_HousekeepingPoll
<1>5. CASE ADC_HousekeepingPoll /\ Pending # {}
  <2>1. PICK c1 \in Pending : IsLeast(c1, Pending) /\ ADC_StoreResult(c1)
    BY <1>5 DEF ADC_HousekeepingPoll
  <2>2. c1 \in Channels
    BY <2>1 DEF Pending
  <2>3. SUFFICES ASSUME NEW c \in Channels, NEW d \in Channels,
                        ADC_data_ready'[c], ADC_needs_conversion'[d]
                 PROVE  c < d
    BY DEF ReadyBeforePending
  <2>4. d # c1 /\ d \in Pending
    BY <2>1, <2>2, <2>3 DEF ADC_StoreResult, Pending, TypeOK
  <2>5. c = c1 \/ ADC_data_ready[c]
    BY <2>1, <2>2, <2>3 DEF ADC_StoreResult, TypeOK
  <2>6. CASE c = c1
    BY <2>1, <2>4, <2>6 DEF IsLeast, Channels
  <2>7. CASE ADC_data_ready[c]
    BY <2>4, <2>7 DEF ReadyBeforePending, Pending
  <2> QED
    BY <2>5, <2>6, <2>7
<1>6. CASE ADC_ReadPendingSample
  <2>1. PICK c1 \in Channels : ADC_data_ready' = [ADC_data_ready EXCEPT ![c1] = FALSE]
    BY <1>6 DEF ADC_ReadPendingSample
  <2>2. UNCHANGED ADC_needs_conversion
    BY <1>6 DEF ADC_ReadPendingSample
  <2> QED
    BY <2>1, <2>2 DEF ReadyBeforePending, TypeOK
<1>7. CASE ConversionFinishes
  BY <1>7, FlagsQuiet DEF ConversionFinishes
<1>8. CASE UNCHANGED vars
  BY <1>8, FlagsQuiet DEF vars
<1> QED
  BY <1>1, <1>2, <1>3, <1>4, <1>5, <1>6, <1>7, <1>8 DEF Next

(* spec.md 8: the housekeeping poll makes results ready in ascending      *)
(* channel order: in every reachable state each ready channel lies below  *)
(* each channel still waiting for conversion, for any channel count.      *)
THEOREM ReadyBeforePendingInvariant == Spec => []ReadyBeforePending
<1>1. Init => TypeOK /\ ReadyBeforePending
  BY InitTypeOK DEF Init, ReadyBeforePending
<1>2. TypeOK /\ ReadyBeforePending /\ [Next]_vars
        => TypeOK' /\ ReadyBeforePending'
  BY TypeOKStep, ReadyBeforePendingStep
<1> QED
  BY <1>1, <1>2, PTL DEF Spec


(* The step relation inside ReadyDataStable.                               *)
ReadyDataKept ==
  \A c \in Channels :
    ADC_data_ready[c] /\ ADC_data_ready'[c] => ADC_data'[c] = ADC_data[c]

(* A step that leaves the stored values alone keeps every ready one.       *)
LEMMA DataQuiet ==
  ASSUME UNCHANGED ADC_data PROVE ReadyDataKept
BY DEF ReadyDataKept

(* Every step keeps the value of a channel ready before and after it: the *)
(* poll stores only into the lowest pending channel, which the ordering   *)
(* says is not ready, and a new request clears every ready flag.           *)
LEMMA ReadyDataKeptStep ==
  ASSUME TypeOK, ReadyBeforePending, [Next]_vars
  PROVE  ReadyDataKept
<1>1. CASE \E mask \in SUBSET Channels : ADC_StartConversion_Mark(mask)
  <2>1. ADC_data_ready' = [c \in Channels |-> FALSE]
    BY <1>1 DEF ADC_StartConversion_Mark, ADC_ReInitBuffer
  <2> QED
    BY <2>1 DEF ReadyDataKept
<1>2. CASE ADC_StartConversion_ClearIdle
  BY <1>2, DataQuiet DEF ADC_StartConversion_ClearIdle
<1>3. CASE ADC_StartConversion_Start
  BY <1>3, DataQuiet DEF ADC_StartConversion_Start
<1>4. CASE ADC_HousekeepingPoll /\ Pending = {}
  BY <1>4, DataQuiet DEF ADC_HousekeepingPoll
<1>5. CASE ADC_HousekeepingPoll /\ Pending # {}
  <2>1. PICK c1 \in Pending : IsLeast(c1, Pending) /\ ADC_StoreResult(c1)
    BY <1>5 DEF ADC_HousekeepingPoll
  <2>2. c1 \in Channels /\ ADC_needs_conversion[c1]
    BY <2>1 DEF Pending
  <2>3. SUFFICES ASSUME NEW c \in Channels,
                        ADC_data_ready[c], ADC_data_ready'[c]
                 PROVE  ADC_data'[c] = ADC_data[c]
    BY DEF ReadyDataKept
  <2>4. c # c1
    BY <2>2, <2>3 DEF ReadyBeforePending, Channels
  <2> QED
    BY <2>1, <2>4 DEF ADC_StoreResult, TypeOK
<1>6. CASE ADC_ReadPendingSample
  BY <1>6, DataQuiet DEF ADC_ReadPendingSample
<1>7. CASE ConversionFinishes
  BY <1>7, DataQuiet DEF ConversionFinishes
<1>8. CASE UNCHANGED vars
  BY <1>8, DataQuiet DEF vars
<1> QED
  BY <1>1, <1>2, <1>3, <1>4, <1>5, <1>6, <1>7, <1>8 DEF Next

(* The unlocked readers' assumption holds for any channel count: once a  *)
(* result is ready, no later step changes it until its flag drops (it is *)
(* read, or a new request resets the buffer).                             *)
THEOREM ReadyDataStableHolds == Spec => ReadyDataStable
<1>1. Spec => [](TypeOK /\ ReadyBeforePending)
  BY TypeCorrect, ReadyBeforePendingInvariant, PTL
<1>2. TypeOK /\ ReadyBeforePending /\ [Next]_vars => [ReadyDataKept]_vars
  BY ReadyDataKeptStep
<1> QED
  BY <1>1, <1>2, PTL DEF Spec, ReadyDataStable, ReadyDataKept

=============================================================================
