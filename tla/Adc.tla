-------------------------------- MODULE Adc --------------------------------
(***************************************************************************)
(* The analog conversion scheduler (src/unnamed/part_001, common core ADC  *)
(* functions) over the ATmega328P converter (src/m328p/neur-m328p-adc.cpp). *)
(*                                                                         *)
(* The main loop calls ADC_StartConversion with a channel mask and later   *)
(* ADC_ReadPendingSample; neither takes a lock.  The timer callback calls  *)
(* ADC_HousekeepingPoll with interrupts off: when the converter has gone   *)
(* quiet it stores the result for the lowest channel still needing         *)
(* conversion and starts the next one.  The converter runs on its own: a   *)
(* conversion started by writing ADSC finishes later and clears ADSC.      *)
(*                                                                         *)
(* ADC_StartConversion is split where the timer interrupt can observe it:  *)
(* after the buffer is reset and the channels marked (the interrupt does   *)
(* nothing while ADC_idle holds, so these steps are one), after ADC_idle   *)
(* is cleared, and after the first conversion is started.                  *)
(*                                                                         *)
(* A converted value is abstracted to the conversion that produced it: the *)
(* channel it sampled and the request (a ghost count of calls of           *)
(* ADC_StartConversion) during which it was started.                       *)
(***************************************************************************)
EXTENDS Naturals

CONSTANTS
  ChannelCount,  \* ADC_CHANNEL_COUNT (6 on the 328P, 8 on the 2560)
  MaxRequests,   \* bound on the calls of ADC_StartConversion explored
  Unconverted    \* the value of a data register no conversion has written

ASSUME ChannelCountAssumption == ChannelCount \in Nat \ {0}

ASSUME MaxRequestsAssumption == MaxRequests \in Nat

VARIABLES
  ADC_idle,             \* no conversion sequence in progress
  ADC_needs_conversion, \* channel -> still to be converted
  ADC_data_ready,       \* channel -> converted and not yet read
  ADC_data,             \* channel -> stored value
  adsc,                 \* ADCSRA start flag: a conversion is running
  latched,              \* the conversion the converter is running
  adcresult,            \* ADCH:ADCL, the last finished conversion
  pc,                   \* main loop inside ADC_StartConversion
  first_channel,        \* its local first_channel
  request               \* ghost: number of ADC_StartConversion calls

vars == <<ADC_idle, ADC_needs_conversion, ADC_data_ready, ADC_data, adsc,
          latched, adcresult, pc, first_channel, request>>

Channels == 0..ChannelCount - 1

(* A conversion: the channel sampled and the request it was started in.    *)
Sample == [ch : Channels, gen : 0..MaxRequests]
Values == Sample \cup {Unconverted}

(* c is the lowest channel of S: the first one the loops over cidx meet.   *)
IsLeast(c, S) == c \in S /\ \A d \in S : c <= d

(* The channels still marked as needing conversion.                        *)
Pending == {c \in Channels : ADC_needs_conversion[c]}

(***************************************************************************)
(* The converter (neur-m328p-adc.cpp).                                     *)
(***************************************************************************)

(* ADC_IsADCBusy: the start flag stays high while converting.              *)
ADC_IsADCBusy == adsc

(* ADC_GetConversionResult: the data registers.                            *)
ADC_GetConversionResult == adcresult

(* ADC_ReadFromChannel(channel_id): for a valid channel, select it and     *)
(* write ADSC.  Writing ADSC while a conversion runs does not start        *)
(* another one, and the new mux setting only applies to a later one.       *)
ADC_ReadFromChannel(channel_id) ==
  IF adsc \/ channel_id \notin Channels
  THEN UNCHANGED <<adsc, latched>>
  ELSE /\ adsc' = TRUE
       /\ latched' = [ch |-> channel_id, gen |-> request]

(* The running conversion finishes: ADSC drops and the data registers      *)
(* hold its value.                                                         *)
ConversionFinishes ==
  /\ adsc
  /\ adsc' = FALSE
  /\ adcresult' = latched
  /\ UNCHANGED <<ADC_idle, ADC_needs_conversion, ADC_data_ready, ADC_data,
                 latched, pc, first_channel, request>>

(***************************************************************************)
(* The scheduler (part_001).                                               *)
(***************************************************************************)

(* Globals are zero-initialised, ADC_idle starts true, and ADC_Init leaves *)
(* the converter enabled and idle with its data registers zero.            *)
Init ==
  /\ ADC_idle = TRUE
  /\ ADC_needs_conversion = [c \in Channels |-> FALSE]
  /\ ADC_data_ready = [c \in Channels |-> FALSE]
  /\ ADC_data = [c \in Channels |-> Unconverted]
  /\ adsc = FALSE
  /\ latched = Unconverted
  /\ adcresult = Unconverted
  /\ pc = "idle"
  /\ first_channel = 0
  /\ request = 0

(* Mutant: the reset forgets the ready flags of unread results.           *)
ADC_ReInitBuffer_KeepsReady ==
  /\ ADC_data_ready' = ADC_data_ready
  /\ ADC_data' = [c \in Channels |-> Unconverted]

(* ADC_ReInitBuffer: no data is ready and every stored value is cleared    *)
(* (ADC_idle := TRUE and the marks are rewritten by the caller).           *)
ADC_ReInitBuffer ==
  /\ ADC_data_ready' = [c \in Channels |-> FALSE]
  /\ ADC_data' = [c \in Channels |-> Unconverted]

(* ADC_StartConversion(mask) while ADC_idle: ADC_ReInitBuffer discards all *)
(* data and marks, then the channels of the mask are marked.  An empty     *)
(* mask returns here; otherwise first_channel is the lowest one.           *)
ADC_StartConversion_Mark(mask) ==
  /\ pc = "idle"
  /\ ADC_idle
  /\ request < MaxRequests
  /\ ADC_ReInitBuffer
  /\ ADC_needs_conversion' = [c \in Channels |-> c \in mask]
  /\ request' = request + 1
  /\ IF mask = {}
     THEN UNCHANGED <<pc, first_channel>>
     ELSE /\ pc' = "marked"
          /\ \E c \in mask : IsLeast(c, mask) /\ first_channel' = c
  /\ UNCHANGED <<ADC_idle, adsc, latched, adcresult>>

(* "ADC_idle = false;"                                                     *)
ADC_StartConversion_ClearIdle ==
  /\ pc = "marked"
  /\ ADC_idle' = FALSE
  /\ pc' = "cleared"
  /\ UNCHANGED <<ADC_needs_conversion, ADC_data_ready, ADC_data, adsc,
                 latched, adcresult, first_channel, request>>

(* "ADC_ReadFromChannel(first_channel);"                                   *)
ADC_StartConversion_Start ==
  /\ pc = "cleared"
  /\ ADC_ReadFromChannel(first_channel)
  /\ pc' = "idle"
  /\ UNCHANGED <<ADC_idle, ADC_needs_conversion, ADC_data_ready, ADC_data,
                 adcresult, first_channel, request>>

(* Mutant: the stored channel keeps its mark.                             *)
ADC_StoreResult_KeepsMark(c1) ==
  /\ ADC_needs_conversion' = ADC_needs_conversion
  /\ ADC_data_ready' = [ADC_data_ready EXCEPT ![c1] = TRUE]
  /\ ADC_data' = [ADC_data EXCEPT ![c1] = ADC_GetConversionResult]

(* The first pending channel (count = 1) takes the converter's result.    *)
ADC_StoreResult(c1) ==
  /\ ADC_needs_conversion' = [ADC_needs_conversion EXCEPT ![c1] = FALSE]
  /\ ADC_data_ready' = [ADC_data_ready EXCEPT ![c1] = TRUE]
  /\ ADC_data' = [ADC_data EXCEPT ![c1] = ADC_GetConversionResult]

(* The housekeeping poll acts when a sequence is running and the          *)
(* converter is quiet: "a conversion just finished".                      *)
ConversionDone == ~ADC_idle /\ ~ADC_IsADCBusy

(* ADC_HousekeepingPoll, from the timer callback (interrupts off): the    *)
(* lowest pending channel takes the converter's result; the next pending  *)
(* one is started, or the sequence ends.                                  *)
ADC_HousekeepingPoll ==
  /\ ConversionDone
  /\ IF Pending = {}
     THEN /\ ADC_idle' = TRUE
          /\ UNCHANGED <<ADC_needs_conversion, ADC_data_ready, ADC_data,
                         adsc, latched>>
     ELSE \E c1 \in Pending :
            /\ IsLeast(c1, Pending)
            /\ ADC_StoreResult(c1)
            /\ IF Pending = {c1}
               THEN /\ ADC_idle' = TRUE
                    /\ UNCHANGED <<adsc, latched>>
               ELSE /\ \E c2 \in Pending \ {c1} :
                         IsLeast(c2, Pending \ {c1}) /\ ADC_ReadFromChannel(c2)
                    /\ UNCHANGED ADC_idle
  /\ UNCHANGED <<adcresult, pc, first_channel, request>>

(* ADC_ReadPendingSample when it finds data: the lowest ready channel is  *)
(* handed out and its flag cleared.  It only looks while ADC_idle holds,  *)
(* when the interrupt leaves the buffer alone, so it is one step.         *)
ADC_ReadPendingSample ==
  /\ pc = "idle"
  /\ ADC_idle
  /\ \E c \in Channels :
       /\ IsLeast(c, {d \in Channels : ADC_data_ready[d]})
       /\ ADC_data_ready' = [ADC_data_ready EXCEPT ![c] = FALSE]
  /\ UNCHANGED <<ADC_idle, ADC_needs_conversion, ADC_data, adsc, latched,
                 adcresult, pc, first_channel, request>>

Next ==
  \/ \E mask \in SUBSET Channels : ADC_StartConversion_Mark(mask)
  \/ ADC_StartConversion_ClearIdle
  \/ ADC_StartConversion_Start
  \/ ADC_HousekeepingPoll
  \/ ADC_ReadPendingSample
  \/ ConversionFinishes

(* The timer interrupt keeps calling the housekeeping poll, the converter *)
(* finishes what it starts, and the main loop runs whenever no interrupt  *)
(* is executing, so each of these steps is taken while it stays enabled.  *)
(* The application's own calls are not forced.                            *)
Fairness ==
  /\ WF_vars(ADC_HousekeepingPoll)
  /\ WF_vars(ConversionFinishes)
  /\ WF_vars(ADC_StartConversion_ClearIdle)
  /\ WF_vars(ADC_StartConversion_Start)

Spec == Init /\ [][Next]_vars /\ Fairness

-----------------------------------------------------------------------------
(* Every variable keeps the type its declaration gives it.                *)
TypeOK ==
  /\ ADC_idle \in BOOLEAN
  /\ ADC_needs_conversion \in [Channels -> BOOLEAN]
  /\ ADC_data_ready \in [Channels -> BOOLEAN]
  /\ ADC_data \in [Channels -> Values]
  /\ adsc \in BOOLEAN
  /\ latched \in Values
  /\ adcresult \in Values
  /\ pc \in {"idle", "marked", "cleared"}
  /\ first_channel \in Channels
  /\ request \in 0..MaxRequests

(* spec.md 8: results become ready in ascending channel order: while the  *)
(* housekeeping poll works through a request, every channel it has made   *)
(* ready lies below every channel still waiting for conversion.           *)
ReadyBeforePending ==
  \A c, d \in Channels :
    ADC_data_ready[c] /\ ADC_needs_conversion[d] => c < d

(* Every conversion sequence the main loop starts ends: all its channels  *)
(* are converted and ADC_idle is set again, so ADC_WaitForData returns.   *)
ConversionsComplete ==
  (pc = "marked") ~> (ADC_idle /\ Pending = {})

(* The header and spec.md 8: after ADC_StartConversion, the value stored  *)
(* for a channel is a sample of that channel taken for this request.      *)
SampleFresh ==
  \A c \in Channels :
    ADC_data_ready[c] => ADC_data[c] = [ch |-> c, gen |-> request]

(* ADC_ReadPendingSample and ADC_IsDataReady take no lock: they trust     *)
(* that a result marked ready stays what it was until it is read.  No    *)
(* step, of the main loop, the housekeeping poll or the converter, changes *)
(* the stored value of a channel that is ready before and after it.       *)
ReadyDataStable ==
  [][\A c \in Channels :
       ADC_data_ready[c] /\ ADC_data_ready'[c] => ADC_data'[c] = ADC_data[c]]_vars

=============================================================================
