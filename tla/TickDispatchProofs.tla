-------------------------- MODULE TickDispatchProofs --------------------------
(***************************************************************************)
(* Proofs about the tick dispatcher of module TickDispatch, for every      *)
(* bound on the ticks and every timestamp width.                           *)
(***************************************************************************)
EXTENDS TickDispatch, SequenceTheorems, TLAPS

(* The stacks the dispatcher can build, each with the flags it implies:   *)
(* at most one invocation in each region, in either order, and each flag   *)
(* set exactly while its region is occupied.                               *)
Shapes ==
  \/ frames = <<>> /\ ~in_isr /\ ~long_tasks_running
  \/ frames = <<"short">> /\ in_isr /\ ~long_tasks_running
  \/ frames = <<"long">> /\ ~in_isr /\ long_tasks_running
  \/ frames = <<"long", "short">> /\ in_isr /\ long_tasks_running
  \/ frames = <<"short", "long">> /\ in_isr /\ long_tasks_running

(* The inductive invariant.                                                *)
TickInv == TypeOK /\ Shapes

(* What the stack operations of the dispatcher give on the stacks it can  *)
(* build.                                                                  *)
LEMMA StackFacts ==
  /\ Append(<<>>, "short") = <<"short">>
  /\ Append(<<>>, "long") = <<"long">>
  /\ Append(<<"short">>, "long") = <<"short", "long">>
  /\ Append(<<"long">>, "short") = <<"long", "short">>
  /\ Pop(<<"short">>) = <<>>
  /\ Pop(<<"long">>) = <<>>
  /\ Pop(<<"long", "short">>) = <<"long">>
  /\ Pop(<<"short", "long">>) = <<"short">>
  /\ Len(<<>>) = 0
  /\ Len(<<"short">>) = 1 /\ Len(<<"long">>) = 1
  /\ Len(<<"long", "short">>) = 2 /\ Len(<<"short", "long">>) = 2
<1>1. Append(<<>>, "short") = <<"short">>
  <2>1. Append(<<>>, "short") \in Seq(Regions) /\ <<"short">> \in Seq(Regions)
    BY DEF Regions
  <2>2. Len(Append(<<>>, "short")) = 1
    BY DEF Regions
  <2>3. \A i \in 1..1 : Append(<<>>, "short")[i] = <<"short">>[i]
    BY DEF Regions
  <2> QED
    BY <2>1, <2>2, <2>3, SeqEqual
<1>2. Append(<<>>, "long") = <<"long">>
  <2>1. Append(<<>>, "long") \in Seq(Regions) /\ <<"long">> \in Seq(Regions)
    BY DEF Regions
  <2>2. Len(Append(<<>>, "long")) = 1
    BY DEF Regions
  <2>3. \A i \in 1..1 : Append(<<>>, "long")[i] = <<"long">>[i]
    BY DEF Regions
  <2> QED
    BY <2>1, <2>2, <2>3, SeqEqual
<1>3. Append(<<"short">>, "long") = <<"short", "long">>
  <2>1. Append(<<"short">>, "long") \in Seq(Regions) /\ <<"short", "long">> \in Seq(Regions)
    BY DEF Regions
  <2>2. Len(Append(<<"short">>, "long")) = 2
    BY DEF Regions
  <2>3. \A i \in 1..2 : Append(<<"short">>, "long")[i] = <<"short", "long">>[i]
    BY DEF Regions
  <2> QED
    BY <2>1, <2>2, <2>3, SeqEqual
<1>4. Append(<<"long">>, "short") = <<"long", "short">>
  <2>1. Append(<<"long">>, "short") \in Seq(Regions) /\ <<"long", "short">> \in Seq(Regions)
    BY DEF Regions
  <2>2. Len(Append(<<"long">>, "short")) = 2
    BY DEF Regions
  <2>3. \A i \in 1..2 : Append(<<"long">>, "short")[i] = <<"long", "short">>[i]
    BY DEF Regions
  <2> QED
    BY <2>1, <2>2, <2>3, SeqEqual
<1>5. Pop(<<"short">>) = <<>>
  <2>1. Pop(<<"short">>) \in Seq(Regions) /\ <<>> \in Seq(Regions)
    BY DEF Regions, Pop
  <2>2. Len(Pop(<<"short">>)) = 0
    BY DEF Regions, Pop
  <2> QED
    BY <2>1, <2>2, SeqEqual
<1>6. Pop(<<"long">>) = <<>>
  <2>1. Pop(<<"long">>) \in Seq(Regions) /\ <<>> \in Seq(Regions)
    BY DEF Regions, Pop
  <2>2. Len(Pop(<<"long">>)) = 0
    BY DEF Regions, Pop
  <2> QED
    BY <2>1, <2>2, SeqEqual
<1>7. Pop(<<"long", "short">>) = <<"long">>
  <2>1. Pop(<<"long", "short">>) \in Seq(Regions) /\ <<"long">> \in Seq(Regions)
    BY DEF Regions, Pop
  <2>2. Len(Pop(<<"long", "short">>)) = 1
    BY DEF Regions, Pop
  <2>3. \A i \in 1..1 : Pop(<<"long", "short">>)[i] = <<"long">>[i]
    BY DEF Regions, Pop
  <2> QED
    BY <2>1, <2>2, <2>3, SeqEqual
<1>8. Pop(<<"short", "long">>) = <<"short">>
  <2>1. Pop(<<"short", "long">>) \in Seq(Regions) /\ <<"short">> \in Seq(Regions)
    BY DEF Regions, Pop
  <2>2. Len(Pop(<<"short", "long">>)) = 1
    BY DEF Regions, Pop
  <2>3. \A i \in 1..1 : Pop(<<"short", "long">>)[i] = <<"short">>[i]
    BY DEF Regions, Pop
  <2> QED
    BY <2>1, <2>2, <2>3, SeqEqual
<1>9. /\ Len(<<>>) = 0
      /\ Len(<<"short">>) = 1 /\ Len(<<"long">>) = 1
      /\ Len(<<"long", "short">>) = 2 /\ Len(<<"short", "long">>) = 2
  OBVIOUS
<1> QED
  BY <1>1, <1>2, <1>3, <1>4, <1>5, <1>6, <1>7, <1>8, <1>9

(* The stacks Shapes admits, and every one of them is a stack of regions. *)
Stacks == {<<>>, <<"short">>, <<"long">>, <<"long", "short">>, <<"short", "long">>}

LEMMA StacksType == Stacks \subseteq Seq(Regions)
<1>1. <<>> \in Seq(Regions)
  OBVIOUS
<1>2. <<"short">> \in Seq(Regions) /\ <<"long">> \in Seq(Regions)
  BY DEF Regions
<1>3. <<"long", "short">> \in Seq(Regions) /\ <<"short", "long">> \in Seq(Regions)
  BY DEF Regions
<1> QED
  BY <1>1, <1>2, <1>3 DEF Stacks

LEMMA ShapesStacks == Shapes => frames \in Stacks
BY DEF Shapes, Stacks

LEMMA InitTickInv == Init => TickInv
<1> SUFFICES ASSUME Init PROVE TickInv
  OBVIOUS
<1>1. rtc_timestamp \in 0..RtcModulus - 1 /\ matches \in 0..MaxTicks
  BY MaxTicksAssumption, RtcModulusAssumption DEF Init
<1>2. rtc_usercallback \in Callbacks
  BY DEF Init, Callbacks
<1>3. Shapes
  BY DEF Init, Shapes
<1>4. ocf1a \in BOOLEAN /\ in_isr \in BOOLEAN /\ long_tasks_running \in BOOLEAN
  BY DEF Init
<1>5. TypeOK
  BY <1>1, <1>2, <1>3, <1>4, ShapesStacks, StacksType DEF TypeOK
<1> QED
  BY <1>3, <1>5 DEF TickInv

(* The dispatcher's steps keep the stack in one of the five shapes.      *)
LEMMA ShapesStep == TickInv /\ [Next]_vars => Shapes'
<1> SUFFICES ASSUME TickInv, [Next]_vars PROVE Shapes'
  OBVIOUS
<1> USE StackFacts DEF TickInv, TypeOK
<1>1. CASE CompareMatch
  BY <1>1 DEF CompareMatch, Shapes
<1>2. CASE TIMER1_COMPA_ISR
  <2>1. CASE rtc_usercallback = NULL
    BY <1>2, <2>1 DEF TIMER1_COMPA_ISR, Shapes
  <2>2. CASE rtc_usercallback # NULL
    <3>1. DoUpdate_ISR_Enter
      BY <1>2, <2>2 DEF TIMER1_COMPA_ISR
    <3> QED
      BY <3>1 DEF DoUpdate_ISR_Enter, LongTasksCheck, Shapes
  <2> QED
    BY <2>1, <2>2
<1>3. CASE ShortTasksDone
  BY <1>3 DEF ShortTasksDone, LongTasksCheck, Shapes
<1>4. CASE LongTasksDone
  BY <1>4 DEF LongTasksDone, Shapes
<1>5. CASE Timer_Reset
  BY <1>5 DEF Timer_Reset, Shapes
<1>6. CASE Timer_RegisterCallback("TimerCallback")
  BY <1>6 DEF Timer_RegisterCallback, Shapes
<1>7. CASE UNCHANGED vars
  BY <1>7 DEF vars, Shapes
<1> QED
  BY <1>1, <1>2, <1>3, <1>4, <1>5, <1>6, <1>7 DEF Next

(* The dispatcher's steps keep every variable in its type.               *)
LEMMA TypeStep == TickInv /\ [Next]_vars /\ Shapes' => TypeOK'
<1> SUFFICES ASSUME TickInv, [Next]_vars, Shapes' PROVE TypeOK'
  OBVIOUS
<1>1. frames' \in Stacks
  BY DEF Shapes, Stacks
<1>2. frames' \in Seq(Regions)
  BY <1>1, StacksType
<1> USE <1>2 DEF TickInv, TypeOK
<1>3. CASE CompareMatch
  BY <1>3, MaxTicksAssumption DEF CompareMatch, Shapes
<1>4. CASE TIMER1_COMPA_ISR
  <2>1. rtc_timestamp' \in 0..RtcModulus - 1
    BY <1>4, RtcModulusAssumption DEF TIMER1_COMPA_ISR
  <2>2. in_isr' \in BOOLEAN /\ long_tasks_running' \in BOOLEAN
    BY <1>4, Zenon DEF TIMER1_COMPA_ISR, DoUpdate_ISR_Enter, LongTasksCheck
  <2>3. /\ rtc_usercallback' = rtc_usercallback /\ matches' = matches
        /\ ocf1a' = FALSE
    BY <1>4 DEF TIMER1_COMPA_ISR
  <2> QED
    BY <2>1, <2>2, <2>3
<1>5. CASE ShortTasksDone
  <2>1. in_isr' \in BOOLEAN /\ long_tasks_running' \in BOOLEAN
    BY <1>5, Zenon DEF ShortTasksDone, LongTasksCheck
  <2> QED
    BY <1>5, <2>1 DEF ShortTasksDone
<1>6. CASE LongTasksDone
  BY <1>6 DEF LongTasksDone, Shapes
<1>7. CASE Timer_Reset
  BY <1>7, RtcModulusAssumption DEF Timer_Reset
<1>8. CASE Timer_RegisterCallback("TimerCallback")
  BY <1>8 DEF Timer_RegisterCallback, Callbacks
<1>9. CASE UNCHANGED vars
  BY <1>9 DEF vars
<1> QED
  BY <1>3, <1>4, <1>5, <1>6, <1>7, <1>8, <1>9 DEF Next

LEMMA TickInvStep == TickInv /\ [Next]_vars => TickInv'
BY ShapesStep, TypeStep DEF TickInv

(* The timer interrupt never nests more than two deep, whatever the       *)
(* bound on ticks: DoUpdate_ISR's in_isr and long_tasks_running admit at   *)
(* most one invocation into each of its two interruptible regions.         *)
THEOREM TickNestingBoundInvariant == Spec => []TickNestingBound
<1>1. TickInv => TickNestingBound
  <2> SUFFICES ASSUME TickInv PROVE TickNestingBound
    OBVIOUS
  <2>1. frames \in Stacks
    BY ShapesStacks DEF TickInv
  <2>2. Len(frames) = 0 \/ Len(frames) = 1 \/ Len(frames) = 2
    BY <2>1, StackFacts, Zenon DEF Stacks
  <2>3. CASE Len(frames) = 0
    BY <2>3 DEF TickNestingBound
  <2>4. CASE Len(frames) = 1
    BY <2>4 DEF TickNestingBound
  <2>5. CASE Len(frames) = 2
    BY <2>5 DEF TickNestingBound
  <2> QED
    BY <2>2, <2>3, <2>4, <2>5
<1> QED
  BY <1>1, InitTickInv, TickInvStep, PTL DEF Spec


(* Which regions each stack the dispatcher builds occupies.               *)
LEMMA StackRegions ==
  /\ ~\E i \in 1..Len(<<>>) : <<>>[i] = "short"
  /\ ~\E i \in 1..Len(<<>>) : <<>>[i] = "long"
  /\ (\E i \in 1..Len(<<"short">>) : <<"short">>[i] = "short")
  /\ ~\E i \in 1..Len(<<"short">>) : <<"short">>[i] = "long"
  /\ ~\E i \in 1..Len(<<"long">>) : <<"long">>[i] = "short"
  /\ (\E i \in 1..Len(<<"long">>) : <<"long">>[i] = "long")
  /\ (\E i \in 1..Len(<<"long", "short">>) : <<"long", "short">>[i] = "short")
  /\ (\E i \in 1..Len(<<"long", "short">>) : <<"long", "short">>[i] = "long")
  /\ (\E i \in 1..Len(<<"short", "long">>) : <<"short", "long">>[i] = "short")
  /\ (\E i \in 1..Len(<<"short", "long">>) : <<"short", "long">>[i] = "long")
<1>1. ~\E i \in 1..Len(<<>>) : <<>>[i] = "short"
  OBVIOUS
<1>2. ~\E i \in 1..Len(<<>>) : <<>>[i] = "long"
  OBVIOUS
<1>3. (\E i \in 1..Len(<<"short">>) : <<"short">>[i] = "short")
      /\ ~\E i \in 1..Len(<<"short">>) : <<"short">>[i] = "long"
  OBVIOUS
<1>4. ~(\E i \in 1..Len(<<"long">>) : <<"long">>[i] = "short")
      /\ \E i \in 1..Len(<<"long">>) : <<"long">>[i] = "long"
  OBVIOUS
<1>5. (\E i \in 1..Len(<<"long", "short">>) : <<"long", "short">>[i] = "short")
      /\ \E i \in 1..Len(<<"long", "short">>) : <<"long", "short">>[i] = "long"
  <2>1. Len(<<"long", "short">>) = 2
    OBVIOUS
  <2> QED
    BY <2>1
<1>6. (\E i \in 1..Len(<<"short", "long">>) : <<"short", "long">>[i] = "short")
      /\ \E i \in 1..Len(<<"short", "long">>) : <<"short", "long">>[i] = "long"
  <2>1. Len(<<"short", "long">>) = 2
    OBVIOUS
  <2> QED
    BY <2>1
<1> QED
  BY <1>1, <1>2, <1>3, <1>4, <1>5, <1>6

(* in_isr and long_tasks_running are set exactly while an invocation of   *)
(* DoUpdate_ISR is inside the region each guards, for every tick bound    *)
(* and timestamp width: no interleaving of nested ticks leaves a flag set *)
(* that would make later ticks skip their handlers.                       *)
THEOREM FlagsTrackRegionsInvariant == Spec => []FlagsTrackRegions
<1>1. TickInv => FlagsTrackRegions
  <2> SUFFICES ASSUME Shapes PROVE FlagsTrackRegions
    BY DEF TickInv
  <2>1. CASE frames = <<>> /\ ~in_isr /\ ~long_tasks_running
    BY <2>1, StackRegions DEF FlagsTrackRegions
  <2>2. CASE frames = <<"short">> /\ in_isr /\ ~long_tasks_running
    BY <2>2, StackRegions DEF FlagsTrackRegions
  <2>3. CASE frames = <<"long">> /\ ~in_isr /\ long_tasks_running
    BY <2>3, StackRegions DEF FlagsTrackRegions
  <2>4. CASE frames = <<"long", "short">> /\ in_isr /\ long_tasks_running
    BY <2>4, StackRegions DEF FlagsTrackRegions
  <2>5. CASE frames = <<"short", "long">> /\ in_isr /\ long_tasks_running
    BY <2>5, StackRegions DEF FlagsTrackRegions
  <2> QED
    BY <2>1, <2>2, <2>3, <2>4, <2>5 DEF Shapes
<1> QED
  BY <1>1, InitTickInv, TickInvStep, PTL DEF Spec

=============================================================================
