---------------------------- MODULE TickDispatch ----------------------------
(***************************************************************************)
(* The periodic clock interrupt and the application's tick dispatcher.     *)
(*                                                                         *)
(* Timer 1 raises its compare-match flag every tick (m328p timer.cpp).     *)
(* The interrupt runs with interrupts off (ISR_BLOCK): it increments       *)
(* rtc_timestamp and calls the registered callback, which in the test     *)
(* application (part_013 TimerCallback) is NeurApp_Base::DoUpdate_ISR      *)
(* (part_012).  DoUpdate_ISR runs the short tick handlers and then the     *)
(* high-priority handlers, each inside NONATOMIC_BLOCK, so a later tick    *)
(* may nest on top of either; in_isr and long_tasks_running decide which   *)
(* part a nested tick skips.                                               *)
(*                                                                         *)
(* The interrupted invocations form a stack, frames, bottom first: each    *)
(* entry is the region ("short" or "long") the invocation waits in with    *)
(* interrupts enabled.  Everything between two such regions runs with      *)
(* interrupts off and is one step.  The handlers themselves are abstract:  *)
(* a region ends in one step.  The main loop runs only when no invocation  *)
(* is on the stack; its ATOMIC_BLOCK calls are single steps.  The debug    *)
(* counters of skipped ticks are left out.                                 *)
(***************************************************************************)
EXTENDS Naturals, Sequences

CONSTANTS
  MaxTicks,     \* bound on the compare matches explored
  RtcModulus,   \* 2^32, the range of the uint32_t rtc_timestamp
  NULL          \* the null callback pointer

ASSUME MaxTicksAssumption == MaxTicks \in Nat

ASSUME RtcModulusAssumption == RtcModulus \in Nat \ {0}

VARIABLES
  rtc_timestamp,       \* ticks counted by the interrupt
  rtc_usercallback,    \* NULL or TimerCallback
  ocf1a,               \* Timer 1 compare-match flag: an interrupt is pending
  frames,              \* the nested invocations of the interrupt
  in_isr,              \* DoUpdate_ISR: short handlers in progress
  long_tasks_running,  \* DoUpdate_ISR: high-priority handlers in progress
  matches              \* ghost: compare matches so far

vars == <<rtc_timestamp, rtc_usercallback, ocf1a, frames, in_isr,
          long_tasks_running, matches>>

Callbacks == {NULL, "TimerCallback"}
Regions == {"short", "long"}

(* The stack without its top invocation.                                  *)
Pop(s) == SubSeq(s, 1, Len(s) - 1)

(***************************************************************************)
(* The clock.                                                              *)
(***************************************************************************)

(* After Timer_Init with a nonzero rate (timer.cpp): the timestamp is      *)
(* zero, no callback is registered, and the compare interrupt is enabled. *)
(* DoInitialSetup has cleared both reentrancy flags.                      *)
Init ==
  /\ rtc_timestamp = 0
  /\ rtc_usercallback = NULL
  /\ ocf1a = FALSE
  /\ frames = <<>>
  /\ in_isr = FALSE
  /\ long_tasks_running = FALSE
  /\ matches = 0

(* The counter reaches OCR1A: the flag is set.  A match while the flag is *)
(* still set merges with the pending one.                                 *)
CompareMatch ==
  /\ matches < MaxTicks
  /\ ocf1a' = TRUE
  /\ matches' = matches + 1
  /\ UNCHANGED <<rtc_timestamp, rtc_usercallback, frames, in_isr,
                 long_tasks_running>>

(* The high-priority check of DoUpdate_ISR, on top of the stack base:     *)
(* skip when the handlers are already running below, otherwise mark them  *)
(* running and re-enable interrupts.                                      *)
LongTasksCheck(base) ==
  IF long_tasks_running
  THEN /\ frames' = base
       /\ UNCHANGED long_tasks_running
  ELSE /\ long_tasks_running' = TRUE
       /\ frames' = Append(base, "long")

(* Mutant: the entry of DoUpdate_ISR without its in_isr test.             *)
DoUpdate_ISR_Enter_NoGuard ==
  /\ in_isr' = TRUE
  /\ frames' = Append(frames, "short")
  /\ UNCHANGED long_tasks_running

(* The entry of DoUpdate_ISR: a tick that finds the short handlers still  *)
(* running skips them and goes on to the high-priority check; otherwise   *)
(* it sets in_isr and re-enables interrupts for the short handlers.       *)
DoUpdate_ISR_Enter ==
  IF in_isr
  THEN /\ LongTasksCheck(frames)
       /\ UNCHANGED in_isr
  ELSE /\ in_isr' = TRUE
       /\ frames' = Append(frames, "short")
       /\ UNCHANGED long_tasks_running

(* ISR(TIMER1_COMPA_vect): taken while the flag is set, since interrupts  *)
(* are enabled in every state the model stops in; entering clears the     *)
(* flag.  The timestamp wraps; the callback runs when one is registered.  *)
TIMER1_COMPA_ISR ==
  /\ ocf1a
  /\ ocf1a' = FALSE
  /\ rtc_timestamp' = (rtc_timestamp + 1) % RtcModulus
  /\ IF rtc_usercallback = NULL
     THEN UNCHANGED <<frames, in_isr, long_tasks_running>>
     ELSE DoUpdate_ISR_Enter
  /\ UNCHANGED <<rtc_usercallback, matches>>

(* Mutant: the short handlers return and in_isr is left set.             *)
ShortTasksDone_KeepsFlag ==
  /\ frames # <<>>
  /\ frames[Len(frames)] = "short"
  /\ UNCHANGED in_isr
  /\ LongTasksCheck(Pop(frames))
  /\ UNCHANGED <<rtc_timestamp, rtc_usercallback, ocf1a, matches>>

(* The short handlers and UserUpdateTimer_ISR return; with interrupts off *)
(* again in_isr is cleared and the high-priority check follows.           *)
ShortTasksDone ==
  /\ frames # <<>>
  /\ frames[Len(frames)] = "short"
  /\ in_isr' = FALSE
  /\ LongTasksCheck(Pop(frames))
  /\ UNCHANGED <<rtc_timestamp, rtc_usercallback, ocf1a, matches>>

(* The high-priority handlers return; long_tasks_running is cleared and   *)
(* the invocation returns to what it interrupted.                         *)
LongTasksDone ==
  /\ frames # <<>>
  /\ frames[Len(frames)] = "long"
  /\ long_tasks_running' = FALSE
  /\ frames' = Pop(frames)
  /\ UNCHANGED <<rtc_timestamp, rtc_usercallback, ocf1a, in_isr, matches>>

(* Timer_Reset from the main loop, in ATOMIC_BLOCK.                       *)
Timer_Reset ==
  /\ frames = <<>>
  /\ rtc_timestamp' = 0
  /\ UNCHANGED <<rtc_usercallback, ocf1a, frames, in_isr, long_tasks_running,
                 matches>>

(* Timer_RegisterCallback(callback) from the main loop, in ATOMIC_BLOCK.  *)
Timer_RegisterCallback(callback) ==
  /\ frames = <<>>
  /\ rtc_usercallback' = callback
  /\ UNCHANGED <<rtc_timestamp, ocf1a, frames, in_isr, long_tasks_running,
                 matches>>

(* The application registers TimerCallback and nothing else              *)
(* (part_013 main, after Timer_Init).                                    *)
Next ==
  \/ CompareMatch
  \/ TIMER1_COMPA_ISR
  \/ ShortTasksDone
  \/ LongTasksDone
  \/ Timer_Reset
  \/ Timer_RegisterCallback("TimerCallback")

(* A pending interrupt is taken, since interrupts are enabled whenever    *)
(* the model rests; the handlers of the innermost invocation return, as   *)
(* the framework requires of them.  The main loop's calls are not forced. *)
Fairness ==
  /\ WF_vars(TIMER1_COMPA_ISR)
  /\ WF_vars(ShortTasksDone)
  /\ WF_vars(LongTasksDone)

Spec == Init /\ [][Next]_vars /\ Fairness

-----------------------------------------------------------------------------
(* Every variable keeps its type.                                         *)
TypeOK ==
  /\ rtc_timestamp \in 0..RtcModulus - 1
  /\ rtc_usercallback \in Callbacks
  /\ ocf1a \in BOOLEAN
  /\ frames \in Seq(Regions)
  /\ in_isr \in BOOLEAN
  /\ long_tasks_running \in BOOLEAN
  /\ matches \in 0..MaxTicks

(* The interrupt never nests more than two deep: at most one invocation   *)
(* runs short handlers and at most one runs high-priority handlers, so    *)
(* however the ticks fall the stack of the 2 KB part stays bounded.       *)
TickNestingBound == Len(frames) <= 2

(* DoUpdate_ISR's reentrancy flags are set exactly while some invocation  *)
(* is inside the region they guard: a flag left set with no handler       *)
(* running would make every later tick skip that region for good.         *)
FlagsTrackRegions ==
  /\ in_isr <=> \E i \in 1..Len(frames) : frames[i] = "short"
  /\ long_tasks_running <=> \E i \in 1..Len(frames) : frames[i] = "long"

(* A tick taken while the dispatcher is quiet runs the short handlers:    *)
(* the reentrancy flags are always released, so no tick handler is        *)
(* starved after an overrun.                                              *)
ShortTasksNotStarved ==
  (ocf1a /\ frames = <<>> /\ rtc_usercallback # NULL)
    ~> (\E i \in 1..Len(frames) : frames[i] = "short")

(* spec.md 4.6: the high-priority handlers preempt ordinary polling but   *)
(* not the tick path: no invocation runs high-priority handlers on top of *)
(* one that is running the short tick handlers.                           *)
LongNeverOverShort ==
  \A i, j \in 1..Len(frames) :
    i < j => ~(frames[i] = "short" /\ frames[j] = "long")

=============================================================================
