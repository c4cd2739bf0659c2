# Formal models of the NeurAVR firmware

TLA+ models of the NeurAVR AVR firmware framework (sources under `src/`).
The models are model-checked with TLC on small instances, and the main
invariants are proved with TLAPS for every value of the constants.

## The system

NeurAVR is a bare-metal framework for ATmega328P and ATmega2560 boards. A
workstation build emulates the hardware with threads. It has one main loop and
several interrupt handlers that share state.

| Part | Source | Runs in |
|---|---|---|
| Serial receive: a ring of `UART_LINE_COUNT` rows of `UART_LINE_SIZE` bytes (`UART_recvlines`) | `part_002` `UART_HandleRecvChar_ISR`, `UART_GetNextLine`, `UART_DoneWithLine`, `UART_SetLineFiltering`; RX ISRs in `part_011`, `part_008` | RX-complete ISR (interrupts off) and main loop (`ATOMIC_BLOCK`) |
| Serial transmit: one user string at a time (`UART_transbuf`) | `part_002` `UART_QueueSend*`, `UART_GetNextSendChar_ISR`; UDRE ISRs | main loop and data-register-empty ISR |
| Application framework: command echo and parsing, report queue, tick dispatch | `part_012` `DoPolling`, `DoUpdate_ISR`, `ReInitState`, `NeurApp_Parser` | main loop and timer ISR (which re-enables interrupts for long tasks) |
| Analog conversions | `part_001` `ADC_*` | main loop and timer-driven housekeeping |
| Timer / RTC callback | `part_000`, `part_007`, `m328p/neur-m328p-timer.cpp` | timer ISR |
| Emulated atomic sections | `part_010` `ATOMIC_GetCli` / `ATOMIC_ReleaseCli` | workstation threads |
| GPIO, MCU init, hex formatting | `part_009`, `part_006`, `core/neuravr-util.cpp` | main loop |

How the parts interact:

- The receive ISR fills the ring.
- `DoPolling` takes the oldest complete line with `UART_GetNextLine`. It keeps
  the pointer while it echoes the line (through the transmit side), parses it
  and runs the command.
- It then releases the line with `UART_DoneWithLine`.
- Reports go through a queue of strings in `DoPolling` to the transmit side.

## Modules

| Module | Models |
|---|---|
| `UartRecv` | The receive side. |
| `LineQueue` | The abstract line FIFO that the header `neuravr.h` promises. |
| `MC_UartRecv` | The TLC instance: the sizes of the ring and the characters. |
| `UartRecvProofs` | The TLAPS proofs of `UartRecv`'s invariants. |
| `UartRecvRefinement` | The TLAPS proof that `UartRecv` implements `LineQueue`. |
| `Adc`, `MC_Adc` | The analog conversion scheduler (`part_001`) over the 328P converter (`m328p/neur-m328p-adc.cpp`). |
| `AdcProofs` | The TLAPS proofs about `Adc`. |
| `TickDispatch`, `MC_TickDispatch` | The timer interrupt (`m328p/neur-m328p-timer.cpp`), `Timer_Reset` and `Timer_RegisterCallback` (`part_000`), and the tick dispatcher `DoUpdate_ISR` (`part_012`) as registered by `part_013`. |
| `TickDispatchProofs` | The TLAPS proofs of the nesting bound and of `FlagsTrackRegions`. |
| `TimerInit`, `MC_TimerInit` | `Timer_Init`'s divisor arithmetic, from the state `MCU_Init` leaves. |
| `TimerInitProofs` | The TLAPS proof of `TickPeriodCorrect`. |
| `Gpio`, `MC_Gpio` | The 8-bit GPIO bank (`m328p/neur-m328p-gpio.cpp`). |
| `Io8Bank` | The abstract 8-bit bank that the IO8 comments of `neuravr.h` (lines 82-98) describe. |
| `GpioProofs` | The TLAPS proofs of `PortsFollowLastCalls` and of the refinement of `Io8Bank`. |
| `UtilHex`, `MC_UtilHex` | `UTIL_WriteHex` (`core/neuravr-util.cpp`). |
| `UtilHexProofs` | The TLAPS proof of `HexRendered`. |

### UartRecv

State:

- `recvlines` is the flat byte array, `Cells -> Bytes`. A row is `LineSize`
  consecutive cells from `RowBase(r) = r * LineSize`, which is the code's
  `r << UART_LINE_BITS`.
- `rowcount`, `oldestrow`, `newestrow`, `recvcharptr`, `saw_cr` (the static
  local) and `uart_filter_empty_lines` are the code's variables.
- The main loop is `mainpc` (`"idle"` or `"holding"`) with `held`, the row of
  the pointer it holds.
- `heldslot` is a ghost copy of that row taken when the pointer was returned.

Actions:

- **`UART_HandleRecvChar_ISR(c)`** is one atomic step, because the ISR runs
  with interrupts off. It has three branches, in the code's order:
  - the LF of CRLF, which is ignored;
  - an end of line (`EndLine`). An empty line under filtering is skipped.
    Otherwise the handler clamps the terminator (`TermPos`), advances only
    while `rowcount < LineCount - 1` (`RowAdvances`) and terminates the new or
    same row;
  - an ordinary character (`AddChar`), stored only while `HasRoom`.

  Every branch updates `saw_cr`.
- **`UART_GetNextLine`** is the non-NULL return, which moves the reader to
  `holding`.
- **`UART_DoneWithLine`** releases the row with the power-of-two wrap, written
  as `% LineCount`.
- **`UART_SetLineFiltering(b)`**.

A C string at a row is read up to the first NUL, which may lie in a later row
(`LineAt`).

The last section of `UartRecv` is the refinement mapping to `LineQueue`:
`QueuedLines` (the strings at the complete rows, oldest first) and
`PartialLine` (the bytes written so far into the newest row), with
`saw_cr`, the filter flag and `mainpc` mapped to themselves.  `DropNewest`
and `DropOldest` instantiate the queue with the two full-queue policies.

### LineQueue

- Queued lines are a sequence. Each line is cut to `LineSize - 1` characters.
- At most `LineCount - 1` lines are queued.
- Line ends are treated as in the code.
- The reader peeks at the head and releases it.
- `FullPolicy` says what happens to a line that completes while the queue is
  full:
  - `"drop_newest"` discards that line;
  - `"drop_oldest"` is what `spec.md` describes.

### Adc

State: the code's `ADC_idle`, `ADC_needs_conversion`, `ADC_data_ready` and
`ADC_data`; the converter's start flag `adsc`, the conversion it is running
(`latched`) and its data registers (`adcresult`); `pc` and `first_channel`
for the main loop inside `ADC_StartConversion`; a ghost `request` counting
its calls. A sample is abstracted to `[ch, gen]`: the channel and the request
during which its conversion started.

Actions:

- `ADC_StartConversion_Mark(mask)`: the guard `ADC_idle`, `ADC_ReInitBuffer`
  and the marking loop (lines 115-136). The timer poll does nothing while
  `ADC_idle` holds, so this is one step. An empty mask returns.
- `ADC_StartConversion_ClearIdle` (line 138) and `ADC_StartConversion_Start`
  (line 139) are separate steps, because the timer interrupt can fall between
  them.
- `ADC_HousekeepingPoll`: when `~ADC_idle /\ ~ADC_IsADCBusy()`, the least
  pending channel takes `ADC_GetConversionResult()`; the next pending one is
  started, or `ADC_idle` is set (the code's `count` loop).
- `ADC_ReadPendingSample`: with `ADC_idle`, the least ready channel is handed
  out.
- `ConversionFinishes`: the hardware clears ADSC and latches the result.
  `ADC_ReadFromChannel` ignores invalid channels and a write while busy.

### TickDispatch

The timer ISR runs with interrupts off; `DoUpdate_ISR` opens two
`NONATOMIC_BLOCK` regions, one for the short tick handlers (`in_isr`) and
one for the high-priority handlers (`long_tasks_running`). `frames` is the
stack of interrupted invocations, each recorded by the region it waits in.
The code between two regions runs with interrupts off and is one step:

- `CompareMatch` sets `ocf1a`. A match while it is set merges with it, as
  the hardware flag does.
- `TIMER1_COMPA_ISR` clears the flag, increments `rtc_timestamp` modulo
  `RtcModulus` and, for a registered callback, enters `DoUpdate_ISR`
  (`DoUpdate_ISR_Enter`).
- `ShortTasksDone` clears `in_isr` and runs the high-priority check
  (`LongTasksCheck`).
- `LongTasksDone` clears `long_tasks_running` and returns.
- `Timer_Reset` and `Timer_RegisterCallback` run only from the main loop,
  that is with an empty stack, in `ATOMIC_BLOCK`. The application registers
  only `TimerCallback` (`part_013` line 123).

### TimerInit

`Timer_Init(mcu_hz, rtc_hz)` clears the timestamp and callback. With a
nonzero rate it loads OCR1A with `mcu_hz / rtc_hz`, less one if positive,
clamped to `0xffff`, written as two bytes, and starts the timer and its
interrupt. The arguments come from sets around every boundary of the code.

### Gpio

A byte is the set of its bit positions. The shadows `dirmask_portd`,
`dirmask_portb`, `data_d`, `data_b` and `lastval_8`, and the registers
DDRD/DDRB/PORTD/PORTB, change by the code's masks and shifts, one action per
`IO8_*` call. Ghosts record the last pull-up request and whether a direction
change has happened since the last write or pull-up call.

`Io8Bank` is the bank as the header presents it: eight lines, each an
output or an input, and one bit per line that holds the output's level or
the input's pull-up. `Gpio` maps to it through the pin map. `Io8Dir` is the
set of IO8 bits whose DDR pin is set, and `Io8Level` is the set whose PORT
pin is set.

### UtilHex

`UTIL_WriteHex` is a call step and one step per loop iteration.
`HexRendered` compares the buffer with a reference rendering, nibble by
nibble, and checks that no other byte changed.

## Runs

| Run | Config | Checks | Result |
|---|---|---|---|
| `uart_recv` | `MC_UartRecv.cfg` | `TypeOK`, `HeldLineStable`, `LineQueueRefinement` | pass: 16192 distinct states, depth 25 |
| `uart_recv_spec_full` | `MC_UartRecv_SpecFull.cfg` | `SpecLineQueueRefinement` | violation, as expected |
| `adc` | `MC_Adc.cfg` | `ReadyBeforePending`, `ConversionsComplete`, `ReadyDataStable` | pass: 2380 distinct states |
| `adc_fresh` | `MC_Adc_Fresh.cfg` | `SampleFresh` | violation: the stale-sample race |
| `tick_dispatch` | `MC_TickDispatch.cfg` | `TickNestingBound`, `FlagsTrackRegions`, `ShortTasksNotStarved` | pass: 144 distinct states |
| `tick_preempt` | `MC_TickDispatch_Preempt.cfg` | `LongNeverOverShort` | violation: long handlers over short ones |
| `timer_init` | `MC_TimerInit.cfg` | `TickPeriodCorrect` | pass: 544 distinct states |
| `util_hex` | `MC_UtilHex.cfg` | `HexRendered` | pass: 32881 distinct states |
| `gpio` | `MC_Gpio.cfg` | `PortsFollowLastCalls`, `Io8Refinement` | pass: 6825 distinct states |
| `gpio_last_value` | `MC_Gpio_LastValue.cfg` | `OutputsMatchLastValue` | violation: stale output level |

The properties:

- **`HeldLineStable`**: while the main loop holds a line, no received
  character changes a byte of its row.
- **`LineQueueRefinement`**: the ring, read through the mapping below,
  implements the drop-newest `LineQueue`.
  - `QueuedLines` gives the C strings at the `rowcount` rows from `oldestrow`.
  - `PartialLine` gives the bytes written so far into the newest row.
  - The check covers:
    - clamping of overlong lines;
    - CRLF;
    - filtering;
    - a full ring.
- **`uart_recv_spec_full`** finds a behaviour where 3 lines are queued in the
  4-row ring, a 4th completes, and the ring drops it. `spec.md` says the oldest
  line is overwritten instead. This is recorded as a spec/code divergence. The
  comment in the code agrees with the code.

**Bounds.** The instance has 4 rows of 2 bytes and the characters `{a, b}`.
These bounds are enough to reach every case:

- a full ring, after 3 lines;
- wrap-around of both row indices;
- an overlong line, which needs 2 characters, so the clamp is exercised;
- a string that runs into the next row;
- every terminator sequence.

A larger instance adds no new branch.

The other components' properties:

- **`ReadyBeforePending`** (spec.md 8): every ready channel lies below every
  channel still waiting. **`ConversionsComplete`**: once a request marks its
  channels, the sequence ends with `ADC_idle` and nothing pending.
  **`ReadyDataStable`** is an action property: no step changes the stored
  sample of a channel that is ready before and after it. This is what
  `ADC_ReadPendingSample` relies on when it reads without a lock.
- **`SampleFresh`** is violated. `ADC_StartConversion` clears `ADC_idle` at
  `part_001:138` before `ADC_ReadFromChannel` starts the conversion. A
  housekeeping poll in between finds a sequence running and the converter
  quiet. It stores whatever the result register holds as the first marked
  channel's sample and marks it ready. In TLC's shortest trace, a request
  marks only channel 0, and the stored value is the register's content from
  before any conversion. Channel 0 was the only marked channel, so the poll
  then sets `ADC_idle` again. The conversion that `ADC_ReadFromChannel`
  starts next is never collected, and the main loop reads the stale value
  as this request's sample. This is recorded as a code bug.
- **`TickNestingBound`**: the interrupt stack is never more than two deep.
  **`FlagsTrackRegions`**: `in_isr` is set exactly while some nesting
  level is in the short-handler region, and `long_tasks_running` exactly
  while one is in the long-task region. A flag set with no region open
  would make every later tick skip its handlers.
  **`ShortTasksNotStarved`**: a tick taken while the dispatcher is quiet
  runs the short handlers, so neither flag stays set.
- **`LongNeverOverShort`** is violated. A tick arriving during the short
  handlers finds `in_isr` set and skips them. It finds
  `long_tasks_running` clear and runs the high-priority handlers on top of
  the interrupted short handlers. spec.md 4.6 says high-priority work does
  not preempt the tick path.
- **`TickPeriodCorrect`**: OCR1A, read back as 16 bits, is the largest
  ceiling `k` with `(k + 1) * rtc_hz <= mcu_hz`, or 0 when none fits. The
  interrupt is on exactly for a nonzero rate.
- **`PortsFollowLastCalls`** covers four things:
  - non-GPIO pins stay high-Z;
  - after a write that follows the last direction change, outputs drive the
    written bits;
  - after a pull-up call that follows it, inputs have exactly the pull-ups
    requested;
  - `IO8_ReadData` inverts the mapping.
- **`Io8Refinement`**: the driver, read through `Io8Dir` and `Io8Level`,
  implements `Io8Bank`. Each `IO8_*` call changes directions, levels and
  pull-ups exactly as the same call on one 8-bit register would.
- **`OutputsMatchLastValue`** is violated. `IO8_SelectOutputs` leaves
  PORTD/PORTB alone, so after `WriteData({0,3})`, `SelectOutputs` and
  `SetPullups` an output drives a level that `IO8_GetOutputValue` does not
  report.
- **`HexRendered`**: the digits come out most significant first, and no
  byte outside them is written.

Bounds:

- **Adc**: 3 channels and 3 requests. This reaches several requests in
  sequence, multi-channel masks and the race.
- **TickDispatch**: 5 compare matches, with the timestamp modulo 4 so that
  it wraps. Two nested ticks already reach the depth bound.
- **TimerInit**: 16 clock rates and 7 tick rates around 0, the exact
  quotient, and the 16-bit clamp.
- **Gpio**: 5 masks, including empty, full and masks that straddle the two
  ports.
- **UtilHex**: values up to `0x7fffffff`, which is TLC's integer limit, the
  digit counts 2, 4 and 8 of the callers, and their 16-byte buffer.

**Mutants.** Each property is broken by a plausible code bug:

| Property | Breaks when |
|---|---|
| `TypeOK` | the room test is `<=` |
| `HeldLineStable` | the ring is allowed to count `LineCount` complete rows |
| `LineQueueRefinement` | the terminator is not clamped |
| `ReadyBeforePending` | `ADC_ReInitBuffer` keeps the ready flags |
| `ConversionsComplete` | the stored channel keeps its mark |
| `ReadyDataStable` | the stored channel keeps its mark, so the next poll overwrites a ready sample |
| `TickNestingBound` | `DoUpdate_ISR` drops its `in_isr` test |
| `FlagsTrackRegions` | `in_isr` is not cleared after the short handlers |
| `ShortTasksNotStarved` | `in_isr` is not cleared after the short handlers |
| `TickPeriodCorrect` | the 16-bit clamp is missing |
| `HexRendered` | digits are written from the front |
| `PortsFollowLastCalls` | `IO8_WriteData` does not cut data to the outputs |
| `Io8Refinement` | `IO8_WriteData` does not cut data to the outputs, so inputs lose their pull-ups |

**Fairness.**

- `Adc`: the timer keeps calling `ADC_HousekeepingPoll`, the converter
  finishes every conversion it starts, and the main loop completes an
  `ADC_StartConversion` it has entered. Each of these is weakly fair. The
  application's own requests and reads are not forced.
- `TickDispatch`: a pending interrupt is taken, since interrupts are on
  whenever the model rests. The innermost handlers return, as the framework
  requires. Both are weakly fair. Main-loop calls are not forced.
- `MC_Adc` adds a `Settled` stutter once the request bound is reached, so
  that the bound is not reported as a deadlock.

## Proofs (TLAPS)

The proofs about the receive ring, in `UartRecvProofs` and `UartRecvRefinement`, use two assumptions:

- `LineCountAssumption`: `LineCount >= 2`;
- `LineSizeAssumption`: `LineSize >= 1`.

The power-of-two assumption is only needed for `&` to equal `%`, which the
model already uses.

- **`TypeCorrect`** proves `Spec => []TypeOK`. Every index the handler writes
  is in the array: lemmas `CellInRange` and `SlotsDisjoint` do the row
  arithmetic.
- **`HeldLineStableInvariant`** proves `Spec => []HeldLineStable`.
  `HeldLineStable` alone is not inductive. It is strengthened to `IInv`, which
  adds:
  - `RingConsistent`: `oldestrow + rowcount` is `newestrow`, modulo
    `LineCount`, written linearly as a two-element set;
  - `HoldsOldest`: the held row is the oldest, and `rowcount > 0`.

  The argument runs as follows:
  - From `RingConsistent` and `0 < rowcount <= LineCount - 1`, the row being
    filled is never the oldest (`FillingOtherRowArith`).
  - Every write of the ISR therefore lands outside the held row
    (`SlotsDisjoint`).
  - The advance keeps `RingConsistent` because the handler never lets
    `rowcount` reach `LineCount`.
  - `DoneWithLine` keeps it by the wrap lemma `RingStep`.

  TLC checked `IInv` as an invariant before it was proved.

`AdcProofs` uses `ChannelCountAssumption` (`ChannelCount >= 1`) and
`MaxRequestsAssumption`:

- **`TypeCorrect`** proves `Spec => []TypeOK`.
- **`ReadyBeforePendingInvariant`** proves `ReadyBeforePending` with `TypeOK`
  as its only strengthening:
  - a new request clears every ready flag;
  - the poll makes the least pending channel ready, which lies below the
    others left pending;
  - a read only clears a flag.

`TickDispatchProofs` proves **`TickNestingBoundInvariant`**, that is
`Spec => []TickNestingBound`, for every tick bound and timestamp width.

- `TickNestingBound` alone is not inductive. It is strengthened to `Shapes`:
  the stack is one of `<<>>`, `<<"short">>`, `<<"long">>`,
  `<<"long","short">>` and `<<"short","long">>`, and `in_isr` and
  `long_tasks_running` are set exactly while their regions are occupied.
- Each action maps one shape to another. This rests on the lemma
  `StackFacts`, which proves the `Append` and `Pop` facts on these literals
  through `SeqEqual`.

It also proves **`FlagsTrackRegionsInvariant`**, that is
`Spec => []FlagsTrackRegions`. In each of the five shapes the flags are
those of the regions on the stack; `StackRegions` gives membership in the
literal stacks, and the theorem follows by a case split on the shapes.

`AdcProofs` also proves **`ReadyDataStableHolds`**, that is
`Spec => ReadyDataStable`. The poll stores into the least pending channel
`c1`. By `ReadyBeforePending`, a channel that is ready after the step and
ready before it is not pending, so it is not `c1`. Every other step leaves
the samples alone (`DataQuiet`). The proof cites the two invariants through
`[]TypeOK /\ []ReadyBeforePending` and closes with PTL.

`TimerInitProofs` proves **`TickPeriodCorrectInvariant`**, that is
`Spec => []TickPeriodCorrect`, for any sets of clock rates in `Nat`
(`McuHzAssumption`, `RtcHzAssumption`). The argument runs as follows:

- `FitsQuotient`: `k + 1` ticks of `rtc_hz` fit in `mcu_hz` exactly when
  `k + 1 <= mcu_hz \div rtc_hz`.
- `ClocksPerTickClamp`: the code's decrement and clamp compute `Clamp(q)`
  from that quotient.
- `ClampFits` and `ClampUnique`: that value is the one ceiling that
  `BestCeiling`'s `CHOOSE` can pick (`ClocksPerTickBest`).
- `BytesRecombine`: the high and low bytes written to OCR1AH/OCR1AL
  recombine to it.
- The inductive invariant `TimerInv` adds the type and the range of the last
  arguments.

`GpioProofs` proves **`PortsFollowLastCallsInvariant`**, that is
`Spec => []PortsFollowLastCalls`, for every set of GPIO masks in
`SUBSET (0..7)` (`MasksAssumption`).

- The inductive invariant `GpioInv` adds two things:
  - the shadows `dirmask_*` and `data_*` equal the registers;
  - `PortContract`, the contract stated per port.
- `PartDMem` and `PartBMem` give the pin map: port D pin `p` carries IO8
  bit `p - 5`, and port B pin `p` carries bit `p + 3`.
- Each of `IO8_SelectOutputs`, `IO8_WriteData` and `IO8_SetPullups` keeps
  `GpioInv`.
- `GpioInvContract` turns the per-port contract into the per-bit
  statement. `ReadDataPins` shows that `IO8_ReadData` inverts the map.

`GpioProofs` also proves **`Io8RefinementHolds`**, that is
`Spec => Io8Refinement`: the driver implements `Io8Bank`.

- `PinD` and `PinB` state where IO8 bit `k` lives: bits 0..2 are port D
  pins `k + 5`, and bits 3..7 are port B pins `k - 3`. `PartD` and `PartB`
  put bit `k` of a byte at that pin.
- `WriteDataPorts` and `SetPullupsPorts` give each call's effect per pin:
  - `IO8_WriteData` sets output pins to the data and keeps input pins;
  - `IO8_SetPullups` does the reverse.
- `SelectOutputsRefines`, `WriteDataRefines` and `SetPullupsRefines` turn
  those effects, bit by bit, into the bank's set equations.
- `NextRefines` and `InitRefines` then give the refinement under `GpioInv`.

`UtilHexProofs` proves **`HexRenderedInvariant`**, that is
`Spec => []HexRendered`. It holds for every value in `Nat`, for every
digit count in `0..8` that fits the buffer, and for any buffer size.
These are the assumptions `DataAssumption` and `DigitsAssumption`, and the
code justifies them: `data` is a `uint32_t`, and the callers
`UART_PrintHex8/16/32` (`part_002`) pass 2, 4 or 8 digits into the
16-byte `scratchstr` (`INT_SCRATCH_CHARS`).

- The inductive invariant `HexInv` says four things:
  - in the loop, `bidx = digits - didx`;
  - while a digit is left, `data` is the argument divided by `16^didx`;
  - each byte from `bidx` on holds its digit of the reference rendering;
  - every other byte is what it was before the call.
- TLC checked `HexInv` on the `util_hex` instance before it was proved.
- The provers evaluate `16^k` only for a literal `k`. The lemma `Pow16`
  therefore splits the eight exponents that a `uint32_t` needs into cases.
  `ShiftStep` then gives `(d \div 16^k) \div 16 = d \div 16^(k+1)`, which is
  `data >>= 4`.

`UartRecvRefinement` proves **`LineQueueRefinementHolds`**, that is
`Spec => LineQueueRefinement`, for every ring and row size. The mapped queue
is built from `LineAt`, which reads up to the first NUL anywhere in the
array, so the proof needs more than `IInv`. It uses the inductive invariant
`RefInv == IInv /\ CompleteRows /\ PartialChars`:

- `CompleteRows`: every complete row holds a NUL inside itself, so its
  string depends on that row alone (`LineOfRow`, `RowFrame`);
- `PartialChars`: the newest row holds characters up to `recvcharptr`, so
  the string the end-of-line branch terminates is `Cut(PartialLine)`
  (`CutPartial`, `EndLineTerm`).

TLC checked `RefInv` as an invariant for (rows, row size) = (4, 2), (2, 3)
and (4, 1) before it was proved. The step lemmas map the code to the queue:

| Lemma | Code step | Queue step |
|---|---|---|
| `EndLineAdvanceRef` | end of line with room | append of the cut line |
| `EndLineFullRef` | end of line with a full ring | the line is dropped |
| `AddCharRef` | a character | `Append` to `partial` while it has room |
| `DoneWithLineRef` | `UART_DoneWithLine` | `Tail` |
| `RingFrame` | the other steps | no change to the queue |

The index arithmetic of the ring is in `RingMod`, `RingInjective` and
`RingNewest`. The sequence equalities use `AppendLit` and `TailLit`, which
rest on `SequenceTheorems`. `NextRef` combines the step lemmas, and the
theorem closes with PTL.

Only TLC checks these:

- **`SpecLineQueueRefinement`**, `SampleFresh`, `LongNeverOverShort` and
  `OutputsMatchLastValue`: these are violated, and TLC gives the
  counterexamples.
- **The liveness properties** `ConversionsComplete` and
  `ShortTasksNotStarved`. They need fairness and `ENABLED`, which TLAPS
  cannot handle here.
- The invariants already proved hold for every size. TLC only adds that the
  small instances reach their interesting states.

## Not modelled yet, and the plan

1. **Transmit side and report queue** (`part_002`, `part_012`): the single
   transmit buffer, `WaitForSendDone`, and the report queue's
   `transmit_running` retirement. `ReInitState` clears report slots while a
   transmission may still read one.
2. **Emulated atomic sections** (`part_010`): mutual exclusion and no
   self-deadlock of the reentrant lock. This is a workstation-only layer.
3. **Command parser**: a pure state machine, to be checked against a
   reference grammar.

Not modelled, and why:

- `MCU_GetFreeMemory` reads the stack pointer.
- The IO16 functions do nothing on the 328P.
- `Timer_Query`, `Timer_Query_ISR`, `ADC_IsDataReady` and `ADC_WaitForData`
  only read state.
- The 2560 and workstation variants of the drivers.
- Received NUL bytes: the UART model's inputs are ordinary characters, CR
  and LF.
