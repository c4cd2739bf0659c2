-------------------------------- MODULE Io8Bank --------------------------------
(***************************************************************************)
(* The 8-bit digital I/O bank as the header presents it (neuravr.h, the    *)
(* IO8 functions): eight lines, each an input or an output; an output      *)
(* drives a level and an input has a pull-up or floats, and one bit per    *)
(* line holds that level or pull-up.  How the lines are spread over the    *)
(* ports of a part is invisible here.                                      *)
(***************************************************************************)
EXTENDS Naturals

CONSTANT Masks   \* the argument bytes, as sets of line numbers

VARIABLES
  dir,     \* the lines configured as outputs
  level,   \* per line: the level driven (outputs) or the pull-up (inputs)
  last     \* the last value written

vars == <<dir, level, last>>

Lines == 0..7

Init == dir = {} /\ level = {} /\ last = {}

(* "1 = output, 0 = input."  The header leaves the levels to the calls    *)
(* that follow; they stay as they were.                                    *)
SelectOutputs(m) ==
  /\ dir' = m
  /\ UNCHANGED <<level, last>>

(* "Only configured outputs are asserted."                                 *)
WriteData(v) ==
  /\ level' = (level \ dir) \cup (v \cap dir)
  /\ last' = v
  /\ UNCHANGED dir

(* "Only configured inputs have pull-ups."                                 *)
SetPullups(v) ==
  /\ level' = (level \cap dir) \cup (v \ dir)
  /\ UNCHANGED <<dir, last>>

(* "Pins configured as outputs read as 0"; an input reads its pull-up     *)
(* when nothing else drives the line.                                      *)
ReadData == {k \in Lines \ dir : k \in level}

Next ==
  \E m \in Masks :
    \/ SelectOutputs(m)
    \/ WriteData(m)
    \/ SetPullups(m)

Spec == Init /\ [][Next]_vars

=============================================================================
