------------------------------ MODULE SpineLaw ------------------------------
(***************************************************************************)
(* What a program that draws a frame, waits and then reads the position of *)
(* the moving spines may rely on.  Game uses it as its model of the        *)
(* hardware; SpineMove, the hardware, is shown to keep it.                 *)
(***************************************************************************)
EXTENDS Integers

SPINE_FIRST == 20      \* BRICK of spine_move.sv: where the spines appear
SPINE_LAST  == 460     \* where they stop

\* Bits 21 and 22 of the word at 0x90, as fields of its level2_active.
Trigger(active)     == active % 2 = 1
ResetSpines(active) == (active \div 2) % 2 = 1

\* The positions, out of stops, that may be read next after the position
\* spine and a drawn word with the field active.
SpineAfter(active, spine, stops) ==
  IF ResetSpines(active)  THEN stops \cap {0}
  ELSE IF Trigger(active) THEN {s \in stops : SPINE_FIRST <= s /\ spine <= s}
  ELSE stops
=============================================================================
