------------------------------- MODULE Raster -------------------------------
(***************************************************************************)
(* What a monitor is promised: the positions of a frame one after the      *)
(* other, line by line, each with the sync and blanking signals of the     *)
(* position that follows it, for ever, until a reset begins a new frame.   *)
(***************************************************************************)
EXTENDS Integers

CONSTANTS H_TOTAL, V_TOTAL

VARIABLES
  shown,    \* the position whose colour is shown
  signals   \* the blanking and sync signals that come with it

rvars == <<shown, signals>>

Follower(p) ==
  IF p[1] = H_TOTAL - 1 THEN <<0, IF p[2] = V_TOTAL - 1 THEN 0 ELSE p[2] + 1>>
  ELSE <<p[1] + 1, p[2]>>

Dark == [on |-> FALSE, hs |-> FALSE, vs |-> FALSE]

\* The signals for a position: 640 by 480 are visible, the pulses are low.
SignalsAt(p) == [on |-> p[1] < 640 /\ p[2] < 480,
                 hs |-> p[1] \notin 656 .. 751,
                 vs |-> p[2] \notin 490 .. 491]

Init == shown = <<0, 0>> /\ signals = Dark

Advance == shown' = Follower(shown) /\ signals' = SignalsAt(Follower(shown'))

\* A reset cuts the frame with a dark pixel, and the next one begins with its
\* first position, dark for as long as the button is held.
Cut     == shown' = Follower(shown) /\ signals' = Dark
Restart == /\ signals = Dark
           /\ shown' = <<0, 0>>
           /\ signals' \in {Dark, SignalsAt(Follower(shown'))}

Next == Advance \/ Cut \/ Restart

Spec == Init /\ [][Next]_rvars
=============================================================================
