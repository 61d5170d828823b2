----------------------------- MODULE SpineMove ------------------------------
(***************************************************************************)
(* The moving spines of level 2: spine_move.sv, clock by clock, with the   *)
(* two bits of the word at 0x90 that drive it and the program that writes  *)
(* them.  Clk and the Nios are one clock domain; a Clock step is one       *)
(* rising edge, and the program acts between two edges.                    *)
(***************************************************************************)
EXTENDS SpineLaw

CONSTANTS
  Ticks,     \* the counter value at which the spines move on (150000)
  LastX,     \* the position at which they stop (SPINE_LAST)
  MinHold,   \* least clocks between a draw and the next poll's read
  Horizon    \* since stops counting here

ASSUME SpineMoveAssumption ==
  /\ Ticks \in Nat /\ LastX \in SPINE_FIRST .. SPINE_LAST
  /\ MinHold \in Nat /\ MinHold >= 2
  /\ Horizon \in Nat /\ Horizon > MinHold

VARIABLES
  State, spine_posx, counter,  \* the registers of the module
  word,                        \* the level2_active field of the word at 0x90
  since,                       \* clocks since that field last changed
  cpu,                         \* what the program does next: "draw" or "poll"
  seen                         \* the position its last poll read

vars == <<State, spine_posx, counter, word, since, cpu, seen>>

-----------------------------------------------------------------------------
(* The always_comb block: the next value of each register.                 *)

\* Slips: stopping a pixel early, and leaving Done.
Next_State_early ==
  CASE State = "Wait"  -> IF Trigger(word) THEN "Start" ELSE "Wait"
    [] State = "Start" -> "Move"
    [] State = "Move"  -> IF spine_posx = LastX - 1 THEN "Done" ELSE "Move"
    [] State = "Done"  -> "Done"
Next_State_again ==
  CASE State = "Wait"  -> IF Trigger(word) THEN "Start" ELSE "Wait"
    [] State = "Start" -> "Move"
    [] State = "Move"  -> IF spine_posx = LastX THEN "Done" ELSE "Move"
    [] State = "Done"  -> "Wait"

Next_State ==
  CASE State = "Wait"  -> IF Trigger(word) THEN "Start" ELSE "Wait"
    [] State = "Start" -> "Move"
    [] State = "Move"  -> IF spine_posx = LastX THEN "Done" ELSE "Move"
    [] State = "Done"  -> "Done"

Advancing == State = "Move" /\ spine_posx # LastX

\* A slip: Wait keeps the spines where they are.
spine_posx_next_kept ==
  CASE State = "Start" -> SPINE_FIRST
    [] Advancing /\ counter = Ticks -> spine_posx + 1
    [] OTHER -> spine_posx

spine_posx_next ==
  CASE State = "Wait"  -> 0
    [] State = "Start" -> SPINE_FIRST
    [] Advancing       -> IF counter = Ticks THEN (spine_posx + 1) % 1024 ELSE spine_posx
    [] OTHER           -> spine_posx

\* A slip: a new start does not reset the counter.
counter_next_kept ==
  IF Advancing THEN IF counter = Ticks THEN 0 ELSE counter + 1 ELSE counter

counter_next ==
  CASE State \in {"Wait", "Start"} -> 0
    [] Advancing -> IF counter = Ticks THEN 0 ELSE counter + 1
    [] OTHER     -> counter

\* The always_ff block: Reset acts on State only.
Clock ==
  /\ State' = IF ResetSpines(word) THEN "Wait" ELSE Next_State
  /\ spine_posx' = spine_posx_next
  /\ counter' = counter_next
  /\ since' = IF since < Horizon THEN since + 1 ELSE since
  /\ UNCHANGED <<word, cpu, seen>>

-----------------------------------------------------------------------------
(* The program: draw_screen writes the word, the next poll reads.          *)

Draw(w) ==
  /\ cpu = "draw" /\ (word = 0 => w = 2)
  /\ word' = w
  /\ since' = IF w = word THEN since ELSE 0
  /\ cpu' = "poll"
  /\ UNCHANGED <<State, spine_posx, counter, seen>>

\* get_keycode sleeps more than 10 ms between the two.
Poll ==
  /\ cpu = "poll" /\ since >= MinHold
  /\ seen' = spine_posx
  /\ cpu' = "draw"
  /\ UNCHANGED <<State, spine_posx, counter, word, since>>

\* The encoding of Start is 0, the value registers power up with.
Init ==
  /\ State = "Start" /\ spine_posx = 0 /\ counter = 0
  /\ word = 0 /\ since = 0
  /\ cpu = "poll" /\ seen = 0

Next == Clock \/ Poll \/ \E w \in {1, 2} : Draw(w)

\* The clock never stops.
Spec == Init /\ [][Next]_vars /\ WF_vars(Clock)

-----------------------------------------------------------------------------
(* Properties.                                                             *)

TypeOK ==
  /\ State \in {"Start", "Move", "Wait", "Done"}
  /\ spine_posx \in 0 .. LastX /\ counter \in 0 .. Ticks
  /\ word \in 0 .. 2 /\ since \in 0 .. Horizon
  /\ cpu \in {"draw", "poll"} /\ seen \in 0 .. LastX

\* Clocks from the first position of the spines to position x.
ClocksTo(x) == (x - SPINE_FIRST) * (Ticks + 1)

\* Two clocks after the trigger the spines stand at their first position, and
\* from there they advance one pixel every Ticks + 1 clocks until they stop:
\* neither a reset in mid-flight nor a spell in Done disturbs the pace.
Pace ==
  word = 1 /\ 2 <= since /\ since < Horizon =>
    /\ ClocksTo(spine_posx) <= since - 2
    /\ spine_posx # LastX => since - 2 < ClocksTo(spine_posx + 1)

\* A reset that comes in any state has withdrawn the spines after two clocks.
Withdrawn == word = 2 /\ since >= 2 => State = "Wait" /\ spine_posx = 0

\* Once set off the spines get to the end, unless a new life withdraws them.
ReachTheEnd == word = 1 ~> (spine_posx = LastX \/ word = 2)

\* The program sees the spines move as SpineLaw says, the law Game is built on.
Seen == INSTANCE SpinePoll WITH Stops <- 0 .. LastX
KeepsSpineLaw == Seen!Spec
=============================================================================
