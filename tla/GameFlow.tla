------------------------------ MODULE GameFlow ------------------------------
(***************************************************************************)
(* What the game promises its player, without the physics: which screen    *)
(* may follow which, where a failed life is tried again, and when the      *)
(* moving spines of level 2 are out.  The labels and gotos of main.c are   *)
(* an implementation of it (RefinesFlow in Game.tla).                      *)
(***************************************************************************)
EXTENDS Naturals

VARIABLES
  stage,   \* "level0" the start screen, "play", "wait" game over, "level3" success
  place,   \* the level on the screen; in "wait", the level that R begins
  spines   \* "in" or "out"

flow == <<stage, place, spines>>

Init == stage = "level0" /\ place = 0 /\ spines = "in"

\* A life begins in level 1 from the start screen, or where the last failed.
Begin == /\ \/ stage = "level0" /\ place' = 1
            \/ stage = "wait" /\ place' = place
         /\ stage' = "play" /\ spines' = "in"

\* Level 1 and level 2 are next to each other; the spines stay as they are.
Cross == /\ stage = "play" /\ place \in {1, 2}
         /\ place' = 3 - place
         /\ UNCHANGED <<stage, spines>>

\* The spines come out in level 2 only, and never go back in by themselves.
Release == /\ stage = "play" /\ place = 2
           /\ spines' = "out"
           /\ UNCHANGED <<stage, place>>

\* A life that fails in a level is tried again there, or in level 1.
Fail == /\ stage = "play" /\ stage' = "wait"
        /\ place' \in {1, place}
        /\ \/ spines' = spines
           \/ place = 2 /\ spines' = "out"

Quit == /\ stage = "play"
        /\ stage' = "level0" /\ place' = 0 /\ spines' = "in"

\* Success is behind level 2, and leads back to the start screen.
Succeed == /\ stage = "play" /\ place = 2
           /\ stage' = "level3" /\ place' = 3 /\ spines' = "in"

Finish == /\ stage = "level3"
          /\ stage' = "level0" /\ place' = 0 /\ spines' = "in"

Next == Begin \/ Cross \/ Release \/ Fail \/ Quit \/ Succeed \/ Finish

Spec == Init /\ [][Next]_flow
=============================================================================
