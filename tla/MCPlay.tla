------------------------------- MODULE MCPlay -------------------------------
(***************************************************************************)
(* Game on a recorded play.  With the jumps the game has too many states   *)
(* to visit with every key free, and the interesting places (level 2, the  *)
(* trigger of the spines, the success screen) are dozens of right moves    *)
(* away.  A scenario is a recorded play that the player follows for prefix *)
(* frames, in which he may err a number of times with a key of slip, and   *)
(* after which he presses any key of free; past the map may lie what the   *)
(* scenario's builds say.                                                  *)
(***************************************************************************)
EXTENDS MCGame, Sequences

CONSTANT Scenarios

VARIABLES scene, step, slips

A == KEYBOARD_A
D == KEYBOARD_D
W == KEYBOARD_W
N == NO_KEY

\* From the start screen to the success screen; level 2 begins after key 9,
\* the spines are set off at key 74.
Winning == <<N, KEYBOARD_ENTER,
  A, A, A, W, W, A, A, A, A, A, A, A, A, W, A, A, A, W, W, W, N, N, N, D,
  A, W, W, N, N, N, N, N, A, A, A, W, N, W, N, N, A, A, A, A, A, A, A, A,
  A, A, A, A, A, A, A, W, A, A, A, A, A, A, A, A, A, A, A, A, A, A, A, A,
  D, D, N, D, A, A, D, D, D, D, D, D, D, D, D, D, D, D, D, D, D, A, A, A,
  A, A, A, A, A, A, A, A, A, A, D, W, A, A, A, A, A, A, A, A, A, A, A, A,
  A>>

\* Onto the first hill of level 1, between its first two pits.
Hill == <<N, KEYBOARD_ENTER, W, D, D, N, D, N, N>>

\* Over the pits and onto the spike of level 1.
Spike == Hill \o <<W, N, D, N, D, N, D, W, D, N, D, N, D, D, D, D, W>>

Scene(play, prefix, errors, slip, free, builds) ==
  [play |-> play, prefix |-> prefix, errors |-> errors, slip |-> slip, free |-> free,
   builds |-> builds]

PlayInit == /\ scene \in Scenarios /\ step = 1 /\ slips = 0
            /\ Init /\ beyond \in scene.builds

Follows == /\ step <= scene.prefix
           /\ Poll(scene.play[step])
           /\ step' = step + 1 /\ UNCHANGED <<scene, slips>>

Slips == /\ step <= scene.prefix /\ slips < scene.errors
         /\ \E k \in scene.slip \ {scene.play[step]} : Poll(k)
         /\ step' = step + 1 /\ slips' = slips + 1 /\ UNCHANGED scene

PlaysOn == /\ step > scene.prefix
           /\ \E k \in scene.free : Poll(k)
           /\ UNCHANGED <<scene, step, slips>>

PlayNext == (Follows \/ Slips \/ PlaysOn) /\ beyond' \in scene.builds
PlayVars == <<vars, scene, step, slips>>
PlaySpec == PlayInit /\ [][PlayNext]_PlayVars /\ WF_PlayVars(PlayNext)

\* The whole game with errors and the screens after it; the way over the pits
\* of level 1 with an error; the crossing of the two levels with the directions
\* free; and between the pits with the directions free and anything past the map.
AfterGame == {N, KEYBOARD_R, KEYBOARD_ENTER}
WholeGame == {Scene(Winning, 123, 2, {W, N, KEYBOARD_R}, AfterGame, OneBuild),
              Scene(Winning, 123, 1, {D}, AfterGame, OneBuild),
              Scene(Spike, 26, 1, {W, D, N, KEYBOARD_ESC}, AfterGame, AnyCells),
              Scene(Winning, 9, 0, {}, {A, D}, OneBuild),
              Scene(Hill, 9, 0, {}, {A, D, N}, AnyCells)}
Release   == {Scene(Winning, 9, 0, {}, {D, N}, OneBuild),
              Scene(Winning, 0, 0, {}, HeldKeys \ {D}, OneBuild)}
LowExit   == {Scene(Winning, 5, 0, {}, {A, D, W}, OneBuild)}
=============================================================================
