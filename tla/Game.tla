-------------------------------- MODULE Game --------------------------------
(***************************************************************************)
(* The program: main() of main.c with handle_level and draw_screen, the    *)
(* keyboard it polls and the moving spines it drives.                      *)
(*                                                                         *)
(* One action is one round of a loop of main: get_keycode, everything the  *)
(* program does with the key, up to the next call of get_keycode.  The     *)
(* hardware moves the spines while get_keycode waits, more than 10 ms; the *)
(* code between two polls is over long before they move by a pixel.        *)
(***************************************************************************)
EXTENDS MarioMove, SpineLaw

CONSTANTS
  Keys,         \* what get_keycode may return: 16 bits, the first key in the low byte
  SpineStops,   \* positions at which the program may find the moving spines
  Beyond        \* sets of indices past level_block_info that may read as 1

KEYCODE_UPPER == 65535

ASSUME KeysAssumption   == Keys \subseteq 0 .. KEYCODE_UPPER
ASSUME SpineAssumption  == SpineStops \subseteq 0 .. SPINE_LAST /\ {0, SPINE_LAST} \subseteq SpineStops
ASSUME BeyondAssumption == Beyond \subseteq SUBSET BeyondArray /\ Beyond # {}

VARIABLES
  pc,           \* the loop main is in: level 0, a level's game loop, a wait for R, level 3
  level,        \* main's level
  retry,        \* the level whose label the wait for R jumps to
  mario,        \* mario_move
  keycode_curr, \* the key of the last game frame (uninitialised before the first)
  loaded,       \* the level whose maps level_*_info_init loaded last
  beyond,       \* the indices past the map that read as 1
  screen,       \* the fields of the word draw_screen wrote last at 0x90
  key,          \* what the keyboard last returned
  spine         \* the position of the spines, as the PIO at 0x80 shows it

vars == <<pc, level, retry, mario, keycode_curr, loaded, beyond, screen, key, spine>>

Blocks == level_block_info_init[loaded] \cup beyond
Spikes == level_spike_info_init[loaded]

-----------------------------------------------------------------------------
(* draw_screen: every field is masked to its bits of the word.             *)

Misdrawn(bg_idx, lv, m, x_bits, active_bits, level_bits) ==
  [pos_y         |-> m.pos_y_curr % 1024,
   pos_x         |-> m.pos_x_curr % x_bits,
   dead          |-> 1 - m.alive,
   level2_active |-> m.level2_active % active_bits,
   level         |-> lv % level_bits,
   idx           |-> m.idx % 8,
   bg_idx        |-> bg_idx % 4]

\* Slips: masks that are too narrow.
draw_screen_x9(bg_idx, lv, m)     == Misdrawn(bg_idx, lv, m, 512, 8, 8)
draw_screen_spine1(bg_idx, lv, m) == Misdrawn(bg_idx, lv, m, 1024, 2, 8)
draw_screen_level1(bg_idx, lv, m) == Misdrawn(bg_idx, lv, m, 1024, 8, 2)

draw_screen(bg_idx, lv, m) ==
  [pos_y         |-> m.pos_y_curr % 1024,
   pos_x         |-> m.pos_x_curr % 1024,
   dead          |-> (MARIO_ALIVE - m.alive) % 2,
   level2_active |-> m.level2_active % 8,
   level         |-> lv % 8,
   idx           |-> m.idx % 8,
   bg_idx        |-> bg_idx % 4]

\* Where the spines may be at the next poll.
SpinesMove == SpineAfter(screen.level2_active, spine, SpineStops)

-----------------------------------------------------------------------------
(* Beginning a life, and changing level in the middle of one.              *)

\* level_block_info_init and level_spike_info_init.
Load(lv) == loaded' = lv /\ beyond' \in Beyond

\* LEVEL1 and LEVEL2: the first fall of a life uses the maps of the level
\* that came before; they are loaded after it has been drawn.
BeginLevel(lv) ==
  /\ pc' = "play" /\ level' = lv
  /\ mario' \in handle_keycode(mario_move_init(mario, lv), Blocks, KEYBOARD_NONE)
  /\ screen' = draw_screen(0, lv, mario')
  /\ Load(lv)
  /\ UNCHANGED <<retry, keycode_curr>>

\* LEVEL0: nothing is drawn before the first poll.
BeginLevel0(m) ==
  /\ pc' = "level0" /\ level' = 0
  /\ mario' = mario_move_init(m, 0)
  /\ Load(0)

-----------------------------------------------------------------------------
(* handle_level.                                                           *)

Died(m) == [m EXCEPT !.alive = 0]

LV1_RIGHT(m) == m.pos_x_curr + MARIO_X > 635
LV1_LEFT(m)  == m.pos_x_curr < 5
PitLevel2(m) == /\ m.pos_x_curr > 26 * BLOCK_WIDTH
                /\ m.pos_y_curr + MARIO_Y > MARIO_UPPER_LIMIT

Killed(m, lv, spikes, spine_x) ==
  \/ is_spike(spikes, m.pos_x_curr, m.pos_y_curr, lv, spine_x)
  \/ out_screen(m.pos_x_curr, m.pos_y_curr)

\* On the ledge at the upper left of level 2 Mario sets the spines off.
OnTrigger(m) == /\ m.pos_x_curr + MARIO_X < 5 * BLOCK_WIDTH
                /\ m.pos_y_curr + MARIO_Y < 8 * BLOCK_WIDTH
                /\ m.pos_y_curr + MARIO_Y > 7 * BLOCK_WIDTH
Triggered(m, lv) ==
  IF lv = 2 /\ OnTrigger(m) THEN [m EXCEPT !.level2_active = ACTIVE_LEVEL2] ELSE m

\* The level's edges come first, then the spikes and the screen's.
handle_level(m, lv, spikes, spine_x) ==
  CASE lv = 1 /\ LV1_RIGHT(m) -> [flag |-> "LEVEL_RESTART", mario |-> Died(m)]
    [] lv = 1 /\ ~LV1_RIGHT(m) /\ LV1_LEFT(m) ->
         [flag  |-> "LEVEL_SWITCH",
          mario |-> [m EXCEPT !.pos_x_curr = X_UPPER - 2 * MARIO_X,
                              !.pos_y_curr = IF m.pos_y_curr > 16 * BLOCK_WIDTH
                                             THEN 18 * BLOCK_WIDTH
                                             ELSE 14 * BLOCK_WIDTH]]
    [] lv = 2 /\ PitLevel2(m) -> [flag |-> "LEVEL_BEFORE", mario |-> Died(m)]
    [] lv = 2 /\ ~PitLevel2(m) /\ LV1_RIGHT(m) ->
         [flag |-> "LEVEL_SWITCH", mario |-> [m EXCEPT !.pos_x_curr = MARIO_X]]
    [] lv = 2 /\ ~PitLevel2(m) /\ ~LV1_RIGHT(m) /\ LV1_LEFT(m) ->
         IF m.pos_y_curr < 13 * BLOCK_WIDTH
         THEN [flag |-> "LEVEL_RESTART", mario |-> Died(m)]
         ELSE [flag |-> "LEVEL_NEXT", mario |-> m]
    [] OTHER ->
         IF Killed(m, lv, spikes, spine_x)
         THEN [flag |-> "LEVEL_RESTART", mario |-> Died(Triggered(m, lv))]
         ELSE [flag |-> "LEVEL_CURR", mario |-> Triggered(m, lv)]

-----------------------------------------------------------------------------
(* The loops of main.                                                      *)

\* LEVEL0, while the key is not ENTER: Mario swings his legs.
Level0Waits(k) ==
  /\ pc = "level0" /\ k # KEYBOARD_ENTER
  /\ mario' = [mario EXCEPT !.idx = (STAND_LEFT + RUN_LEFT) - @]
  /\ screen' = draw_screen(0, level, mario')
  /\ UNCHANGED <<pc, level, retry, keycode_curr, loaded, beyond>>

Level0Starts(k) ==
  /\ pc = "level0" /\ k = KEYBOARD_ENTER
  /\ BeginLevel(1)

\* A slip: no look at the last key.
GameKey_again(k, last) == k

\* An R that is still held from the last frame is no new R.  Both polls are
\* compared as 16 bits, handle_keycode then looks at the low byte.
GameKey(k, last) ==
  IF k = KEYBOARD_R /\ k = last THEN KEYBOARD_NONE ELSE k

\* A slip: main waits for a restart, but not after a death.
WaitForR_runs_on(lv) == pc' = (IF screen'.dead = 1 THEN pc ELSE "wait") /\ retry' = lv

WaitForR(lv) == pc' = "wait" /\ retry' = lv

FrameRestart(k) ==
  /\ pc = "play" /\ Low(GameKey(k, keycode_curr)) = KEYBOARD_R
  /\ keycode_curr' = k
  /\ screen' = draw_screen(0, level, mario)
  /\ WaitForR(level)
  /\ UNCHANGED <<level, mario, loaded, beyond>>

FrameEscape(k) ==
  /\ pc = "play" /\ Low(k) = KEYBOARD_ESC
  /\ keycode_curr' = k
  /\ screen' = draw_screen(0, level, mario)
  /\ BeginLevel0(mario)
  /\ UNCHANGED retry

\* What follows LEVEL_SWITCH is drawn only by the next frame, in its level.
Outcome(moved, lev) ==
  CASE lev.flag = "LEVEL_CURR" ->
         /\ mario' = lev.mario
         /\ screen' = draw_screen(0, level, mario')
         /\ UNCHANGED <<pc, level, retry, loaded, beyond>>
    [] lev.flag = "LEVEL_RESTART" ->
         /\ mario' = lev.mario
         /\ screen' = draw_screen(0, level, mario')
         /\ WaitForR(level)
         /\ UNCHANGED <<level, loaded, beyond>>
    [] lev.flag = "LEVEL_BEFORE" ->
         /\ mario' = lev.mario
         /\ screen' = draw_screen(0, level, mario')
         /\ WaitForR(1)
         /\ UNCHANGED <<level, loaded, beyond>>
    [] lev.flag = "LEVEL_SWITCH" ->
         /\ mario' = lev.mario
         /\ screen' = draw_screen(0, level, moved)
         /\ level' = 3 - level
         /\ Load(3 - level)
         /\ UNCHANGED <<pc, retry>>
    [] lev.flag = "LEVEL_NEXT" ->
         /\ mario' = mario_move_init(lev.mario, 3)
         /\ screen' = draw_screen(1, 3, mario')
         /\ pc' = "level3" /\ level' = 3
         /\ UNCHANGED <<retry, loaded, beyond>>

FrameMoves(k) ==
  /\ pc = "play" /\ Low(GameKey(k, keycode_curr)) \notin {KEYBOARD_R, KEYBOARD_ESC}
  /\ keycode_curr' = k
  /\ \E moved \in handle_keycode(mario, Blocks, GameKey(k, keycode_curr)) :
        \E lev \in {handle_level(moved, level, Spikes, spine')} : Outcome(moved, lev)

\* Waiting for exactly R: keycode_curr is left alone.
WaitGoesOn(k) ==
  /\ pc = "wait" /\ k # KEYBOARD_R
  /\ UNCHANGED <<pc, level, retry, mario, keycode_curr, loaded, beyond, screen>>

WaitEnds(k) ==
  /\ pc = "wait" /\ k = KEYBOARD_R
  /\ BeginLevel(retry)

Level3Waits(k) ==
  /\ pc = "level3" /\ k # KEYBOARD_ENTER
  /\ UNCHANGED <<pc, level, retry, mario, keycode_curr, loaded, beyond, screen>>

Level3Ends(k) ==
  /\ pc = "level3" /\ k = KEYBOARD_ENTER
  /\ BeginLevel0(mario)
  /\ UNCHANGED <<retry, keycode_curr, screen>>

Poll(k) ==
  /\ key' = k
  /\ spine' \in SpinesMove
  /\ \/ Level0Waits(k) \/ Level0Starts(k)
     \/ FrameRestart(k) \/ FrameEscape(k) \/ FrameMoves(k)
     \/ WaitGoesOn(k) \/ WaitEnds(k)
     \/ Level3Waits(k) \/ Level3Ends(k)

-----------------------------------------------------------------------------
NoMario == [pos_x_curr |-> 0, pos_y_curr |-> 0, idx |-> 0, alive |-> 0,
            jump_ct |-> 0, dir_ct |-> 0, speed_x_curr |-> 0,
            speed_y_curr |-> 0, level2_active |-> 0]

\* After keyboard_init.  keycode_curr holds what was on the stack: only
\* whether that equals R matters.  The word at 0x90 is still 0 and the
\* spines, which power up moving, may be anywhere.
Init ==
  /\ pc = "level0" /\ level = 0 /\ retry = 1
  /\ mario = mario_move_init(NoMario, 0)
  /\ keycode_curr \in {NO_KEY, KEYBOARD_R}
  /\ loaded = 0 /\ beyond \in Beyond
  /\ screen = [pos_y |-> 0, pos_x |-> 0, dead |-> 0, level2_active |-> 0,
               level |-> 0, idx |-> 0, bg_idx |-> 0]
  /\ key = NO_KEY
  /\ spine \in SpineStops

Next == \E k \in Keys : Poll(k)

\* Every path of main leads back to get_keycode, and a keyboard that stays
\* plugged in lets it return.
Spec == Init /\ [][Next]_vars /\ WF_vars(Next)
-----------------------------------------------------------------------------
(* Properties.                                                             *)

Mario ==
  [pos_x_curr : 0 .. X_UPPER - MARIO_X, pos_y_curr : 0 .. Y_UPPER - MARIO_Y,
   idx : 0 .. 5, alive : {0, 1},
   jump_ct : 0 .. JUMP_LIMIT, dir_ct : 0 .. DIR_LIMIT,
   speed_x_curr : -MARIO_X_SPEED_UPPER .. MARIO_X_SPEED_UPPER,
   speed_y_curr : Int, level2_active : {ACTIVE_LEVEL2, RESET_LEVEL2}]

Screen == [pos_y : 0 .. 1023, pos_x : 0 .. 1023, dead : {0, 1},
           level2_active : 0 .. 7, level : 0 .. 7, idx : 0 .. 7, bg_idx : 0 .. 3]

\* Every field keeps to its range; Mario's corner never leaves the screen,
\* so the 10-bit fields of draw_screen and the 16-bit keys lose nothing.
TypeOK ==
  /\ pc \in {"level0", "play", "wait", "level3"}
  /\ level \in 0 .. 3 /\ retry \in {1, 2} /\ loaded \in 0 .. 2
  /\ mario \in Mario
  /\ keycode_curr \in Keys \cup {NO_KEY, KEYBOARD_R}
  /\ key \in Keys \cup {NO_KEY}
  /\ beyond \in Beyond /\ spine \in SpineStops
  /\ screen \in Screen

\* A dead Mario is never played: main is waiting for R, and the picture it
\* left on the screen has the bit set that brings up the death message.
DeathShown ==
  mario.alive = 0 => pc = "wait" /\ screen.dead = 1

\* The picture is never of one level with a position of another: once a
\* frame has been drawn in main's level it shows Mario exactly as he is.
FaithfulPicture ==
  pc # "level0" /\ screen.level = level =>
    /\ screen.pos_x = mario.pos_x_curr /\ screen.pos_y = mario.pos_y_curr
    /\ screen.dead = 1 - mario.alive /\ screen.idx = mario.idx
    /\ screen.level2_active = mario.level2_active

\* The picture of the level just left (LEVEL_SWITCH jumps past draw_screen)
\* lasts one frame.
StalePictureLastsOneFrame ==
  [][pc = "play" /\ screen.level # level => screen'.level \in {level, level'}]_vars

\* The two counters of handle_keycode move together: each jump is also one
\* of the four direction keys, in every order of jumps, bumps and landings.
JumpBudget == mario.jump_ct <= mario.dir_ct

\* Mario gains upward speed in a frame only by a W that both counters allow.
NoFreeAscent ==
  [][pc = "play" /\ pc' = "play"
       /\ mario'.speed_y_curr < mario.speed_y_curr /\ mario'.speed_y_curr < 0
     => /\ Low(key') = KEYBOARD_W
        /\ mario.jump_ct < JUMP_LIMIT /\ mario.dir_ct < DIR_LIMIT]_vars

MarioFree == can_move(Blocks, mario.pos_x_curr, mario.pos_y_curr)

\* As long as he stays in a level, no key at any speed takes a free Mario
\* into a block or off the screen.
NoWallEntry ==
  [][pc = "play" /\ level' = level /\ MarioFree => MarioFree']_vars

\* A life begins out of the walls, off the spikes and away from the spines'
\* trigger, although its first fall is computed on the map of the level
\* before.
LifeStartsSafe ==
  [][pc # "play" /\ pc' = "play" =>
       /\ MarioFree'
       /\ ~Killed(mario', level', Spikes', 0)
       /\ ~OnTrigger(mario') /\ mario'.level2_active = RESET_LEVEL2]_vars

\* The program never meets the moving spines before Mario has set them off
\* in this life, whatever they did in the last one or before the reset.
SpinesHeldBack ==
  [][pc = "play" /\ mario.level2_active = RESET_LEVEL2 => spine' = 0]_vars

\* is_block reads past the end of the map when Mario is at the bottom of the
\* screen.  What it finds there never decides a frame that he survives.
OverrunHarmless ==
  [][pc = "play" /\ pc' = "play" =>
       Low(GameKey(key', keycode_curr)) # KEYBOARD_R /\
       \E moved \in handle_keycode(mario, level_block_info_init[loaded],
                                   GameKey(key', keycode_curr)) :
          mario' = handle_level(moved, level, Spikes, spine').mario]_vars

\* README: the keyboard "allows users to control the movement of Mario": when
\* he stands still with all his moves left, some key moves him.
Controllable ==
  pc = "play" /\ mario.speed_x_curr = 0 /\ mario.speed_y_curr = 0 /\ mario.dir_ct = 0 =>
    \E k \in DirectionKeys : \E moved \in handle_keycode(mario, Blocks, k) :
       \/ moved.pos_x_curr # mario.pos_x_curr
       \/ moved.pos_y_curr # mario.pos_y_curr

\* Once the player lets go of the keyboard Mario comes to rest, or the game
\* is in a loop that waits for a key.
Settles ==
  <>[](key = NO_KEY) =>
    <>[](pc # "play" \/ (mario.speed_x_curr = 0 /\ mario.speed_y_curr = 0))

\* A player who leans on R gets a life to play: the game does not restart
\* again and again.
HeldRestartEnds ==
  <>[](key = KEYBOARD_R) => <>[](pc # "wait")

-----------------------------------------------------------------------------
(* The screens of the game, GameFlow, seen in the variables of main.       *)

Flow == INSTANCE GameFlow WITH
  stage  <- pc,
  place  <- IF pc = "wait" THEN retry ELSE level,
  spines <- IF pc \in {"play", "wait"} /\ mario.level2_active = ACTIVE_LEVEL2
            THEN "out" ELSE "in"

\* main goes from screen to screen as GameFlow allows.
RefinesFlow == Flow!Spec
=============================================================================
