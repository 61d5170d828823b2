----------------------------- MODULE MarioMove ------------------------------
(***************************************************************************)
(* One frame of Mario's motion: mario_move.c, with the keyboard part of    *)
(* main.c that decides which key reaches it (handle_keycode).              *)
(*                                                                         *)
(* mario_move_t is a record.  Its *_last fields only carry values inside   *)
(* one call of mario_move_update and are not kept.  An operator of the     *)
(* program that changes the record is the set of the records it can leave  *)
(* (the set is always a singleton: the code is deterministic).             *)
(***************************************************************************)
EXTENDS Geometry

NO_KEY         == 0      \* the keyboard's report with no key down
KEYBOARD_A     == 4
KEYBOARD_D     == 7
KEYBOARD_R     == 21
KEYBOARD_W     == 26
KEYBOARD_ENTER == 40
KEYBOARD_ESC   == 41
KEYBOARD_NONE  == 240    \* the program's own code for no key

MARIO_X_FLY_SPEED   == 33
MARIO_X_SPEED       == 15
MARIO_Y_SPEED       == -30
MARIO_X_ACC         == -8
MARIO_Y_ACC         == 8
MARIO_X_SPEED_UPPER == 20
MARIO_ALIVE         == 1
ACTIVE_LEVEL2       == 1
RESET_LEVEL2        == 2

STAND_RIGHT == 0
RUN_RIGHT   == 1
STAND_LEFT  == 2
RUN_LEFT    == 3
JUMP_RIGHT  == 4
JUMP_LEFT   == 5

DIR_LIMIT  == 4    \* direction keys and jumps honoured before landing
JUMP_LIMIT == 2    \* jumps honoured before landing

Low(keycode) == keycode % 256
-----------------------------------------------------------------------------
(* mario_move_init: where a level begins.                                  *)

\* A slip: a level that does not withdraw the spines.
AtRest_spines_out(m, x, y, idx) ==
  [m EXCEPT !.pos_x_curr = x, !.pos_y_curr = y, !.idx = idx,
            !.alive = MARIO_ALIVE, !.jump_ct = 0, !.dir_ct = 0,
            !.speed_x_curr = 0, !.speed_y_curr = 0]

AtRest(m, x, y, idx) ==
  [m EXCEPT !.pos_x_curr = x, !.pos_y_curr = y, !.idx = idx,
            !.alive = MARIO_ALIVE, !.jump_ct = 0, !.dir_ct = 0,
            !.speed_x_curr = 0, !.speed_y_curr = 0,
            !.level2_active = RESET_LEVEL2]

AtMenu(m) == [m EXCEPT !.pos_x_curr = 250, !.pos_y_curr = 128, !.idx = STAND_LEFT,
                       !.alive = MARIO_ALIVE, !.level2_active = RESET_LEVEL2]

\* A slip: level 1 begins with Mario's head, not his feet, on the ground.
mario_move_init_low(m, level) ==
  CASE level = 0 -> AtMenu(m)
    [] level = 1 -> AtRest(m, 5 * MARIO_X, Y_UPPER - 4 * BLOCK_WIDTH, STAND_RIGHT)
    [] level = 2 -> AtRest(m, X_UPPER - 3 * MARIO_X,
                           Y_UPPER - 10 * BLOCK_WIDTH - MARIO_Y - 1, STAND_LEFT)
    [] level = 3 -> AtRest(m, 5 * BLOCK_WIDTH, 5 * BLOCK_WIDTH, JUMP_RIGHT)

mario_move_init(m, level) ==
  CASE level = 0 -> AtMenu(m)
    [] level = 1 -> AtRest(m, 5 * MARIO_X,
                           Y_UPPER - 4 * BLOCK_WIDTH - MARIO_Y, STAND_RIGHT)
    [] level = 2 -> AtRest(m, X_UPPER - 3 * MARIO_X,
                           Y_UPPER - 10 * BLOCK_WIDTH - MARIO_Y - 1, STAND_LEFT)
    [] level = 3 -> AtRest(m, 5 * BLOCK_WIDTH, 5 * BLOCK_WIDTH, JUMP_RIGHT)

-----------------------------------------------------------------------------
(* get_speed: how far Mario gets.                                          *)

Abs(n)  == IF n < 0 THEN -n ELSE n
Sign(n) == IF n < 0 THEN -1 ELSE IF n > 0 THEN 1 ELSE 0

\* The scan looks at pixel 0 (where Mario is), 1, 2, ... and ends at the
\* first blocked one or after n; Mario stops one pixel before its end.
\* (A set {e} from which a bound variable is taken makes TLC evaluate e once.)
ScanEnd(n, blocked) ==
  UNION {{k \in b \cup {n} : \A j \in b : k <= j} : b \in {blocked}}

\* A slip: the scan's blocked pixel itself.
Travelled_blocked(max, k) == Sign(max) * k

Travelled(max, k) == IF k = 0 THEN 0 ELSE Sign(max) * (k - 1)

\* A slip: speed without a limit.
Clamped_not(d) == d

Clamped(d) == IF d < -MARIO_X_SPEED_UPPER THEN -MARIO_X_SPEED_UPPER
              ELSE IF d > MARIO_X_SPEED_UPPER THEN MARIO_X_SPEED_UPPER
              ELSE d

update_y(m, blocks, max_y) ==
  LET blocked == {j \in 0 .. (Abs(max_y) - 1) :
                    ~can_move(blocks, m.pos_x_curr,
                              m.pos_y_curr + Sign(max_y) * j)}
  IN  {Travelled(max_y, k) : k \in ScanEnd(Abs(max_y), blocked)}

\* The horizontal scan starts where the vertical one ended.
update_x(m, blocks, max_x, dy) ==
  LET blocked == {j \in 0 .. (Abs(max_x) - 1) :
                    ~can_move(blocks, m.pos_x_curr + Sign(max_x) * j,
                              m.pos_y_curr + dy)}
  IN  {Clamped(Travelled(max_x, k)) : k \in ScanEnd(Abs(max_x), blocked)}

Displaced(m, dx, dy) ==
  [m EXCEPT !.pos_x_curr = @ + dx, !.pos_y_curr = @ + dy,
            !.speed_x_curr = dx, !.speed_y_curr = dy]

get_speed(m, blocks, acc_x, acc_y) ==
  UNION { {Displaced(m, dx, dy) :
              dx \in update_x(m, blocks, m.speed_x_curr + acc_x, dy)} :
          dy \in update_y(m, blocks, m.speed_y_curr + acc_y) }

-----------------------------------------------------------------------------
(* mario_move_update: the accelerations a key gives, the picture of Mario  *)
(* and the counters that landing resets.                                   *)

Grounded(m, blocks) == is_ground(blocks, m.pos_x_curr, m.pos_y_curr)

\* A slip: friction that overshoots.
Friction_reversing(speed) == Sign(speed) * MARIO_X_ACC

\* Friction takes 8 from the speed and never reverses it.
Friction(speed) == IF Abs(speed) + MARIO_X_ACC > 0
                   THEN Sign(speed) * MARIO_X_ACC ELSE -speed

Push(m, blocks) ==
  IF Grounded(m, blocks) THEN MARIO_X_ACC + MARIO_X_SPEED
                         ELSE MARIO_X_ACC + MARIO_X_FLY_SPEED

AccX(m, blocks, keycode) ==
  CASE keycode = KEYBOARD_A -> -Push(m, blocks)
    [] keycode = KEYBOARD_D -> Push(m, blocks)
    [] keycode = KEYBOARD_W -> Sign(m.speed_x_curr) * MARIO_X_ACC
    [] OTHER                -> Friction(m.speed_x_curr)

AccY(keycode) ==
  IF keycode = KEYBOARD_W THEN MARIO_Y_ACC + MARIO_Y_SPEED ELSE MARIO_Y_ACC

FacesRight(idx_last) == idx_last \in {STAND_RIGHT, RUN_RIGHT, JUMP_RIGHT}

GroundIdx(idx_last, keycode) ==
  CASE keycode = KEYBOARD_A -> IF idx_last # RUN_LEFT THEN RUN_LEFT ELSE STAND_LEFT
    [] keycode = KEYBOARD_D -> IF idx_last # RUN_RIGHT THEN RUN_RIGHT ELSE STAND_RIGHT
    [] keycode = KEYBOARD_W -> IF FacesRight(idx_last) THEN JUMP_RIGHT ELSE JUMP_LEFT
    [] OTHER                -> IF FacesRight(idx_last) THEN STAND_RIGHT ELSE STAND_LEFT

AirIdx(idx_last, speed_x) ==
  IF speed_x > 0 \/ (speed_x = 0 /\ FacesRight(idx_last)) THEN JUMP_RIGHT ELSE JUMP_LEFT

\* A slip: landing forgets the jumps.
Landed_jumps_kept(m, idx_last, blocks, keycode) ==
  IF Grounded(m, blocks)
  THEN [m EXCEPT !.idx = GroundIdx(idx_last, keycode), !.dir_ct = 0]
  ELSE [m EXCEPT !.idx = AirIdx(idx_last, m.speed_x_curr)]

Landed(m, idx_last, blocks, keycode) ==
  IF Grounded(m, blocks)
  THEN [m EXCEPT !.idx = GroundIdx(idx_last, keycode), !.jump_ct = 0, !.dir_ct = 0]
  ELSE [m EXCEPT !.idx = AirIdx(idx_last, m.speed_x_curr)]

\* handle_keycode has masked the key, so the C loop over two key bytes runs
\* once.
mario_move_update(m, blocks, keycode) ==
  {Landed(moved, m.idx, blocks, keycode) : moved \in
     UNION {get_speed(m, blocks, acc_x, AccY(keycode)) : acc_x \in {AccX(m, blocks, keycode)}}}

-----------------------------------------------------------------------------
(* handle_keycode for the keys that move Mario.  Between two landings only *)
(* DIR_LIMIT of the keys A, D, W count, and only JUMP_LIMIT of the W.      *)

DirectionKeys == {KEYBOARD_A, KEYBOARD_D, KEYBOARD_W}

DirHonoured(m, key)  == key \in DirectionKeys /\ m.dir_ct < DIR_LIMIT
JumpHonoured(m, key) == key = KEYBOARD_W /\ DirHonoured(m, key) /\ m.jump_ct < JUMP_LIMIT

Counted(m, key) ==
  [m EXCEPT !.dir_ct  = IF DirHonoured(m, key) THEN @ + 1 ELSE @,
            !.jump_ct = IF JumpHonoured(m, key) THEN @ + 1 ELSE @]

\* A slip: the count of jumps does not mask the key.
EffectiveKey_any_jump(m, key) ==
  IF (key \in DirectionKeys \ {KEYBOARD_W} /\ ~DirHonoured(m, key)) \/ key = NO_KEY
  THEN KEYBOARD_NONE ELSE key

\* The key that mario_move_update gets.
EffectiveKey(m, key) ==
  IF \/ key \in DirectionKeys /\ ~DirHonoured(m, key)
     \/ key = KEYBOARD_W /\ ~JumpHonoured(m, key)
     \/ key = NO_KEY
  THEN KEYBOARD_NONE ELSE key

handle_keycode(m, blocks, keycode) ==
  LET key == Low(keycode)
  IN  UNION {mario_move_update(counted, blocks, EffectiveKey(m, key)) :
               counted \in {Counted(m, key)}}

=============================================================================
