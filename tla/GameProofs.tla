----------------------------- MODULE GameProofs -----------------------------
(***************************************************************************)
(* Proofs about Game for every set of keys, every stopping place of the    *)
(* spines and everything that may lie past the end of the map.             *)
(*                                                                         *)
(* What is proved of Mario's motion holds for every set of blocks; the     *)
(* maps themselves are looked at only where a life begins and at the edge  *)
(* of the map, by the lemmas of GeometryProofs.                            *)
(***************************************************************************)
EXTENDS Game, GeometryProofs

\* The places of Mario on the screen.
Free(blocks, m) == can_move(blocks, m.pos_x_curr, m.pos_y_curr)

LEMMA OnScreen ==
  ASSUME NEW blocks, NEW x \in Int, NEW y \in Int, can_move(blocks, x, y)
  PROVE  x \in 0 .. X_UPPER - MARIO_X /\ y \in 0 .. Y_UPPER - MARIO_Y
BY DEF can_move, on_screen, X_UPPER, X_LOWER, Y_UPPER, Y_LOWER, MARIO_X, MARIO_Y

\* Mario with the numbers of mario_move.h filled in.
LEMMA MarioNumbers ==
  Mario = [pos_x_curr : 0 .. 620, pos_y_curr : 0 .. 456, idx : 0 .. 5, alive : {0, 1},
           jump_ct : 0 .. 2, dir_ct : 0 .. 4, speed_x_curr : -20 .. 20,
           speed_y_curr : Int, level2_active : {1, 2}]
<1>1. /\ X_UPPER - MARIO_X = 620 /\ Y_UPPER - MARIO_Y = 456 /\ JUMP_LIMIT = 2 /\ DIR_LIMIT = 4
      /\ -MARIO_X_SPEED_UPPER = -20 /\ MARIO_X_SPEED_UPPER = 20
      /\ ACTIVE_LEVEL2 = 1 /\ RESET_LEVEL2 = 2
  BY DEF X_UPPER, MARIO_X, Y_UPPER, MARIO_Y, JUMP_LIMIT, DIR_LIMIT,
         MARIO_X_SPEED_UPPER, ACTIVE_LEVEL2, RESET_LEVEL2
<1> QED BY Zenon, <1>1 DEF Mario

\* A scan ends within its n pixels, and all it passed was free.
LEMMA ScanStops ==
  ASSUME NEW n \in Nat, NEW blocked \in SUBSET (0 .. n - 1), NEW k \in ScanEnd(n, blocked)
  PROVE  k \in 0 .. n /\ \A j \in 0 .. k - 1 : j \notin blocked
<1>1. k \in blocked \cup {n} /\ \A j \in blocked : k <= j BY Zenon DEF ScanEnd
<1> QED BY <1>1

LEMMA Distances ==
  ASSUME NEW max \in Int
  PROVE  /\ Abs(max) \in Nat /\ Sign(max) \in {-1, 0, 1}
         /\ max < 0 => Abs(max) = -max /\ Sign(max) = -1
         /\ max > 0 => Abs(max) = max /\ Sign(max) = 1
         /\ max = 0 => Abs(max) = 0 /\ Sign(max) = 0
BY DEF Abs, Sign

\* The vertical scan stays short of max and ends on a free place.
LEMMA UpdateY ==
  ASSUME NEW blocks, NEW m \in Mario, NEW max \in Int, NEW dy \in update_y(m, blocks, max)
  PROVE  /\ dy \in Int
         /\ dy = 0 \/ can_move(blocks, m.pos_x_curr, m.pos_y_curr + dy)
         /\ max < 0 => max < dy /\ dy <= 0
         /\ max >= 0 => 0 <= dy /\ dy <= max
<1> DEFINE blocked == {j \in 0 .. (Abs(max) - 1) :
                         ~can_move(blocks, m.pos_x_curr, m.pos_y_curr + Sign(max) * j)}
<1>1. PICK k \in ScanEnd(Abs(max), blocked) : dy = Travelled(max, k)
  BY DEF update_y
<1>2. Abs(max) \in Nat /\ blocked \in SUBSET (0 .. Abs(max) - 1) BY Distances
<1>3. k \in 0 .. Abs(max) /\ \A j \in 0 .. k - 1 : j \notin blocked
  BY <1>1, <1>2, ScanStops
<1>4. CASE k = 0 BY <1>1, <1>4 DEF Travelled
<1>5. CASE k # 0
  <2>1. k - 1 \in 0 .. Abs(max) - 1 /\ k - 1 \notin blocked BY <1>2, <1>3, <1>5
  <2>2. dy = Sign(max) * (k - 1) BY <1>1, <1>5 DEF Travelled
  <2>3. can_move(blocks, m.pos_x_curr, m.pos_y_curr + dy) BY <2>1, <2>2
  <2>4. (max < 0 => dy = -(k - 1)) /\ (max > 0 => dy = k - 1) /\ max # 0
    BY <1>3, <1>5, <2>2, Distances
  <2> HIDE DEF blocked
  <2> QED BY <2>1, <2>3, <2>4, Distances
<1> QED BY <1>4, <1>5

\* So does the horizontal one, which is also cut to MARIO_X_SPEED_UPPER.
LEMMA UpdateX ==
  ASSUME NEW blocks, NEW m \in Mario, NEW max \in Int, NEW dy \in Int,
         NEW dx \in update_x(m, blocks, max, dy)
  PROVE  /\ dx \in -MARIO_X_SPEED_UPPER .. MARIO_X_SPEED_UPPER
         /\ dx = 0 \/ can_move(blocks, m.pos_x_curr + dx, m.pos_y_curr + dy)
<1> DEFINE blocked == {j \in 0 .. (Abs(max) - 1) :
                         ~can_move(blocks, m.pos_x_curr + Sign(max) * j, m.pos_y_curr + dy)}
<1>1. PICK k \in ScanEnd(Abs(max), blocked) : dx = Clamped(Travelled(max, k))
  BY DEF update_x
<1>2. Abs(max) \in Nat /\ blocked \in SUBSET (0 .. Abs(max) - 1) BY Distances
<1>3. k \in 0 .. Abs(max) /\ \A j \in 0 .. k - 1 : j \notin blocked
  BY <1>1, <1>2, ScanStops
<1>4. CASE k = 0 BY <1>1, <1>4 DEF Travelled, Clamped, MARIO_X_SPEED_UPPER
<1>5. CASE k # 0
  <2> DEFINE j == IF k - 1 > MARIO_X_SPEED_UPPER THEN MARIO_X_SPEED_UPPER ELSE k - 1
  <2>1. j \in 0 .. k - 1 /\ j \in 0 .. Abs(max) - 1 /\ j <= MARIO_X_SPEED_UPPER
    BY <1>2, <1>3, <1>5 DEF MARIO_X_SPEED_UPPER
  <2>2. (max < 0 => Travelled(max, k) = -(k - 1)) /\ (max > 0 => Travelled(max, k) = k - 1) /\ max # 0
    BY <1>3, <1>5, Distances DEF Travelled
  <2>3. (max < 0 => dx = -j) /\ (max > 0 => dx = j)
    BY <1>1, <1>3, <1>5, <2>2 DEF Clamped, MARIO_X_SPEED_UPPER
  <2>4. dx = Sign(max) * j BY <2>1, <2>2, <2>3, Distances
  <2>5. can_move(blocks, m.pos_x_curr + dx, m.pos_y_curr + dy) BY <1>3, <2>1, <2>4
  <2> HIDE DEF j, blocked
  <2> QED BY <2>1, <2>2, <2>3, <2>5 DEF MARIO_X_SPEED_UPPER
<1> QED BY <1>4, <1>5


\* Moving: Mario stays on the screen, ends on a free place if he began on one,
\* and gains upward speed only from an upward acceleration.
LEMMA GetSpeed ==
  ASSUME NEW blocks, NEW m \in Mario, NEW ax \in Int, NEW ay \in Int,
         NEW r \in get_speed(m, blocks, ax, ay)
  PROVE  /\ r \in Mario
         /\ r.alive = m.alive /\ r.level2_active = m.level2_active
         /\ r.jump_ct = m.jump_ct /\ r.dir_ct = m.dir_ct /\ r.idx = m.idx
         /\ Free(blocks, m) => Free(blocks, r)
         /\ ay >= 0 /\ r.speed_y_curr < 0 => r.speed_y_curr >= m.speed_y_curr
<1>1. PICK dy \in update_y(m, blocks, m.speed_y_curr + ay) :
        \E dx \in update_x(m, blocks, m.speed_x_curr + ax, dy) : r = Displaced(m, dx, dy)
  BY Zenon DEF get_speed
<1>2. PICK dx \in update_x(m, blocks, m.speed_x_curr + ax, dy) : r = Displaced(m, dx, dy)
  BY <1>1
<1>m. /\ m.pos_x_curr \in 0 .. X_UPPER - MARIO_X /\ m.pos_y_curr \in 0 .. Y_UPPER - MARIO_Y
      /\ m.speed_x_curr \in Int /\ m.speed_y_curr \in Int
  BY DEF Mario, MARIO_X_SPEED_UPPER
<1>3. /\ dy \in Int
      /\ dy = 0 \/ can_move(blocks, m.pos_x_curr, m.pos_y_curr + dy)
      /\ ay >= 0 /\ dy < 0 => dy >= m.speed_y_curr
  <2>1. m.speed_y_curr + ay \in Int BY <1>m
  <2>2. /\ dy \in Int
        /\ dy = 0 \/ can_move(blocks, m.pos_x_curr, m.pos_y_curr + dy)
        /\ m.speed_y_curr + ay < 0 => m.speed_y_curr + ay < dy
        /\ m.speed_y_curr + ay >= 0 => 0 <= dy
    BY <2>1, UpdateY
  <2> QED BY <2>2, <1>m
<1>4. /\ dx \in -MARIO_X_SPEED_UPPER .. MARIO_X_SPEED_UPPER
      /\ dx = 0 \/ can_move(blocks, m.pos_x_curr + dx, m.pos_y_curr + dy)
  <2>1. m.speed_x_curr + ax \in Int BY <1>m
  <2> QED BY <2>1, <1>3, UpdateX
<1>5. /\ r.pos_x_curr = m.pos_x_curr + dx /\ r.pos_y_curr = m.pos_y_curr + dy
      /\ r.speed_x_curr = dx /\ r.speed_y_curr = dy
      /\ r.alive = m.alive /\ r.level2_active = m.level2_active
      /\ r.jump_ct = m.jump_ct /\ r.dir_ct = m.dir_ct /\ r.idx = m.idx
  BY <1>2 DEF Displaced, Mario
<1>6. m.pos_x_curr + dx \in Int /\ m.pos_y_curr + dy \in Int
  BY <1>3, <1>4, <1>m DEF MARIO_X_SPEED_UPPER
<1>7. /\ r.pos_x_curr \in 0 .. X_UPPER - MARIO_X
      /\ r.pos_y_curr \in 0 .. Y_UPPER - MARIO_Y
  <2>1. CASE dx # 0 BY <2>1, <1>4, <1>5, <1>6, OnScreen
  <2>2. CASE dx = 0 /\ dy # 0 BY <2>2, <1>3, <1>5, <1>6, <1>m, OnScreen
  <2>3. CASE dx = 0 /\ dy = 0 BY <2>3, <1>5, <1>m
  <2> QED BY <2>1, <2>2, <2>3
<1>8. r \in Mario BY <1>2, <1>3, <1>4, <1>5, <1>7 DEF Displaced, Mario
<1>9. Free(blocks, m) => Free(blocks, r)
  <2>1. CASE dx # 0 BY <2>1, <1>4, <1>5 DEF Free
  <2>2. CASE dx = 0 /\ dy # 0 BY <2>2, <1>3, <1>5, <1>m DEF Free
  <2>3. CASE dx = 0 /\ dy = 0 BY <2>3, <1>5, <1>m DEF Free
  <2> QED BY <2>1, <2>2, <2>3
<1> QED BY <1>3, <1>5, <1>8, <1>9

LEMMA Accelerations ==
  ASSUME NEW blocks, NEW m \in Mario, NEW keycode
  PROVE  /\ AccX(m, blocks, keycode) \in Int /\ AccY(keycode) \in Int
         /\ keycode # KEYBOARD_W => AccY(keycode) >= 0
<1>1. m.speed_x_curr \in Int BY DEF Mario, MARIO_X_SPEED_UPPER
<1>2. Sign(m.speed_x_curr) \in {-1, 0, 1} BY <1>1, Distances
<1>3. Friction(m.speed_x_curr) \in Int BY <1>1, <1>2 DEF Friction, MARIO_X_ACC
<1>4. AccX(m, blocks, keycode) \in Int
  <2>0. Push(m, blocks) \in Int BY DEF Push, MARIO_X_ACC, MARIO_X_SPEED, MARIO_X_FLY_SPEED
  <2>1. CASE keycode = KEYBOARD_A BY <2>0, <2>1 DEF AccX, KEYBOARD_A, KEYBOARD_D, KEYBOARD_W
  <2>2. CASE keycode = KEYBOARD_D BY <2>0, <2>2 DEF AccX, KEYBOARD_A, KEYBOARD_D, KEYBOARD_W
  <2>3. CASE keycode = KEYBOARD_W BY <2>3, <1>2 DEF AccX, MARIO_X_ACC, KEYBOARD_A, KEYBOARD_D, KEYBOARD_W
  <2>4. CASE keycode \notin {KEYBOARD_A, KEYBOARD_D, KEYBOARD_W} BY <2>4, <1>3 DEF AccX
  <2> QED BY <2>1, <2>2, <2>3, <2>4
<1> QED BY <1>4 DEF AccY, MARIO_Y_ACC, MARIO_Y_SPEED

LEMMA Pictures ==
  ASSUME NEW idx, NEW keycode, NEW speed
  PROVE  GroundIdx(idx, keycode) \in 0 .. 5 /\ AirIdx(idx, speed) \in 0 .. 5
BY DEF GroundIdx, AirIdx, STAND_RIGHT, RUN_RIGHT, STAND_LEFT, RUN_LEFT, JUMP_RIGHT, JUMP_LEFT

\* One frame of motion.
LEMMA MoveUpdate ==
  ASSUME NEW blocks, NEW m \in Mario, NEW keycode,
         NEW r \in mario_move_update(m, blocks, keycode)
  PROVE  /\ r \in Mario
         /\ r.alive = m.alive /\ r.level2_active = m.level2_active
         /\ \/ r.jump_ct = m.jump_ct /\ r.dir_ct = m.dir_ct
            \/ r.jump_ct = 0 /\ r.dir_ct = 0
         /\ Free(blocks, m) => Free(blocks, r)
         /\ keycode # KEYBOARD_W /\ r.speed_y_curr < 0 => r.speed_y_curr >= m.speed_y_curr
<1>1. PICK moved \in get_speed(m, blocks, AccX(m, blocks, keycode), AccY(keycode)) :
        r = Landed(moved, m.idx, blocks, keycode)
  BY Zenon DEF mario_move_update
<1>2. /\ moved \in Mario
      /\ moved.alive = m.alive /\ moved.level2_active = m.level2_active
      /\ moved.jump_ct = m.jump_ct /\ moved.dir_ct = m.dir_ct
      /\ Free(blocks, m) => Free(blocks, moved)
      /\ AccY(keycode) >= 0 /\ moved.speed_y_curr < 0 => moved.speed_y_curr >= m.speed_y_curr
  BY Accelerations, GetSpeed
<1>3. /\ GroundIdx(m.idx, keycode) \in 0 .. 5
      /\ AirIdx(m.idx, moved.speed_x_curr) \in 0 .. 5
  BY Pictures
<1>4. \/ r = [moved EXCEPT !.idx = GroundIdx(m.idx, keycode), !.jump_ct = 0, !.dir_ct = 0]
      \/ r = [moved EXCEPT !.idx = AirIdx(m.idx, moved.speed_x_curr)]
  BY <1>1 DEF Landed
<1>5. r \in Mario
  <2>1. CASE r = [moved EXCEPT !.idx = GroundIdx(m.idx, keycode), !.jump_ct = 0, !.dir_ct = 0]
    <3>1. 0 \in 0 .. JUMP_LIMIT /\ 0 \in 0 .. DIR_LIMIT BY DEF JUMP_LIMIT, DIR_LIMIT
    <3> QED BY <1>2, <1>3, <2>1, <3>1 DEF Mario
  <2>2. CASE r = [moved EXCEPT !.idx = AirIdx(m.idx, moved.speed_x_curr)]
    BY <1>2, <1>3, <2>2 DEF Mario
  <2> QED BY <1>4, <2>1, <2>2
<1>6. /\ r.alive = moved.alive /\ r.level2_active = moved.level2_active
      /\ r.pos_x_curr = moved.pos_x_curr /\ r.pos_y_curr = moved.pos_y_curr
      /\ r.speed_y_curr = moved.speed_y_curr
      /\ \/ r.jump_ct = moved.jump_ct /\ r.dir_ct = moved.dir_ct
         \/ r.jump_ct = 0 /\ r.dir_ct = 0
  BY <1>2, <1>4 DEF Mario
<1> QED BY <1>2, <1>5, <1>6, Accelerations DEF Free

\* handle_keycode: a frame with its counters.
LEMMA HandleKeycode ==
  ASSUME NEW blocks, NEW m \in Mario, NEW keycode \in Nat,
         NEW r \in handle_keycode(m, blocks, keycode)
  PROVE  /\ r \in Mario
         /\ r.alive = m.alive /\ r.level2_active = m.level2_active
         /\ m.jump_ct <= m.dir_ct => r.jump_ct <= r.dir_ct
         /\ Free(blocks, m) => Free(blocks, r)
         /\ ~JumpHonoured(m, Low(keycode)) /\ r.speed_y_curr < 0 =>
              r.speed_y_curr >= m.speed_y_curr
<1> DEFINE pressed == Low(keycode)
           c == Counted(m, pressed)
<1>1. r \in mario_move_update(c, blocks, EffectiveKey(m, pressed)) BY Zenon DEF handle_keycode
<1>m. m.dir_ct \in 0 .. 4 /\ m.jump_ct \in 0 .. 2 BY DEF Mario, DIR_LIMIT, JUMP_LIMIT
<1>2. /\ c.dir_ct = IF DirHonoured(m, pressed) THEN m.dir_ct + 1 ELSE m.dir_ct
      /\ c.jump_ct = IF JumpHonoured(m, pressed) THEN m.jump_ct + 1 ELSE m.jump_ct
      /\ c.alive = m.alive /\ c.level2_active = m.level2_active
      /\ c.pos_x_curr = m.pos_x_curr /\ c.pos_y_curr = m.pos_y_curr
      /\ c.speed_y_curr = m.speed_y_curr
  BY DEF Counted, Mario
<1>3. c.dir_ct \in 0 .. 4 /\ c.jump_ct \in 0 .. 2
      /\ (m.jump_ct <= m.dir_ct => c.jump_ct <= c.dir_ct)
  BY <1>2, <1>m DEF DirHonoured, JumpHonoured, DIR_LIMIT, JUMP_LIMIT
<1>4. c \in Mario BY <1>3 DEF Counted, Mario, DIR_LIMIT, JUMP_LIMIT
<1>5. ~JumpHonoured(m, pressed) => EffectiveKey(m, pressed) # KEYBOARD_W
  BY DEF EffectiveKey, KEYBOARD_W, KEYBOARD_NONE, DirectionKeys
<1> HIDE DEF c, pressed
<1>6. /\ r \in Mario
      /\ r.alive = c.alive /\ r.level2_active = c.level2_active
      /\ \/ r.jump_ct = c.jump_ct /\ r.dir_ct = c.dir_ct
         \/ r.jump_ct = 0 /\ r.dir_ct = 0
      /\ Free(blocks, c) => Free(blocks, r)
      /\ EffectiveKey(m, pressed) # KEYBOARD_W /\ r.speed_y_curr < 0 =>
           r.speed_y_curr >= c.speed_y_curr
  BY <1>1, <1>4, MoveUpdate
<1> QED BY <1>2, <1>3, <1>5, <1>6 DEF Free, pressed

\* A Mario who has moved is on a free place, wherever he was before.
MovedFreely(blocks, m, r) ==
  Free(blocks, r) \/ (r.pos_x_curr = m.pos_x_curr /\ r.pos_y_curr = m.pos_y_curr)

LEMMA SpeedMovesFreely ==
  ASSUME NEW blocks, NEW m \in Mario, NEW ax \in Int, NEW ay \in Int,
         NEW r \in get_speed(m, blocks, ax, ay)
  PROVE  MovedFreely(blocks, m, r)
<1>1. PICK dy \in update_y(m, blocks, m.speed_y_curr + ay) :
        \E dx \in update_x(m, blocks, m.speed_x_curr + ax, dy) : r = Displaced(m, dx, dy)
  BY Zenon DEF get_speed
<1>2. PICK dx \in update_x(m, blocks, m.speed_x_curr + ax, dy) : r = Displaced(m, dx, dy)
  BY <1>1
<1>m. /\ m.pos_x_curr \in Int /\ m.pos_y_curr \in Int
      /\ m.speed_x_curr \in Int /\ m.speed_y_curr \in Int
  BY DEF Mario, MARIO_X_SPEED_UPPER
<1>3. dy \in Int /\ (dy = 0 \/ can_move(blocks, m.pos_x_curr, m.pos_y_curr + dy))
  <2>1. m.speed_y_curr + ay \in Int BY <1>m
  <2> QED BY <2>1, UpdateY
<1>4. dx \in Int /\ (dx = 0 \/ can_move(blocks, m.pos_x_curr + dx, m.pos_y_curr + dy))
  <2>1. m.speed_x_curr + ax \in Int BY <1>m
  <2> QED BY <2>1, <1>3, UpdateX DEF MARIO_X_SPEED_UPPER
<1>5. r.pos_x_curr = m.pos_x_curr + dx /\ r.pos_y_curr = m.pos_y_curr + dy
  BY <1>2 DEF Displaced, Mario
<1>6. CASE dx # 0 BY <1>4, <1>5, <1>6 DEF MovedFreely, Free
<1>7. CASE dx = 0 /\ dy # 0 BY <1>3, <1>5, <1>7, <1>m DEF MovedFreely, Free
<1>8. CASE dx = 0 /\ dy = 0 BY <1>5, <1>8, <1>m DEF MovedFreely
<1> QED BY <1>6, <1>7, <1>8

\* What mario_move_update adds to get_speed, and handle_keycode to that.
LEMMA LandedThere ==
  ASSUME NEW blocks, NEW m \in Mario, NEW idx, NEW keycode
  PROVE  LET r == Landed(m, idx, blocks, keycode) IN
         r.pos_x_curr = m.pos_x_curr /\ r.pos_y_curr = m.pos_y_curr
BY DEF Landed, Mario

LEMMA CountedMario ==
  ASSUME NEW m \in Mario, NEW pressed
  PROVE  LET c == Counted(m, pressed) IN
         /\ c \in Mario
         /\ c.pos_x_curr = m.pos_x_curr /\ c.pos_y_curr = m.pos_y_curr
         /\ c.speed_x_curr = m.speed_x_curr /\ c.speed_y_curr = m.speed_y_curr
<1> DEFINE c == Counted(m, pressed)
<1>1. m.dir_ct \in 0 .. 4 /\ m.jump_ct \in 0 .. 2 BY MarioNumbers
<1>2. /\ c.dir_ct = IF DirHonoured(m, pressed) THEN m.dir_ct + 1 ELSE m.dir_ct
      /\ c.jump_ct = IF JumpHonoured(m, pressed) THEN m.jump_ct + 1 ELSE m.jump_ct
      /\ c.pos_x_curr = m.pos_x_curr /\ c.pos_y_curr = m.pos_y_curr
      /\ c.speed_x_curr = m.speed_x_curr /\ c.speed_y_curr = m.speed_y_curr
  BY DEF Counted, Mario
<1>3. c.dir_ct \in 0 .. DIR_LIMIT /\ c.jump_ct \in 0 .. JUMP_LIMIT
  BY <1>1, <1>2 DEF DirHonoured, JumpHonoured, DIR_LIMIT, JUMP_LIMIT
<1>4. c \in Mario BY <1>3 DEF Counted, Mario
<1> QED BY <1>2, <1>4

LEMMA FrameMovesFreely ==
  ASSUME NEW blocks, NEW m \in Mario, NEW keycode, NEW r \in handle_keycode(m, blocks, keycode)
  PROVE  MovedFreely(blocks, m, r)
<1> DEFINE c == Counted(m, Low(keycode))
           e == EffectiveKey(m, Low(keycode))
<1>1. r \in mario_move_update(c, blocks, e) BY Zenon DEF handle_keycode
<1>2. c \in Mario /\ c.pos_x_curr = m.pos_x_curr /\ c.pos_y_curr = m.pos_y_curr
  BY CountedMario
<1> HIDE DEF c, e
<1>3. PICK moved \in get_speed(c, blocks, AccX(c, blocks, e), AccY(e)) :
        r = Landed(moved, c.idx, blocks, e)
  BY <1>1, Zenon DEF mario_move_update
<1>4. AccX(c, blocks, e) \in Int /\ AccY(e) \in Int BY <1>2, Accelerations
<1>5. MovedFreely(blocks, c, moved) BY Zenon, <1>2, <1>3, <1>4, SpeedMovesFreely
<1>6. moved \in Mario BY <1>2, <1>3, <1>4, GetSpeed
<1>7. r.pos_x_curr = moved.pos_x_curr /\ r.pos_y_curr = moved.pos_y_curr
  BY <1>3, <1>6, LandedThere
<1> QED BY <1>2, <1>5, <1>7, Zenon DEF MovedFreely, Free


-----------------------------------------------------------------------------
(* The operators of main.c.                                                *)

\* A picture of a Mario who is on the screen shows him as he is.
LEMMA Drawn ==
  ASSUME NEW m \in Mario, NEW lv \in 0 .. 3, NEW bg \in {0, 1}
  PROVE  LET s == draw_screen(bg, lv, m) IN
         /\ s \in Screen /\ s.level = lv
         /\ s.pos_x = m.pos_x_curr /\ s.pos_y = m.pos_y_curr
         /\ s.dead = 1 - m.alive /\ s.idx = m.idx
         /\ s.level2_active = m.level2_active
<1>1. /\ m.pos_x_curr \in 0 .. 620 /\ m.pos_y_curr \in 0 .. 456 /\ m.alive \in {0, 1}
      /\ m.level2_active \in {1, 2} /\ m.idx \in 0 .. 5
  BY DEF Mario, X_UPPER, MARIO_X, Y_UPPER, MARIO_Y, ACTIVE_LEVEL2, RESET_LEVEL2
<1>2. /\ m.pos_x_curr % 1024 = m.pos_x_curr /\ m.pos_y_curr % 1024 = m.pos_y_curr
      /\ (MARIO_ALIVE - m.alive) % 2 = 1 - m.alive
      /\ m.level2_active % 8 = m.level2_active /\ m.idx % 8 = m.idx
      /\ lv % 8 = lv /\ bg % 4 = bg
  BY <1>1 DEF MARIO_ALIVE
<1> QED BY <1>1, <1>2 DEF draw_screen, Screen

\* A Mario who begins a level.
Fresh(r) == /\ r \in Mario /\ r.alive = 1 /\ r.level2_active = RESET_LEVEL2

LEMMA AtRestMario ==
  ASSUME NEW m \in Mario, NEW x \in 0 .. 620, NEW y \in 0 .. 456, NEW idx \in 0 .. 5
  PROVE  /\ Fresh(AtRest(m, x, y, idx))
         /\ AtRest(m, x, y, idx).jump_ct = 0 /\ AtRest(m, x, y, idx).dir_ct = 0
<1>1. /\ x \in 0 .. X_UPPER - MARIO_X /\ y \in 0 .. Y_UPPER - MARIO_Y
      /\ MARIO_ALIVE \in {0, 1} /\ MARIO_ALIVE = 1
      /\ 0 \in 0 .. JUMP_LIMIT /\ 0 \in 0 .. DIR_LIMIT
      /\ 0 \in -MARIO_X_SPEED_UPPER .. MARIO_X_SPEED_UPPER /\ 0 \in Int
      /\ RESET_LEVEL2 \in {ACTIVE_LEVEL2, RESET_LEVEL2}
  BY DEF X_UPPER, MARIO_X, Y_UPPER, MARIO_Y, JUMP_LIMIT, DIR_LIMIT, MARIO_ALIVE,
         MARIO_X_SPEED_UPPER, ACTIVE_LEVEL2, RESET_LEVEL2
<1> QED BY <1>1 DEF Mario, AtRest, Fresh

LEMMA MoveInit ==
  ASSUME NEW m \in Mario, NEW lv \in 0 .. 3
  PROVE  /\ Fresh(mario_move_init(m, lv))
         /\ m.jump_ct <= m.dir_ct =>
              mario_move_init(m, lv).jump_ct <= mario_move_init(m, lv).dir_ct
<1>1. CASE lv = 0
  <2> DEFINE r == [m EXCEPT !.pos_x_curr = 250, !.pos_y_curr = 128, !.idx = STAND_LEFT,
                            !.alive = MARIO_ALIVE, !.level2_active = RESET_LEVEL2]
  <2>1. mario_move_init(m, lv) = r BY <1>1 DEF mario_move_init, AtMenu
  <2>2. /\ 250 \in 0 .. X_UPPER - MARIO_X /\ 128 \in 0 .. Y_UPPER - MARIO_Y
        /\ STAND_LEFT \in 0 .. 5 /\ MARIO_ALIVE \in {0, 1} /\ MARIO_ALIVE = 1
        /\ RESET_LEVEL2 \in {ACTIVE_LEVEL2, RESET_LEVEL2}
    BY DEF X_UPPER, MARIO_X, Y_UPPER, MARIO_Y, STAND_LEFT, MARIO_ALIVE
  <2>3. /\ r.alive = 1 /\ r.level2_active = RESET_LEVEL2
        /\ r.jump_ct = m.jump_ct /\ r.dir_ct = m.dir_ct
    BY <2>2 DEF Mario
  <2>4. ASSUME NEW x \in 0 .. X_UPPER - MARIO_X, NEW y \in 0 .. Y_UPPER - MARIO_Y
        PROVE  [m EXCEPT !.pos_x_curr = x, !.pos_y_curr = y, !.idx = STAND_LEFT,
                         !.alive = MARIO_ALIVE, !.level2_active = RESET_LEVEL2] \in Mario
    BY <2>2 DEF Mario
  <2>5. r \in Mario BY <2>2, <2>4
  <2> HIDE DEF r
  <2> QED BY <2>1, <2>3, <2>5 DEF Fresh
<1>2. CASE lv = 1
  <2> DEFINE x == 100  y == 376  idx == 0
  <2>1. mario_move_init(m, lv) = AtRest(m, x, y, idx)
    BY <1>2 DEF mario_move_init, MARIO_X, MARIO_Y, Y_UPPER, BLOCK_WIDTH, STAND_RIGHT
  <2>2. x \in 0 .. 620 /\ y \in 0 .. 456 /\ idx \in 0 .. 5 OBVIOUS
  <2> HIDE DEF x, y, idx
  <2>3. /\ Fresh(AtRest(m, x, y, idx))
        /\ AtRest(m, x, y, idx).jump_ct = 0 /\ AtRest(m, x, y, idx).dir_ct = 0
    BY Zenon, <2>2, AtRestMario
  <2> QED BY <2>1, <2>3
<1>3. CASE lv = 2
  <2> DEFINE x == 580  y == 255  idx == 2
  <2>1. mario_move_init(m, lv) = AtRest(m, x, y, idx)
    BY <1>3 DEF mario_move_init, MARIO_X, MARIO_Y, X_UPPER, Y_UPPER, BLOCK_WIDTH, STAND_LEFT
  <2>2. x \in 0 .. 620 /\ y \in 0 .. 456 /\ idx \in 0 .. 5 OBVIOUS
  <2> HIDE DEF x, y, idx
  <2>3. /\ Fresh(AtRest(m, x, y, idx))
        /\ AtRest(m, x, y, idx).jump_ct = 0 /\ AtRest(m, x, y, idx).dir_ct = 0
    BY Zenon, <2>2, AtRestMario
  <2> QED BY <2>1, <2>3
<1>4. CASE lv = 3
  <2> DEFINE x == 100  y == 100  idx == 4
  <2>1. mario_move_init(m, lv) = AtRest(m, x, y, idx)
    BY <1>4 DEF mario_move_init, BLOCK_WIDTH, JUMP_RIGHT
  <2>2. x \in 0 .. 620 /\ y \in 0 .. 456 /\ idx \in 0 .. 5 OBVIOUS
  <2> HIDE DEF x, y, idx
  <2>3. /\ Fresh(AtRest(m, x, y, idx))
        /\ AtRest(m, x, y, idx).jump_ct = 0 /\ AtRest(m, x, y, idx).dir_ct = 0
    BY Zenon, <2>2, AtRestMario
  <2> QED BY <2>1, <2>3
<1> QED BY <1>1, <1>2, <1>3, <1>4

\* What each flag of handle_level says of the Mario it leaves.
Judged(m, lv, r) ==
  /\ r.mario \in Mario
  /\ r.mario.jump_ct = m.jump_ct /\ r.mario.dir_ct = m.dir_ct
  /\ r.mario.speed_y_curr = m.speed_y_curr
  /\ \/ r.flag \in {"LEVEL_CURR", "LEVEL_SWITCH"} /\ r.mario.alive = m.alive
     \/ r.flag = "LEVEL_NEXT" /\ lv = 2
     \/ r.flag = "LEVEL_BEFORE" /\ lv = 2 /\ r.mario.alive = 0
     \/ r.flag = "LEVEL_RESTART" /\ r.mario.alive = 0
  /\ r.flag # "LEVEL_SWITCH" =>
       r.mario.pos_x_curr = m.pos_x_curr /\ r.mario.pos_y_curr = m.pos_y_curr
  /\ \/ r.mario.level2_active = m.level2_active
     \/ /\ lv = 2 /\ r.flag \in {"LEVEL_CURR", "LEVEL_RESTART"}
        /\ r.mario.level2_active = ACTIVE_LEVEL2

\* Mario after LEVEL_SWITCH.
Carried(m, x, y) == [m EXCEPT !.pos_x_curr = x, !.pos_y_curr = y]

LEMMA HandleLevel ==
  ASSUME NEW m \in Mario, NEW lv \in {1, 2}, NEW spikes, NEW spine_x
  PROVE  Judged(m, lv, handle_level(m, lv, spikes, spine_x))
<1> DEFINE r == handle_level(m, lv, spikes, spine_x)
           t == Triggered(m, lv)
<1>d. /\ Died(m) \in Mario /\ Died(m).alive = 0
      /\ Died(m).jump_ct = m.jump_ct /\ Died(m).dir_ct = m.dir_ct
      /\ Died(m).speed_y_curr = m.speed_y_curr
      /\ Died(m).pos_x_curr = m.pos_x_curr /\ Died(m).pos_y_curr = m.pos_y_curr
      /\ Died(m).level2_active = m.level2_active
  BY DEF Died, Mario
<1>t. /\ t \in Mario /\ t.alive = m.alive
      /\ t.jump_ct = m.jump_ct /\ t.dir_ct = m.dir_ct
      /\ t.speed_y_curr = m.speed_y_curr
      /\ t.pos_x_curr = m.pos_x_curr /\ t.pos_y_curr = m.pos_y_curr
      /\ \/ t.level2_active = m.level2_active
         \/ lv = 2 /\ t.level2_active = ACTIVE_LEVEL2
  BY DEF Triggered, Mario, ACTIVE_LEVEL2
<1>e. /\ Died(t) \in Mario /\ Died(t).alive = 0
      /\ Died(t).jump_ct = t.jump_ct /\ Died(t).dir_ct = t.dir_ct
      /\ Died(t).speed_y_curr = t.speed_y_curr
      /\ Died(t).pos_x_curr = t.pos_x_curr /\ Died(t).pos_y_curr = t.pos_y_curr
      /\ Died(t).level2_active = t.level2_active
  BY <1>t DEF Died, Mario
<1>s. ASSUME NEW x \in {20, 600}, NEW y \in {m.pos_y_curr, 280, 360}
      PROVE  /\ Carried(m, x, y) \in Mario /\ Carried(m, x, y).alive = m.alive
             /\ Carried(m, x, y).jump_ct = m.jump_ct /\ Carried(m, x, y).dir_ct = m.dir_ct
             /\ Carried(m, x, y).speed_y_curr = m.speed_y_curr
             /\ Carried(m, x, y).level2_active = m.level2_active
  <2>1. m.pos_y_curr \in 0 .. Y_UPPER - MARIO_Y BY DEF Mario
  <2>2. x \in 0 .. X_UPPER - MARIO_X /\ y \in 0 .. Y_UPPER - MARIO_Y
    BY <1>s, <2>1 DEF X_UPPER, MARIO_X, Y_UPPER, MARIO_Y
  <2> QED BY <2>2 DEF Mario, Carried
<1>c. \/ r = [flag |-> "LEVEL_RESTART", mario |-> Died(m)]
      \/ \E x \in {20, 600}, y \in {m.pos_y_curr, 280, 360} :
           r = [flag |-> "LEVEL_SWITCH", mario |-> Carried(m, x, y)]
      \/ lv = 2 /\ r = [flag |-> "LEVEL_BEFORE", mario |-> Died(m)]
      \/ lv = 2 /\ r = [flag |-> "LEVEL_NEXT", mario |-> m]
      \/ r = [flag |-> "LEVEL_RESTART", mario |-> Died(t)]
      \/ r = [flag |-> "LEVEL_CURR", mario |-> t]
  <2>1. [m EXCEPT !.pos_x_curr = MARIO_X] = Carried(m, 20, m.pos_y_curr)
    BY MarioNumbers DEF MARIO_X, Carried
  <2>2. CASE lv = 1 /\ LV1_RIGHT(m) BY <2>2 DEF handle_level
  <2>3. CASE lv = 1 /\ ~LV1_RIGHT(m) /\ LV1_LEFT(m)
    <3> DEFINE y == IF m.pos_y_curr > 16 * BLOCK_WIDTH THEN 18 * BLOCK_WIDTH ELSE 14 * BLOCK_WIDTH
    <3>1. r = [flag  |-> "LEVEL_SWITCH",
               mario |-> Carried(m, X_UPPER - 2 * MARIO_X, y)]
      BY <2>3 DEF handle_level, Carried
    <3>2. X_UPPER - 2 * MARIO_X \in {20, 600} /\ y \in {m.pos_y_curr, 280, 360}
      BY DEF X_UPPER, MARIO_X, BLOCK_WIDTH
    <3> HIDE DEF r, y
    <3> QED BY <3>1, <3>2
  <2>4. CASE lv = 2 /\ PitLevel2(m) BY <2>4 DEF handle_level
  <2>5. CASE lv = 2 /\ ~PitLevel2(m) /\ LV1_RIGHT(m) BY <2>1, <2>5 DEF handle_level
  <2>6. CASE lv = 2 /\ ~PitLevel2(m) /\ ~LV1_RIGHT(m) /\ LV1_LEFT(m) BY <2>6 DEF handle_level
  <2>7. CASE \/ lv = 1 /\ ~LV1_RIGHT(m) /\ ~LV1_LEFT(m)
             \/ lv = 2 /\ ~PitLevel2(m) /\ ~LV1_RIGHT(m) /\ ~LV1_LEFT(m)
    BY <2>7 DEF handle_level
  <2> QED BY <2>2, <2>3, <2>4, <2>5, <2>6, <2>7
<1> HIDE DEF r, t
<1> SUFFICES Judged(m, lv, r) BY DEF r
<1>1. CASE r = [flag |-> "LEVEL_RESTART", mario |-> Died(m)] BY <1>1, <1>d DEF Judged
<1>2. CASE \E x \in {20, 600}, y \in {m.pos_y_curr, 280, 360} :
             r = [flag |-> "LEVEL_SWITCH", mario |-> Carried(m, x, y)]
  <2>1. PICK x \in {20, 600}, y \in {m.pos_y_curr, 280, 360} :
          r = [flag |-> "LEVEL_SWITCH", mario |-> Carried(m, x, y)]
    BY <1>2
  <2>2. r.flag = "LEVEL_SWITCH" /\ r.mario = Carried(m, x, y)
    BY <2>1
  <2>3. /\ r.mario \in Mario /\ r.mario.alive = m.alive
        /\ r.mario.jump_ct = m.jump_ct /\ r.mario.dir_ct = m.dir_ct
        /\ r.mario.speed_y_curr = m.speed_y_curr
        /\ r.mario.level2_active = m.level2_active
    BY <2>2, <1>s
  <2> QED BY <2>2, <2>3 DEF Judged
<1>3. CASE lv = 2 /\ r = [flag |-> "LEVEL_BEFORE", mario |-> Died(m)] BY <1>3, <1>d DEF Judged
<1>4. CASE lv = 2 /\ r = [flag |-> "LEVEL_NEXT", mario |-> m] BY <1>4 DEF Judged
<1>5. CASE r = [flag |-> "LEVEL_RESTART", mario |-> Died(t)] BY <1>5, <1>t, <1>e DEF Judged
<1>6. CASE r = [flag |-> "LEVEL_CURR", mario |-> t] BY <1>6, <1>t DEF Judged
<1> QED BY <1>c, <1>1, <1>2, <1>3, <1>4, <1>5, <1>6

-----------------------------------------------------------------------------
(* The inductive invariant.                                                *)

\* Which level each loop of main plays.
LevelOfLoop ==
  /\ pc = "level0" => level = 0
  /\ pc = "level3" => level = 3
  /\ pc \in {"play", "wait"} => level \in {1, 2}

\* In play the hardware was told last what Mario's record says of the spines.
SpinesAsDrawn == pc = "play" => screen.level2_active = mario.level2_active

IInv == /\ TypeOK /\ DeathShown /\ FaithfulPicture /\ JumpBudget
        /\ LevelOfLoop /\ SpinesAsDrawn

LEMMA Polled ==
  ASSUME NEW k \in Keys, key' = k, spine' \in SpinesMove
  PROVE  key' \in Keys \cup {NO_KEY} /\ spine' \in SpineStops
BY DEF SpinesMove, SpineAfter

LEMMA Alive ==
  ASSUME IInv, pc # "wait"
  PROVE  mario.alive = 1
BY DEF IInv, TypeOK, DeathShown, Mario

\* A frame that has been drawn is faithful.
LEMMA Redrawn ==
  ASSUME mario' \in Mario, level' \in 0 .. 3, NEW bg \in {0, 1},
         screen' = draw_screen(bg, level', mario')
  PROVE  /\ screen' \in Screen
         /\ FaithfulPicture' /\ SpinesAsDrawn'
         /\ screen'.dead = 1 - mario'.alive
<1> DEFINE s == draw_screen(bg, level', mario')
<1>1. /\ s \in Screen /\ s.level = level'
      /\ s.pos_x = mario'.pos_x_curr /\ s.pos_y = mario'.pos_y_curr
      /\ s.dead = 1 - mario'.alive /\ s.idx = mario'.idx
      /\ s.level2_active = mario'.level2_active
  BY Drawn
<1> HIDE DEF s
<1>2. screen' = s BY DEF s
<1> QED BY <1>1, <1>2 DEF FaithfulPicture, SpinesAsDrawn

\* BeginLevel begins a life.
LEMMA Begun ==
  ASSUME IInv, NEW lv \in {1, 2}, BeginLevel(lv)
  PROVE  /\ mario' \in Mario /\ mario'.alive = 1
         /\ mario'.level2_active = RESET_LEVEL2
         /\ JumpBudget'
         /\ pc' = "play" /\ level' = lv /\ retry' = retry
         /\ keycode_curr' = keycode_curr
         /\ loaded' \in 0 .. 2 /\ beyond' \in Beyond
         /\ screen' = draw_screen(0, level', mario')
<1> DEFINE m == mario_move_init(mario, lv)
<1>1. mario \in Mario /\ mario.jump_ct <= mario.dir_ct
  BY DEF IInv, TypeOK, JumpBudget
<1>2. Fresh(m) /\ m.jump_ct <= m.dir_ct
  <2>1. lv \in 0 .. 3 OBVIOUS
  <2> QED BY <1>1, <2>1, MoveInit
<1>3. mario' \in handle_keycode(m, Blocks, KEYBOARD_NONE) BY DEF BeginLevel
<1> HIDE DEF m
<1>4. m \in Mario /\ KEYBOARD_NONE \in Nat BY <1>2 DEF Fresh, KEYBOARD_NONE
<1>5. /\ mario' \in Mario
      /\ mario'.alive = m.alive /\ mario'.level2_active = m.level2_active
      /\ mario'.jump_ct <= mario'.dir_ct
  BY <1>2, <1>3, <1>4, HandleKeycode
<1> QED BY <1>2, <1>5 DEF Fresh, JumpBudget, BeginLevel, Load

\* So does BeginLevel0, on the start screen.
LEMMA Begun0 ==
  ASSUME IInv, BeginLevel0(mario)
  PROVE  /\ mario' \in Mario /\ mario'.alive = 1
         /\ JumpBudget'
         /\ pc' = "level0" /\ level' = 0
         /\ loaded' \in 0 .. 2 /\ beyond' \in Beyond
<1>1. mario \in Mario /\ mario.jump_ct <= mario.dir_ct
  BY DEF IInv, TypeOK, JumpBudget
<1>2. mario' = mario_move_init(mario, 0) BY DEF BeginLevel0
<1>3. Fresh(mario') /\ mario'.jump_ct <= mario'.dir_ct
  <2>1. 0 \in 0 .. 3 OBVIOUS
  <2> QED BY <1>1, <1>2, <2>1, MoveInit
<1> QED BY <1>3 DEF Fresh, JumpBudget, BeginLevel0, Load

\* A frame of motion: what it does to Mario and what handle_level may say.
LEMMA Frame ==
  ASSUME IInv, NEW k \in Keys, FrameMoves(k)
  PROVE  \E moved, lev :
           /\ moved \in Mario
           /\ moved.alive = 1 /\ moved.level2_active = mario.level2_active
           /\ moved.jump_ct <= moved.dir_ct
           /\ Free(Blocks, mario) => Free(Blocks, moved)
           /\ ~JumpHonoured(mario, Low(GameKey(k, keycode_curr))) /\ moved.speed_y_curr < 0
                => moved.speed_y_curr >= mario.speed_y_curr
           /\ Judged(moved, level, lev) /\ Outcome(moved, lev)
<1> DEFINE gk == GameKey(k, keycode_curr)
<1>1. /\ mario \in Mario /\ mario.jump_ct <= mario.dir_ct
      /\ pc = "play" /\ level \in {1, 2}
  BY DEF IInv, TypeOK, JumpBudget, LevelOfLoop, FrameMoves
<1>2. mario.alive = 1 BY <1>1, Alive
<1>3. gk \in Nat
  <2>1. k \in 0 .. KEYCODE_UPPER BY KeysAssumption
  <2>2. gk = k \/ gk = KEYBOARD_NONE BY DEF GameKey
  <2> QED BY <2>1, <2>2 DEF KEYBOARD_NONE
<1>4. PICK moved \in handle_keycode(mario, Blocks, gk) :
        Outcome(moved, handle_level(moved, level, Spikes, spine'))
  BY Zenon DEF FrameMoves
<1> HIDE DEF gk
<1>5. /\ moved \in Mario
      /\ moved.alive = mario.alive /\ moved.level2_active = mario.level2_active
      /\ moved.jump_ct <= moved.dir_ct
      /\ Free(Blocks, mario) => Free(Blocks, moved)
      /\ ~JumpHonoured(mario, Low(gk)) /\ moved.speed_y_curr < 0
           => moved.speed_y_curr >= mario.speed_y_curr
  BY <1>1, <1>3, HandleKeycode
<1>6. Judged(moved, level, handle_level(moved, level, Spikes, spine'))
  BY <1>1, <1>5, HandleLevel
<1> QED BY <1>2, <1>4, <1>5, <1>6 DEF gk

LEMMA Initially == Init => IInv
<1> SUFFICES ASSUME Init PROVE IInv OBVIOUS
<1>1. mario = [pos_x_curr |-> 250, pos_y_curr |-> 128, idx |-> 2, alive |-> 1,
               jump_ct |-> 0, dir_ct |-> 0, speed_x_curr |-> 0,
               speed_y_curr |-> 0, level2_active |-> 2]
  <2>1. mario = [NoMario EXCEPT !.pos_x_curr = 250, !.pos_y_curr = 128, !.idx = 2,
                                !.alive = 1, !.level2_active = 2]
    BY DEF Init, mario_move_init, AtMenu, STAND_LEFT, MARIO_ALIVE, RESET_LEVEL2
  <2> QED BY <2>1 DEF NoMario
<1>2. mario \in Mario BY <1>1, MarioNumbers
<1>3. screen \in Screen BY DEF Init, Screen
<1> QED BY <1>1, <1>2, <1>3 DEF Init, IInv, TypeOK, DeathShown, FaithfulPicture,
           JumpBudget, LevelOfLoop, SpinesAsDrawn

LEMMA InductiveStep == IInv /\ [Next]_vars => IInv'
<1> SUFFICES ASSUME IInv, [Next]_vars PROVE IInv' OBVIOUS
<1>u. CASE UNCHANGED vars
  BY <1>u DEF IInv, vars, TypeOK, DeathShown, FaithfulPicture, JumpBudget,
              LevelOfLoop, SpinesAsDrawn
<1>n. CASE Next
  <2>0. PICK k \in Keys : Poll(k) BY <1>n DEF Next
  <2>p. key' \in Keys \cup {NO_KEY} /\ spine' \in SpineStops
    BY <2>0, Polled DEF Poll
  <2>t. /\ pc \in {"level0", "play", "wait", "level3"}
        /\ level \in 0 .. 3 /\ retry \in {1, 2} /\ loaded \in 0 .. 2
        /\ mario \in Mario
        /\ keycode_curr \in Keys \cup {NO_KEY, KEYBOARD_R}
        /\ beyond \in Beyond /\ screen \in Screen
    BY DEF IInv, TypeOK
  <2>l. LevelOfLoop BY DEF IInv
  \* What is left to show when a frame has been drawn, given its loop.
  <2>d. ASSUME /\ mario' \in Mario /\ JumpBudget'
               /\ pc' \in {"level0", "play", "wait", "level3"} /\ LevelOfLoop'
               /\ pc' # "wait" => mario'.alive = 1
               /\ level' \in 0 .. 3 /\ retry' \in {1, 2} /\ loaded' \in 0 .. 2
               /\ keycode_curr' \in Keys \cup {NO_KEY, KEYBOARD_R}
               /\ beyond' \in Beyond,
               NEW bg \in {0, 1}, screen' = draw_screen(bg, level', mario')
        PROVE  IInv'
    <3>1. /\ screen' \in Screen /\ FaithfulPicture' /\ SpinesAsDrawn'
          /\ screen'.dead = 1 - mario'.alive
      BY <2>d, Redrawn
    <3>2. TypeOK' BY <2>p, <2>d, <3>1 DEF TypeOK
    <3>3. DeathShown' BY <2>d, <3>1 DEF DeathShown
    <3> QED BY <2>d, <3>1, <3>2, <3>3 DEF IInv
  \* When nothing but the key has been read.
  <2>w. ASSUME UNCHANGED <<pc, level, retry, mario, keycode_curr, loaded, beyond, screen>>
        PROVE  IInv'
    BY <2>w, <2>p DEF IInv, TypeOK, DeathShown, FaithfulPicture, JumpBudget,
                     LevelOfLoop, SpinesAsDrawn
  <2>1. CASE Level0Waits(k)
    <3>1. pc = "level0" /\ mario.alive = 1 BY <2>1, Alive DEF Level0Waits
    <3>2. mario.idx \in 0 .. 5 BY <2>t DEF Mario
    <3>3. mario' = [mario EXCEPT !.idx = 5 - mario.idx]
      BY <2>1 DEF Level0Waits, STAND_LEFT, RUN_LEFT
    <3>4. 5 - mario.idx \in 0 .. 5 BY <3>2
    <3>5. mario' \in Mario BY <2>t, <3>3, <3>4 DEF Mario
    <3>6. mario'.alive = 1 /\ JumpBudget'
      BY <2>t, <3>1, <3>3 DEF Mario, JumpBudget, IInv
    <3>7. screen' = draw_screen(0, level', mario') BY <2>1 DEF Level0Waits
    <3> QED BY <2>1, <2>d, <2>l, <2>t, <3>5, <3>6, <3>7 DEF Level0Waits, LevelOfLoop
  <2>2. CASE Level0Starts(k)
    <3>1. BeginLevel(1) BY <2>2 DEF Level0Starts
    <3> QED BY <2>d, <2>t, <3>1, Begun DEF LevelOfLoop
  <2>3. CASE FrameRestart(k)
    BY <2>3, <2>d, <2>l, <2>t DEF FrameRestart, WaitForR, LevelOfLoop, JumpBudget, IInv
  <2>4. CASE FrameEscape(k)
    <3>1. /\ mario' \in Mario /\ mario'.alive = 1 /\ JumpBudget'
          /\ pc' = "level0" /\ level' = 0
          /\ loaded' \in 0 .. 2 /\ beyond' \in Beyond
      BY <2>4, Begun0 DEF FrameEscape
    <3>2. screen' \in Screen
      BY <2>4, <2>t, Drawn DEF FrameEscape
    <3> QED BY <2>4, <2>p, <2>t, <3>1, <3>2 DEF FrameEscape, IInv, TypeOK, DeathShown,
              FaithfulPicture, LevelOfLoop, SpinesAsDrawn
  <2>5. CASE FrameMoves(k)
    <3>1. PICK moved, lev :
            /\ moved \in Mario
            /\ moved.alive = 1 /\ moved.jump_ct <= moved.dir_ct
            /\ Judged(moved, level, lev) /\ Outcome(moved, lev)
      BY <2>5, Frame
    <3>2. /\ pc = "play" /\ keycode_curr' = k /\ level \in {1, 2}
      BY <2>5, <2>l DEF FrameMoves, LevelOfLoop
    <3>3. /\ lev.mario \in Mario /\ lev.mario.jump_ct <= lev.mario.dir_ct
          /\ lev.flag \in {"LEVEL_CURR", "LEVEL_RESTART", "LEVEL_BEFORE",
                           "LEVEL_SWITCH", "LEVEL_NEXT"}
          /\ lev.flag \in {"LEVEL_CURR", "LEVEL_SWITCH"} => lev.mario.alive = 1
          /\ lev.flag = "LEVEL_SWITCH" => lev.mario.level2_active = moved.level2_active
      BY <3>1 DEF Judged
    <3>4. CASE lev.flag = "LEVEL_CURR"
      BY <2>d, <2>t, <3>1, <3>2, <3>3, <3>4 DEF Outcome, JumpBudget, LevelOfLoop
    <3>5. CASE lev.flag = "LEVEL_RESTART"
      BY <2>d, <2>t, <3>1, <3>2, <3>3, <3>5 DEF Outcome, WaitForR, JumpBudget, LevelOfLoop
    <3>6. CASE lev.flag = "LEVEL_BEFORE"
      BY <2>d, <2>t, <3>1, <3>2, <3>3, <3>6 DEF Outcome, WaitForR, JumpBudget, LevelOfLoop
    <3>7. CASE lev.flag = "LEVEL_SWITCH"
      <4>1. /\ mario' = lev.mario /\ screen' = draw_screen(0, level, moved)
            /\ level' = 3 - level /\ Load(3 - level) /\ UNCHANGED <<pc, retry>>
        BY <3>1, <3>7 DEF Outcome
      <4>2. /\ screen' \in Screen /\ screen'.level = level
            /\ screen'.level2_active = moved.level2_active
        <5>1. level \in 0 .. 3 /\ 0 \in {0, 1} BY <3>2
        <5> QED BY <3>1, <4>1, <5>1, Drawn
      <4>3. level' \in {1, 2} /\ level' # level BY <3>2, <4>1
      <4> QED BY <2>p, <2>t, <3>2, <3>3, <3>7, <4>1, <4>2, <4>3
              DEF IInv, TypeOK, DeathShown, FaithfulPicture, JumpBudget,
                  LevelOfLoop, SpinesAsDrawn, Load
    <3>8. CASE lev.flag = "LEVEL_NEXT"
      <4>1. /\ mario' = mario_move_init(lev.mario, 3)
            /\ screen' = draw_screen(1, 3, mario')
            /\ pc' = "level3" /\ level' = 3
            /\ UNCHANGED <<retry, loaded, beyond>>
        BY <3>1, <3>8 DEF Outcome
      <4>2. Fresh(mario') /\ mario'.jump_ct <= mario'.dir_ct
        <5>1. 3 \in 0 .. 3 OBVIOUS
        <5> QED BY <3>3, <4>1, <5>1, MoveInit
      <4> QED BY <2>d, <2>t, <3>2, <4>1, <4>2 DEF Fresh, JumpBudget, LevelOfLoop
    <3> QED BY <3>3, <3>4, <3>5, <3>6, <3>7, <3>8
  <2>6. CASE WaitGoesOn(k) BY <2>6, <2>w DEF WaitGoesOn
  <2>7. CASE WaitEnds(k)
    <3>1. BeginLevel(retry) BY <2>7 DEF WaitEnds
    <3> QED BY <2>d, <2>t, <3>1, Begun DEF LevelOfLoop
  <2>8. CASE Level3Waits(k) BY <2>8, <2>w DEF Level3Waits
  <2>9. CASE Level3Ends(k)
    <3>1. /\ mario' \in Mario /\ mario'.alive = 1 /\ JumpBudget'
          /\ pc' = "level0" /\ level' = 0
          /\ loaded' \in 0 .. 2 /\ beyond' \in Beyond
      BY <2>9, Begun0 DEF Level3Ends
    <3> QED BY <2>9, <2>p, <2>t, <3>1 DEF Level3Ends, IInv, TypeOK, DeathShown,
              FaithfulPicture, LevelOfLoop, SpinesAsDrawn
  <2> QED BY <2>0, <2>1, <2>2, <2>3, <2>4, <2>5, <2>6, <2>7, <2>8, <2>9 DEF Poll
<1> QED BY <1>u, <1>n

LEMMA Invariance == Spec => []IInv
BY Initially, InductiveStep, PTL DEF Spec

-----------------------------------------------------------------------------
(* Theorems.                                                               *)

\* TypeOK: in every game, whatever is pressed, whatever the maps hold and
\* whatever lies behind them, Mario's corner stays on the screen, his counters
\* stay in their limits and no field of the word at 0x90 loses a bit.
THEOREM TypeCorrect == Spec => []TypeOK
<1>1. IInv => TypeOK BY DEF IInv
<1> QED BY Invariance, <1>1, PTL

\* DeathShown: main never plays on with a Mario that handle_level has killed,
\* and the death message is up whenever he is dead.
THEOREM DeathAlwaysShown == Spec => []DeathShown
<1>1. IInv => DeathShown BY DEF IInv
<1> QED BY Invariance, <1>1, PTL

\* FaithfulPicture: what draw_screen wrote last is Mario as he is, in every
\* loop of main, but for the one frame after a change of level.
THEOREM PictureFaithful == Spec => []FaithfulPicture
<1>1. IInv => FaithfulPicture BY DEF IInv
<1> QED BY Invariance, <1>1, PTL

\* JumpBudget: handle_keycode never counts more jumps than direction keys.
THEOREM JumpsBudgeted == Spec => []JumpBudget
<1>1. IInv => JumpBudget BY DEF IInv
<1> QED BY Invariance, <1>1, PTL

\* SpinesHeldBack: handle_level never reads a moving spine before Mario has
\* set the spines off in this life.
THEOREM SpinesStayBack == Spec => SpinesHeldBack
<1>1. IInv /\ [Next]_vars =>
        [pc = "play" /\ mario.level2_active = RESET_LEVEL2 => spine' = 0]_vars
  <2> SUFFICES ASSUME IInv, Next, pc = "play", mario.level2_active = RESET_LEVEL2
               PROVE  spine' = 0
    OBVIOUS
  <2>1. spine' \in SpinesMove BY DEF Next, Poll
  <2>2. screen.level2_active = 2 BY DEF IInv, SpinesAsDrawn, RESET_LEVEL2
  <2> QED BY <2>1, <2>2 DEF SpinesMove, SpineAfter, ResetSpines
<1> QED BY Invariance, <1>1, PTL DEF Spec, SpinesHeldBack

\* A step that starts and ends in a game loop is a frame of motion.
LEMMA Motion ==
  ASSUME IInv, NEW k \in Keys, Poll(k), pc = "play", level' = level
  PROVE  FrameRestart(k) \/ FrameMoves(k)
<1>1. level \in {1, 2} BY DEF IInv, LevelOfLoop
<1>2. FrameRestart(k) \/ FrameEscape(k) \/ FrameMoves(k)
  BY DEF Poll, Level0Waits, Level0Starts, WaitGoesOn, WaitEnds, Level3Waits, Level3Ends
<1>3. ~FrameEscape(k) BY <1>1 DEF FrameEscape, BeginLevel0
<1> QED BY <1>2, <1>3

\* NoWallEntry: on every map, at every speed the game can reach, a frame that
\* begins with Mario clear of the blocks and on the screen ends so.
THEOREM WallsHold == Spec => NoWallEntry
<1>1. IInv /\ [Next]_vars =>
        [pc = "play" /\ level' = level /\ MarioFree => MarioFree']_vars
  <2> SUFFICES ASSUME IInv, Next, pc = "play", level' = level, MarioFree
               PROVE  MarioFree'
    OBVIOUS
  <2>0. PICK k \in Keys : Poll(k) BY DEF Next
  <2>1. CASE FrameRestart(k) BY <2>1 DEF FrameRestart, MarioFree, Blocks
  <2>2. CASE FrameMoves(k)
    <3>1. PICK moved, lev :
            /\ moved \in Mario
            /\ Free(Blocks, mario) => Free(Blocks, moved)
            /\ Judged(moved, level, lev) /\ Outcome(moved, lev)
      BY <2>2, Frame
    <3>2. Free(Blocks, moved) BY <3>1 DEF MarioFree, Free
    <3>3. level \in {1, 2} BY DEF IInv, LevelOfLoop
    <3>4. /\ lev.flag \in {"LEVEL_CURR", "LEVEL_RESTART", "LEVEL_BEFORE",
                           "LEVEL_SWITCH", "LEVEL_NEXT"}
          /\ lev.flag # "LEVEL_SWITCH" =>
               /\ lev.mario.pos_x_curr = moved.pos_x_curr
               /\ lev.mario.pos_y_curr = moved.pos_y_curr
      BY <3>1 DEF Judged
    <3>5. CASE lev.flag \in {"LEVEL_CURR", "LEVEL_RESTART", "LEVEL_BEFORE"}
      <4>1. mario' = lev.mario /\ UNCHANGED <<loaded, beyond>>
        BY <3>1, <3>5 DEF Outcome
      <4>2. Blocks' = Blocks BY <4>1 DEF Blocks
      <4>3. /\ mario'.pos_x_curr = moved.pos_x_curr
            /\ mario'.pos_y_curr = moved.pos_y_curr
        BY <3>4, <3>5, <4>1
      <4> QED BY <3>2, <4>2, <4>3 DEF MarioFree, Free
    <3>6. CASE lev.flag = "LEVEL_SWITCH" BY <3>1, <3>3, <3>6 DEF Outcome
    <3>7. CASE lev.flag = "LEVEL_NEXT" BY <3>1, <3>3, <3>7 DEF Outcome
    <3> QED BY <3>4, <3>5, <3>6, <3>7
  <2> QED BY <2>0, <2>1, <2>2, Motion
<1> QED BY Invariance, <1>1, PTL DEF Spec, NoWallEntry

\* NoFreeAscent: Mario gains upward speed only by a W that both of
\* handle_keycode's counters still allow.
THEOREM AscentIsPaid == Spec => NoFreeAscent
<1>1. IInv /\ [Next]_vars =>
        [pc = "play" /\ pc' = "play"
           /\ mario'.speed_y_curr < mario.speed_y_curr /\ mario'.speed_y_curr < 0
         => /\ Low(key') = KEYBOARD_W
            /\ mario.jump_ct < JUMP_LIMIT /\ mario.dir_ct < DIR_LIMIT]_vars
  <2> SUFFICES ASSUME IInv, Next, pc = "play", pc' = "play",
                      mario'.speed_y_curr < mario.speed_y_curr, mario'.speed_y_curr < 0
               PROVE  /\ Low(key') = KEYBOARD_W
                      /\ mario.jump_ct < JUMP_LIMIT /\ mario.dir_ct < DIR_LIMIT
    OBVIOUS
  <2>0. PICK k \in Keys : Poll(k) BY DEF Next
  <2>1. FrameMoves(k)
    BY <2>0 DEF Poll, Level0Waits, Level0Starts, FrameRestart, FrameEscape, BeginLevel0,
                WaitForR, WaitGoesOn, WaitEnds, Level3Waits, Level3Ends
  <2> DEFINE gk == GameKey(k, keycode_curr)
  <2>2. PICK moved, lev :
          /\ moved \in Mario
          /\ ~JumpHonoured(mario, Low(gk)) /\ moved.speed_y_curr < 0
               => moved.speed_y_curr >= mario.speed_y_curr
          /\ Judged(moved, level, lev) /\ Outcome(moved, lev)
    BY <2>1, Frame
  <2>3. mario'.speed_y_curr = moved.speed_y_curr
    <3>1. /\ lev.flag \in {"LEVEL_CURR", "LEVEL_RESTART", "LEVEL_BEFORE",
                           "LEVEL_SWITCH", "LEVEL_NEXT"}
          /\ lev.mario.speed_y_curr = moved.speed_y_curr
      BY <2>2 DEF Judged
    <3>2. lev.flag # "LEVEL_NEXT" BY <2>2 DEF Outcome
    <3>3. mario' = lev.mario BY <2>2, <3>1, <3>2 DEF Outcome
    <3> QED BY <3>1, <3>3
  <2>4. mario.speed_y_curr \in Int /\ moved.speed_y_curr \in Int
    BY <2>2 DEF IInv, TypeOK, Mario
  <2>5. JumpHonoured(mario, Low(gk)) BY <2>2, <2>3, <2>4
  <2>6. Low(gk) = KEYBOARD_W /\ mario.jump_ct < JUMP_LIMIT /\ mario.dir_ct < DIR_LIMIT
    BY <2>5 DEF JumpHonoured, DirHonoured
  <2>7. gk = k
    <3>1. Low(KEYBOARD_NONE) # KEYBOARD_W BY DEF Low, KEYBOARD_NONE, KEYBOARD_W
    <3> QED BY <2>6, <3>1 DEF GameKey
  <2>8. key' = k BY <2>0 DEF Poll
  <2> QED BY <2>6, <2>7, <2>8
<1> QED BY Invariance, <1>1, PTL DEF Spec, NoFreeAscent

\* StalePictureLastsOneFrame: after LEVEL_SWITCH the next frame is drawn in
\* the level that main is in, or in the one it goes on to.
THEOREM StaleOnce == Spec => StalePictureLastsOneFrame
<1>1. IInv /\ [Next]_vars =>
        [pc = "play" /\ screen.level # level => screen'.level \in {level, level'}]_vars
  <2> SUFFICES ASSUME IInv, Next, pc = "play"
               PROVE  screen'.level \in {level, level'}
    OBVIOUS
  <2>0. PICK k \in Keys : Poll(k) BY DEF Next
  <2>m. mario \in Mario /\ level \in 0 .. 3 /\ level \in {1, 2}
    BY DEF IInv, TypeOK, LevelOfLoop
  <2>d. \A m \in Mario : draw_screen(0, level, m).level = level BY <2>m, Drawn
  <2>1. CASE FrameRestart(k) BY <2>1, <2>d, <2>m DEF FrameRestart
  <2>2. CASE FrameEscape(k) BY <2>2, <2>d, <2>m DEF FrameEscape
  <2>3. CASE FrameMoves(k)
    <3>1. PICK moved, lev : moved \in Mario /\ Judged(moved, level, lev) /\ Outcome(moved, lev)
      BY <2>3, Frame
    <3>2. /\ lev.mario \in Mario
          /\ lev.flag \in {"LEVEL_CURR", "LEVEL_RESTART", "LEVEL_BEFORE",
                           "LEVEL_SWITCH", "LEVEL_NEXT"}
      BY <3>1 DEF Judged
    <3>3. CASE lev.flag \in {"LEVEL_CURR", "LEVEL_RESTART", "LEVEL_BEFORE"}
      BY <3>1, <3>2, <3>3, <2>d DEF Outcome
    <3>4. CASE lev.flag = "LEVEL_SWITCH" BY <3>1, <3>4, <2>d DEF Outcome
    <3>5. CASE lev.flag = "LEVEL_NEXT"
      <4>1. /\ mario' = mario_move_init(lev.mario, 3) /\ level' = 3
            /\ screen' = draw_screen(1, 3, mario')
        BY <3>1, <3>5 DEF Outcome
      <4>2. 3 \in 0 .. 3 /\ 1 \in {0, 1} OBVIOUS
      <4>3. mario' \in Mario BY <3>2, <4>1, <4>2, MoveInit DEF Fresh
      <4>4. draw_screen(1, 3, mario').level = 3 BY <4>2, <4>3, Drawn
      <4> QED BY <4>1, <4>4
    <3> QED BY <3>2, <3>3, <3>4, <3>5
  <2> QED BY <2>0, <2>1, <2>2, <2>3
          DEF Poll, Level0Waits, Level0Starts, WaitGoesOn, WaitEnds, Level3Waits, Level3Ends
<1> QED BY Invariance, <1>1, PTL DEF Spec, StalePictureLastsOneFrame

-----------------------------------------------------------------------------
(* The first frame of a life.                                              *)

\* Where Mario is after the fall that begins a life: the maps of any level
\* may be loaded, he does not move sideways and falls by less than a block.
StartX(lv) == IF lv = 1 THEN 100 ELSE 580
StartY(lv) == IF lv = 1 THEN 376 ELSE 255

LEMMA FirstFall ==
  ASSUME NEW blocks, NEW m \in Mario, NEW lv \in {1, 2},
         NEW r \in handle_keycode(mario_move_init(m, lv), blocks, KEYBOARD_NONE)
  PROVE  /\ r.pos_x_curr = StartX(lv)
         /\ r.pos_y_curr \in StartY(lv) .. StartY(lv) + 8
<1> DEFINE s == mario_move_init(m, lv)
           c == Counted(s, Low(KEYBOARD_NONE))
           e == EffectiveKey(s, Low(KEYBOARD_NONE))
<1>1. /\ s.pos_x_curr = StartX(lv) /\ s.pos_y_curr = StartY(lv)
      /\ s.speed_x_curr = 0 /\ s.speed_y_curr = 0
  <2>1. mario_move_init(m, 1) = AtRest(m, 100, 376, STAND_RIGHT)
    BY DEF mario_move_init, MARIO_X, MARIO_Y, Y_UPPER, BLOCK_WIDTH
  <2>2. mario_move_init(m, 2) = AtRest(m, 580, 255, STAND_LEFT)
    BY DEF mario_move_init, MARIO_X, MARIO_Y, X_UPPER, Y_UPPER, BLOCK_WIDTH
  <2>3. \A x, y, idx : LET t == AtRest(m, x, y, idx) IN
          /\ t.pos_x_curr = x /\ t.pos_y_curr = y
          /\ t.speed_x_curr = 0 /\ t.speed_y_curr = 0
    BY DEF AtRest, Mario
  <2>4. CASE lv = 1 BY <2>1, <2>3, <2>4 DEF StartX, StartY
  <2>5. CASE lv = 2 BY <2>2, <2>3, <2>5 DEF StartX, StartY
  <2> QED BY <2>4, <2>5
<1>2. s \in Mario
  <2>1. lv \in 0 .. 3 OBVIOUS
  <2> QED BY <2>1, MoveInit DEF Fresh
<1>3. e = KEYBOARD_NONE
  BY DEF EffectiveKey, Low, KEYBOARD_NONE, DirectionKeys, KEYBOARD_A, KEYBOARD_D, KEYBOARD_W, NO_KEY
<1>4. r \in mario_move_update(c, blocks, e) BY Zenon DEF handle_keycode
<1> HIDE DEF s
<1>5. /\ c \in Mario
      /\ c.pos_x_curr = StartX(lv) /\ c.pos_y_curr = StartY(lv)
      /\ c.speed_x_curr = 0 /\ c.speed_y_curr = 0
  BY <1>1, <1>2, CountedMario
<1> HIDE DEF c, e
<1>6. AccX(c, blocks, e) = 0 /\ AccY(e) = 8
  <2>1. e \notin {KEYBOARD_A, KEYBOARD_D, KEYBOARD_W}
    BY <1>3 DEF KEYBOARD_NONE, KEYBOARD_A, KEYBOARD_D, KEYBOARD_W
  <2>2. AccX(c, blocks, e) = Friction(0) BY <1>5, <2>1 DEF AccX
  <2>3. Friction(0) = 0
    <3>1. ~(Abs(0) + MARIO_X_ACC > 0) BY DEF Abs, MARIO_X_ACC
    <3>2. Friction(0) = -0 BY <3>1, Zenon DEF Friction
    <3> QED BY <3>2
  <2>4. AccY(e) = 8 BY <2>1 DEF AccY, MARIO_Y_ACC
  <2> QED BY <2>2, <2>3, <2>4
<1>7. PICK moved \in get_speed(c, blocks, AccX(c, blocks, e), AccY(e)) :
        r = Landed(moved, c.idx, blocks, e)
  BY <1>4, Zenon DEF mario_move_update
<1>8. PICK dy \in update_y(c, blocks, c.speed_y_curr + AccY(e)) :
        \E dx \in update_x(c, blocks, c.speed_x_curr + AccX(c, blocks, e), dy) :
           moved = Displaced(c, dx, dy)
  BY Zenon, <1>7 DEF get_speed
<1>9. PICK dx \in update_x(c, blocks, c.speed_x_curr + AccX(c, blocks, e), dy) :
        moved = Displaced(c, dx, dy)
  BY <1>8
<1>10. dy \in 0 .. 8
  <2>1. dy \in update_y(c, blocks, 8) BY <1>5, <1>6, <1>8
  <2>2. dy \in Int /\ 0 <= dy /\ dy <= 8 BY <1>5, <2>1, UpdateY
  <2> QED BY <2>2
<1>11. dx = 0
  <2>1. dx \in update_x(c, blocks, 0, dy) BY <1>5, <1>6, <1>9
  <2>2. PICK k \in ScanEnd(0, {}) : dx = Clamped(Travelled(0, k))
    <3>1. Abs(0) = 0 BY DEF Abs
    <3>2. {j \in 0 .. (Abs(0) - 1) :
             ~can_move(blocks, c.pos_x_curr + Sign(0) * j, c.pos_y_curr + dy)} = {}
      BY <3>1
    <3> QED BY <2>1, <3>1, <3>2 DEF update_x
  <2>3. k = 0 BY Zenon, <2>2 DEF ScanEnd
  <2> QED BY <2>2, <2>3 DEF Travelled, Clamped, MARIO_X_SPEED_UPPER
<1>12. moved \in Mario
  <2>1. AccX(c, blocks, e) \in Int /\ AccY(e) \in Int BY <1>5, Accelerations
  <2> QED BY <1>5, <1>7, <2>1, GetSpeed
<1>13. /\ moved.pos_x_curr = c.pos_x_curr + dx /\ moved.pos_y_curr = c.pos_y_curr + dy
  BY <1>5, <1>9 DEF Displaced, Mario
<1>14. r.pos_x_curr = moved.pos_x_curr /\ r.pos_y_curr = moved.pos_y_curr
  BY <1>7, <1>12, LandedThere
<1> QED BY <1>5, <1>10, <1>11, <1>13, <1>14 DEF StartX, StartY

\* RefinesFlow: the labels and gotos of main implement GameFlow.
THEOREM FlowImplemented == Spec => RefinesFlow
<1>1. Init => Flow!Init
  BY DEF Init, Flow!Init
<1>2. IInv /\ [Next]_vars => [Flow!Next]_(Flow!flow)
  <2> DEFINE place == IF pc = "wait" THEN retry ELSE level
             spines == IF pc \in {"play", "wait"} /\ mario.level2_active = ACTIVE_LEVEL2
                       THEN "out" ELSE "in"
  <2> SUFFICES ASSUME IInv, [Next]_vars PROVE [Flow!Next]_<<pc, place, spines>>
    BY DEF Flow!flow
  <2>u. CASE UNCHANGED vars BY <2>u DEF vars
  <2>n. CASE Next
    <3>0. PICK k \in Keys : Poll(k) BY <2>n DEF Next
    <3>l. LevelOfLoop BY DEF IInv
    <3>a. RESET_LEVEL2 # ACTIVE_LEVEL2 BY DEF RESET_LEVEL2, ACTIVE_LEVEL2
    <3>r. retry \in {1, 2} BY DEF IInv, TypeOK
    <3>1. CASE Level0Waits(k) BY <3>1 DEF Level0Waits
    <3>2. CASE Level0Starts(k)
      <4>1. BeginLevel(1) /\ pc = "level0" BY <3>2 DEF Level0Starts
      <4>2. pc' = "play" /\ level' = 1 /\ mario'.level2_active = RESET_LEVEL2
        BY <4>1, Begun
      <4> QED BY <4>1, <4>2, <3>a DEF Flow!Next, Flow!Begin
    <3>3. CASE FrameRestart(k)
      BY <3>3, <3>l DEF FrameRestart, WaitForR, Flow!Next, Flow!Fail
    <3>4. CASE FrameEscape(k)
      BY <3>4 DEF FrameEscape, BeginLevel0, Flow!Next, Flow!Quit
    <3>5. CASE FrameMoves(k)
      <4>1. PICK moved, lev :
              /\ moved \in Mario
              /\ moved.level2_active = mario.level2_active
              /\ Judged(moved, level, lev) /\ Outcome(moved, lev)
        BY <3>5, Frame
      <4>2. pc = "play" /\ level \in {1, 2} BY <3>5, <3>l DEF FrameMoves, LevelOfLoop
      <4>3. /\ lev.flag \in {"LEVEL_CURR", "LEVEL_RESTART", "LEVEL_BEFORE",
                             "LEVEL_SWITCH", "LEVEL_NEXT"}
            /\ lev.flag \in {"LEVEL_BEFORE", "LEVEL_NEXT"} => level = 2
            /\ \/ lev.mario.level2_active = mario.level2_active
               \/ /\ level = 2 /\ lev.flag \in {"LEVEL_CURR", "LEVEL_RESTART"}
                  /\ lev.mario.level2_active = ACTIVE_LEVEL2
        BY <4>1 DEF Judged
      <4>4. CASE lev.flag = "LEVEL_CURR"
        <5>1. mario' = lev.mario /\ pc' = pc /\ level' = level BY <4>1, <4>4 DEF Outcome
        <5> QED BY <4>2, <4>3, <5>1 DEF Flow!Next, Flow!Release
      <4>5. CASE lev.flag = "LEVEL_RESTART"
        <5>1. mario' = lev.mario /\ pc' = "wait" /\ retry' = level /\ level' = level
          BY <4>1, <4>5 DEF Outcome, WaitForR
        <5> QED BY <4>2, <4>3, <5>1 DEF Flow!Next, Flow!Fail
      <4>6. CASE lev.flag = "LEVEL_BEFORE"
        <5>1. mario' = lev.mario /\ pc' = "wait" /\ retry' = 1 /\ level' = level
          BY <4>1, <4>6 DEF Outcome, WaitForR
        <5> QED BY <4>2, <4>3, <4>6, <5>1 DEF Flow!Next, Flow!Fail
      <4>7. CASE lev.flag = "LEVEL_SWITCH"
        <5>1. mario' = lev.mario /\ pc' = pc /\ level' = 3 - level
          BY <4>1, <4>7 DEF Outcome
        <5> QED BY <4>2, <4>3, <4>7, <5>1 DEF Flow!Next, Flow!Cross
      <4>8. CASE lev.flag = "LEVEL_NEXT"
        <5>1. pc' = "level3" /\ level' = 3 BY <4>1, <4>8 DEF Outcome
        <5> QED BY <4>2, <4>3, <4>8, <5>1 DEF Flow!Next, Flow!Succeed
      <4> QED BY <4>3, <4>4, <4>5, <4>6, <4>7, <4>8
    <3>6. CASE WaitGoesOn(k) BY <3>6 DEF WaitGoesOn
    <3>7. CASE WaitEnds(k)
      <4>1. BeginLevel(retry) /\ pc = "wait" BY <3>7 DEF WaitEnds
      <4>2. pc' = "play" /\ level' = retry /\ mario'.level2_active = RESET_LEVEL2
        BY <4>1, <3>r, Begun
      <4> QED BY <4>1, <4>2, <3>a DEF Flow!Next, Flow!Begin
    <3>8. CASE Level3Waits(k) BY <3>8 DEF Level3Waits
    <3>9. CASE Level3Ends(k)
      BY <3>9 DEF Level3Ends, BeginLevel0, Flow!Next, Flow!Finish
    <3> QED BY <3>0, <3>1, <3>2, <3>3, <3>4, <3>5, <3>6, <3>7, <3>8, <3>9 DEF Poll
  <2> QED BY <2>u, <2>n
<1> QED BY <1>1, <1>2, Invariance, PTL DEF Spec, RefinesFlow, Flow!Spec

\* There no wall, no spike and no trigger is near.
LEMMA StartClear ==
  ASSUME NEW lv \in {1, 2}, NEW b \in SUBSET BeyondArray, NEW x, NEW y,
         x = StartX(lv), y \in StartY(lv) .. StartY(lv) + 8
  PROVE  /\ can_move(level_block_info_init[lv] \cup b, x, y)
         /\ ~is_spike(level_spike_info_init[lv], x, y, lv, 0)
<1>1. /\ x \in 0 .. 600 /\ y \in 200 .. 400
      /\ lv = 1 => x = 100 /\ y \in 376 .. 384
      /\ lv = 2 => x = 580 /\ y \in 255 .. 263
  BY DEF StartX, StartY
<1>2. on_screen(x, y)
  BY <1>1 DEF on_screen, X_LOWER, X_UPPER, Y_LOWER, Y_UPPER, MARIO_X, MARIO_Y
<1>3. ASSUME NEW dx \in {0, 20}, NEW dy \in {0, 12, 24}
      PROVE  ~is_block(level_block_info_init[lv] \cup b, x + dx, y + dy)
  <2>1. x + dx \in 0 .. 639 /\ y + dy \in 0 .. 479 BY <1>1
  <2> DEFINE c == (x + dx) \div 20
             r == (y + dy) \div 20
  <2>2. /\ is_block(level_block_info_init[1] \cup b, x + dx, y + dy) <=> Brick1(c, r)
        /\ is_block(level_block_info_init[2] \cup b, x + dx, y + dy) <=> Brick2(c, r)
    BY <2>1, BlockAt
  <2>3. /\ lv = 1 => c \in 5 .. 6 /\ r \in 18 .. 20
        /\ lv = 2 => c \in 29 .. 30 /\ r \in 12 .. 14
    BY <1>1
  <2>4. (lv = 1 => ~Brick1(c, r)) /\ (lv = 2 => ~Brick2(c, r))
    <3> HIDE DEF c, r
    <3> QED BY <2>3 DEF Brick1, Brick2
  <2> QED BY <2>2, <2>4
<1>4. ~is_wall(level_block_info_init[lv] \cup b, x, y)
  BY <1>3 DEF is_wall, WallHeights, MARIO_X, MARIO_Y
<1>5. ASSUME NEW dx \in {0, 10, 20}, NEW dy \in {-1, 12, 23}
      PROVE  ~point_is_spike(level_spike_info_init[lv], x + dx, y + dy)
  <2>1. x + dx \in 0 .. 639 /\ y + dy \in 0 .. 479 BY <1>1
  <2> DEFINE c == (x + dx) \div 20
             r == (y + dy) \div 20
  <2>2. /\ block_index(x + dx, y + dy) \in level_spike_info_init[1] <=> Spike1(c, r)
        /\ block_index(x + dx, y + dy) \in level_spike_info_init[2] <=> Spike2(c, r)
    BY <2>1, SpikeAt
  <2>3. /\ lv = 1 => c \in 5 .. 6
        /\ lv = 2 => c \in 29 .. 30 /\ r \in 12 .. 14
    BY <1>1
  <2>4. (lv = 1 => ~Spike1(c, r)) /\ (lv = 2 => ~Spike2(c, r))
    <3> HIDE DEF c, r
    <3> QED BY <2>3 DEF Spike1, Spike2
  <2>5. block_index(x + dx, y + dy) \notin level_spike_info_init[lv] BY <2>2, <2>4
  <2> QED BY <2>5 DEF point_is_spike
<1>6. SpikePoints = {<<0, -1>>, <<0, 23>>, <<20, -1>>, <<20, 23>>, <<10, 12>>}
  BY DEF SpikePoints, MARIO_X, MARIO_Y
<1>7. \A p \in SpikePoints : p[1] \in {0, 10, 20} /\ p[2] \in {-1, 12, 23}
  BY <1>6
<1>8. ~\E p \in SpikePoints : point_is_spike(level_spike_info_init[lv], x + p[1], y + p[2])
  BY <1>5, <1>7
<1>9. ~level2_is_spike(x, y, 0) BY DEF level2_is_spike
<1> QED BY <1>2, <1>4, <1>8, <1>9, Zenon DEF can_move, is_spike

\* LifeStartsSafe: whatever level's maps the first fall of a life still uses
\* and whatever lies past them, it ends clear of the blocks of the level that
\* begins, off its spikes and outside the spines' trigger.
THEOREM LivesStartSafe == Spec => LifeStartsSafe
<1>1. IInv /\ [Next]_vars =>
        [pc # "play" /\ pc' = "play" =>
           /\ MarioFree'
           /\ ~Killed(mario', level', Spikes', 0)
           /\ ~OnTrigger(mario') /\ mario'.level2_active = RESET_LEVEL2]_vars
  <2> SUFFICES ASSUME IInv, Next, pc # "play", pc' = "play"
               PROVE  /\ MarioFree'
                      /\ ~Killed(mario', level', Spikes', 0)
                      /\ ~OnTrigger(mario') /\ mario'.level2_active = RESET_LEVEL2
    OBVIOUS
  <2>0. PICK k \in Keys : Poll(k) BY DEF Next
  <2>1. PICK lv \in {1, 2} : BeginLevel(lv)
    <3>1. Level0Starts(k) \/ WaitEnds(k)
      BY <2>0 DEF Poll, Level0Waits, FrameRestart, FrameEscape, FrameMoves, WaitGoesOn,
                  Level3Waits, Level3Ends, BeginLevel0
    <3>2. retry \in {1, 2} BY DEF IInv, TypeOK
    <3> QED BY <3>1, <3>2 DEF Level0Starts, WaitEnds
  <2>2. /\ mario' \in Mario /\ mario'.level2_active = RESET_LEVEL2
        /\ level' = lv /\ loaded' = lv /\ beyond' \in Beyond
    BY <2>1, Begun DEF BeginLevel, Load
  <2>3. /\ mario'.pos_x_curr = StartX(lv)
        /\ mario'.pos_y_curr \in StartY(lv) .. StartY(lv) + 8
    <3>1. mario' \in handle_keycode(mario_move_init(mario, lv), Blocks, KEYBOARD_NONE)
      BY <2>1 DEF BeginLevel
    <3>2. mario \in Mario BY DEF IInv, TypeOK
    <3> QED BY <3>1, <3>2, FirstFall
  <2>4. beyond' \in SUBSET BeyondArray BY <2>2, BeyondAssumption
  <2>5. /\ can_move(level_block_info_init[lv] \cup beyond', mario'.pos_x_curr, mario'.pos_y_curr)
        /\ ~is_spike(level_spike_info_init[lv], mario'.pos_x_curr, mario'.pos_y_curr, lv, 0)
    BY <2>3, <2>4, StartClear
  <2>6. /\ MarioFree' /\ ~is_spike(Spikes', mario'.pos_x_curr, mario'.pos_y_curr, level', 0)
    BY <2>2, <2>5 DEF MarioFree, Blocks, Spikes
  <2>7. ~out_screen(mario'.pos_x_curr, mario'.pos_y_curr) /\ ~OnTrigger(mario')
    BY <2>3 DEF out_screen, OnTrigger, StartX, StartY, MARIO_LOWER_LIMIT, MARIO_UPPER_LIMIT,
                MARIO_X, MARIO_Y, BLOCK_WIDTH
  <2> QED BY <2>2, <2>6, <2>7 DEF Killed
<1> QED BY Invariance, <1>1, PTL DEF Spec, LifeStartsSafe

-----------------------------------------------------------------------------
(* The end of the map.                                                     *)

\* The last pixel row in which a frame can leave Mario alive.
LOWEST == 446

LEMMA ScanSame ==
  ASSUME NEW n \in Nat, NEW blocked, NEW less \in SUBSET blocked,
         NEW k \in ScanEnd(n, blocked), k \in less \cup {n}
  PROVE  k \in ScanEnd(n, less)
<1>1. \A j \in blocked : k <= j BY Zenon DEF ScanEnd
<1>2. \A j \in less : k <= j BY <1>1
<1>3. k \in {i \in less \cup {n} : \A j \in less : i <= j} BY <1>2
<1>4. {i \in less \cup {n} : \A j \in less : i <= j} \in
        {{i \in s \cup {n} : \A j \in s : i <= j} : s \in {less}}
  OBVIOUS
<1> QED BY <1>3, <1>4, Zenon DEF ScanEnd

\* The vertical scan meets what lies past the map only at the bottom of the
\* screen: a fall that ends above does not depend on it.
LEMMA SameFall ==
  ASSUME NEW lv \in {1, 2}, NEW b \in SUBSET BeyondArray, NEW m \in Mario, NEW max \in Int,
         m.pos_y_curr <= LOWEST,
         NEW dy \in update_y(m, Seen(lv, b), max),
         m.pos_y_curr + dy <= LOWEST
  PROVE  dy \in update_y(m, level_block_info_init[lv], max)
<1> DEFINE map == level_block_info_init[lv]
           Blocked(w) == {j \in 0 .. (Abs(max) - 1) :
                            ~can_move(w, m.pos_x_curr, m.pos_y_curr + Sign(max) * j)}
           all  == Blocked(Seen(lv, b))
           less == Blocked(map)
<1>m. m.pos_x_curr \in Int /\ m.pos_y_curr \in 0 .. 446 BY MarioNumbers DEF LOWEST
<1>1. PICK k \in ScanEnd(Abs(max), all) : dy = Travelled(max, k) BY DEF update_y
<1>2. Abs(max) \in Nat /\ Sign(max) \in {-1, 0, 1} BY Distances
<1>3. \A j \in 0 .. (Abs(max) - 1) : m.pos_y_curr + Sign(max) * j # 456 =>
         (can_move(Seen(lv, b), m.pos_x_curr, m.pos_y_curr + Sign(max) * j)
           <=> can_move(map, m.pos_x_curr, m.pos_y_curr + Sign(max) * j))
  <2>1. \A y \in Int : y # 456 =>
          (can_move(Seen(lv, b), m.pos_x_curr, y) <=> can_move(map, m.pos_x_curr, y))
    BY <1>m, SameWalls
  <2>2. \A j \in 0 .. (Abs(max) - 1) : m.pos_y_curr + Sign(max) * j \in Int BY <1>m, <1>2
  <2> HIDE DEF map
  <2> QED BY <2>1, <2>2
<1>4. less \in SUBSET all
  <2>1. ASSUME NEW j \in less PROVE j \in all
    <3>1. j \in 0 .. (Abs(max) - 1)
          /\ ~can_move(map, m.pos_x_curr, m.pos_y_curr + Sign(max) * j)
      BY <2>1
    <3>2. ~can_move(Seen(lv, b), m.pos_x_curr, m.pos_y_curr + Sign(max) * j)
      <4>1. \A x, y : can_move(Seen(lv, b), x, y) => can_move(map, x, y)
        BY Zenon DEF can_move, is_wall, is_block, Seen
      <4> QED BY <3>1, <4>1
    <3> QED BY <3>1, <3>2
  <2> QED BY <2>1
<1>5. k \in less \cup {Abs(max)}
  <2>1. k \in all \cup {Abs(max)} BY <1>1, Zenon DEF ScanEnd
  <2>2. CASE k \in all /\ k \notin less
    <3>1. k \in 0 .. (Abs(max) - 1) /\ m.pos_y_curr + Sign(max) * k = 456 BY <1>3, <2>2
    <3>2. Sign(max) = 1 /\ k >= 1 BY <1>2, <1>m, <3>1
    <3>3. dy = k - 1 BY <1>1, <3>1, <3>2 DEF Travelled
    <3> QED BY <1>m, <3>1, <3>2, <3>3 DEF LOWEST
  <2> QED BY <2>1, <2>2
<1>6. k \in ScanEnd(Abs(max), less)
  <2> HIDE DEF all, less
  <2> QED BY <1>1, <1>2, <1>4, <1>5, ScanSame
<1> QED BY <1>1, <1>6 DEF update_y

LEMMA SameRun ==
  ASSUME NEW lv \in {1, 2}, NEW b \in SUBSET BeyondArray, NEW m \in Mario, NEW max \in Int,
         NEW dy \in Int, m.pos_y_curr + dy <= LOWEST
  PROVE  update_x(m, Seen(lv, b), max, dy)
           = update_x(m, level_block_info_init[lv], max, dy)
<1> DEFINE Blocked(w) == {j \in 0 .. (Abs(max) - 1) :
                            ~can_move(w, m.pos_x_curr + Sign(max) * j, m.pos_y_curr + dy)}
<1>m. m.pos_x_curr \in Int /\ m.pos_y_curr \in Int BY MarioNumbers
<1>1. Abs(max) \in Nat /\ Sign(max) \in {-1, 0, 1} BY Distances
<1>2. ASSUME NEW j \in 0 .. (Abs(max) - 1)
      PROVE  can_move(Seen(lv, b), m.pos_x_curr + Sign(max) * j, m.pos_y_curr + dy)
               <=> can_move(level_block_info_init[lv],
                            m.pos_x_curr + Sign(max) * j, m.pos_y_curr + dy)
  <2>1. m.pos_x_curr + Sign(max) * j \in Int BY <1>m, <1>1
  <2>2. m.pos_y_curr + dy \in Int /\ m.pos_y_curr + dy # 456 BY <1>m DEF LOWEST
  <2> QED BY <2>1, <2>2, SameWalls
<1>3. Blocked(Seen(lv, b)) = Blocked(level_block_info_init[lv])
  BY <1>2
<1> QED BY <1>3 DEF update_x

\* A frame that leaves Mario above the last rows is the same whatever lies
\* past the map.
LEMMA SameFrame ==
  ASSUME NEW lv \in {1, 2}, NEW b \in SUBSET BeyondArray, NEW m \in Mario, NEW keycode,
         m.pos_x_curr <= 619, m.pos_y_curr <= LOWEST,
         NEW r \in handle_keycode(m, Seen(lv, b), keycode),
         r.pos_y_curr <= LOWEST
  PROVE  r \in handle_keycode(m, level_block_info_init[lv], keycode)
<1> DEFINE map == level_block_info_init[lv]
           all == Seen(lv, b)
           c == Counted(m, Low(keycode))
           e == EffectiveKey(m, Low(keycode))
<1>1. r \in mario_move_update(c, all, e) BY Zenon DEF handle_keycode
<1>2. /\ c \in Mario /\ c.pos_x_curr <= 619 /\ c.pos_y_curr <= LOWEST
      /\ c.pos_x_curr \in 0 .. 620 /\ c.pos_y_curr \in 0 .. 456
      /\ c.speed_x_curr \in Int /\ c.speed_y_curr \in Int
  <2>1. c \in Mario /\ c.pos_x_curr = m.pos_x_curr /\ c.pos_y_curr = m.pos_y_curr
    BY CountedMario
  <2> HIDE DEF c
  <2> QED BY <2>1, MarioNumbers
<1>3. SUFFICES r \in mario_move_update(c, map, e) BY Zenon DEF handle_keycode
<1> HIDE DEF c, e
<1>4. PICK moved \in get_speed(c, all, AccX(c, all, e), AccY(e)) :
        r = Landed(moved, c.idx, all, e)
  BY <1>1, Zenon DEF mario_move_update
<1>5. AccX(c, all, e) \in Int /\ AccY(e) \in Int BY <1>2, Accelerations
<1>6. moved \in Mario
  <2> HIDE DEF all
  <2> QED BY <1>2, <1>4, <1>5, GetSpeed
<1>7. MovedFreely(all, c, moved) BY Zenon, <1>2, <1>4, <1>5, SpeedMovesFreely
<1>8. moved.pos_y_curr <= LOWEST BY <1>4, <1>6, LandedThere
<1>9. Grounded(c, all) <=> Grounded(c, map)
  <2> DEFINE x == c.pos_x_curr
             y == c.pos_y_curr
  <2>1. x \in Nat /\ y \in Nat /\ x <= 619 /\ y <= 454 BY <1>2 DEF LOWEST
  <2> HIDE DEF x, y
  <2>2. is_ground(all, x, y) <=> is_ground(map, x, y) BY <2>1, SameGround
  <2> QED BY Zenon, <2>2 DEF Grounded, x, y
<1>10. Grounded(moved, all) <=> Grounded(moved, map)
  <2> DEFINE x == moved.pos_x_curr
             y == moved.pos_y_curr
  <2>1. x \in Nat /\ y \in Nat /\ x <= 620 /\ y <= 454 BY <1>6, <1>8, MarioNumbers DEF LOWEST
  <2>2. x # 620 \/ can_move(all, x, y) BY <1>2, <1>7 DEF MovedFreely, Free
  <2> HIDE DEF x, y
  <2>3. is_ground(all, x, y) <=> is_ground(map, x, y) BY <2>1, <2>2, SameGround
  <2> QED BY Zenon, <2>3 DEF Grounded, x, y
<1>11. AccX(c, all, e) = AccX(c, map, e) BY <1>9 DEF AccX, Push
<1>12. moved \in get_speed(c, map, AccX(c, map, e), AccY(e))
  <2> DEFINE my == c.speed_y_curr + AccY(e)
             mx == c.speed_x_curr + AccX(c, all, e)
  <2>1. PICK dy \in update_y(c, all, my) : \E dx \in update_x(c, all, mx, dy) :
          moved = Displaced(c, dx, dy)
    BY Zenon, <1>4 DEF get_speed
  <2>2. PICK dx \in update_x(c, all, mx, dy) : moved = Displaced(c, dx, dy) BY <2>1
  <2>3. my \in Int /\ mx \in Int BY <1>2, <1>5
  <2> HIDE DEF my, mx
  <2>4. dy \in Int BY <1>2, <2>1, <2>3, UpdateY
  <2>5. c.pos_y_curr + dy <= LOWEST
    <3>1. moved.pos_y_curr = c.pos_y_curr + dy BY <1>2, <2>2 DEF Displaced, Mario
    <3> QED BY <1>8, <3>1
  <2>6. dy \in update_y(c, map, my) BY <1>2, <2>1, <2>3, <2>5, SameFall
  <2>7. update_x(c, all, mx, dy) = update_x(c, map, mx, dy)
    BY <1>2, <2>3, <2>4, <2>5, SameRun
  <2>8. dx \in update_x(c, map, mx, dy) BY <2>2, <2>7
  <2>9. moved \in {Displaced(c, d, dy) : d \in update_x(c, map, mx, dy)} BY <2>2, <2>8
  <2>10. {Displaced(c, d, dy) : d \in update_x(c, map, mx, dy)} \in
           {{Displaced(c, d, h) : d \in update_x(c, map, mx, h)} : h \in update_y(c, map, my)}
    BY <2>6, Zenon
  <2>11. moved \in UNION {{Displaced(c, d, h) : d \in update_x(c, map, mx, h)} :
                             h \in update_y(c, map, my)}
    BY <2>9, <2>10
  <2> QED BY <1>11, <2>11 DEF get_speed, my, mx
<1>13. r = Landed(moved, c.idx, map, e) BY <1>4, <1>10 DEF Landed
<1> QED BY <1>12, <1>13, Zenon DEF mario_move_update

\* At the left edge of level 1 the bottom of the screen is solid.
LEMMA LeftEdgeSolid ==
  ASSUME NEW b \in SUBSET BeyondArray, NEW x \in Nat, NEW y \in Nat, x < 5,
         can_move(Seen(1, b), x, y)
  PROVE  y <= LOWEST
<1>1. x \in 0 .. 4 /\ y \in 0 .. 456
  BY DEF can_move, on_screen, Y_UPPER, MARIO_Y
<1>2. SUFFICES ASSUME y >= 447 PROVE FALSE BY <1>1 DEF LOWEST
<1>3. x + 0 \in 0 .. 639 /\ y + 0 \in 0 .. 479 /\ (x + 0) \div 20 = 0 /\ (y + 0) \div 20 = 22
  BY <1>1, <1>2
<1>4. is_block(level_block_info_init[1] \cup b, x + 0, y + 0)
  <2>1. Brick1(0, 22) BY DEF Brick1
  <2> QED BY <1>3, <2>1, BlockAt
<1>5. 0 \in WallHeights /\ 0 \in {0, MARIO_X} BY DEF WallHeights
<1> QED BY <1>4, <1>5 DEF can_move, is_wall, Seen

\* Where a frame can leave a Mario who plays on.
LEMMA Survives ==
  ASSUME NEW m \in Mario, NEW lv \in {1, 2}, NEW spikes, NEW spine_x, NEW r,
         r = handle_level(m, lv, spikes, spine_x)
  PROVE  /\ r.flag = "LEVEL_CURR" => m.pos_x_curr <= 615 /\ m.pos_y_curr <= LOWEST
         /\ r.flag = "LEVEL_SWITCH" /\ lv = 1 =>
              m.pos_x_curr < 5 /\ r.mario.pos_x_curr <= 615 /\ r.mario.pos_y_curr <= LOWEST
         /\ r.flag = "LEVEL_SWITCH" /\ lv = 2 =>
              m.pos_y_curr <= LOWEST /\ r.mario.pos_x_curr <= 615 /\ r.mario.pos_y_curr <= LOWEST
<1>m. m.pos_x_curr \in 0 .. 620 /\ m.pos_y_curr \in 0 .. 456 BY MarioNumbers
<1>1. CASE lv = 1 /\ LV1_RIGHT(m) BY <1>1 DEF handle_level
<1>2. CASE lv = 1 /\ ~LV1_RIGHT(m) /\ LV1_LEFT(m)
  <2> DEFINE y == IF m.pos_y_curr > 16 * BLOCK_WIDTH THEN 18 * BLOCK_WIDTH ELSE 14 * BLOCK_WIDTH
  <2>1. r = [flag |-> "LEVEL_SWITCH", mario |-> Carried(m, X_UPPER - 2 * MARIO_X, y)]
    BY <1>2 DEF handle_level, Carried
  <2>2. X_UPPER - 2 * MARIO_X = 600 /\ y \in {280, 360} BY DEF X_UPPER, MARIO_X, BLOCK_WIDTH
  <2> HIDE DEF y
  <2>3. r.flag = "LEVEL_SWITCH" /\ r.mario = Carried(m, 600, y) BY <2>1, <2>2
  <2>4. r.mario.pos_x_curr = 600 /\ r.mario.pos_y_curr = y BY <2>3 DEF Carried, Mario
  <2> QED BY <1>2, <2>2, <2>3, <2>4 DEF LV1_LEFT, LOWEST
<1>3. CASE lv = 2 /\ PitLevel2(m) BY <1>3 DEF handle_level
<1>4. CASE lv = 2 /\ ~PitLevel2(m) /\ LV1_RIGHT(m)
  <2>1. r = [flag |-> "LEVEL_SWITCH", mario |-> [m EXCEPT !.pos_x_curr = MARIO_X]]
    BY <1>4 DEF handle_level
  <2>2. r.flag = "LEVEL_SWITCH" /\ r.mario = [m EXCEPT !.pos_x_curr = MARIO_X] BY <2>1
  <2>3. r.mario.pos_x_curr = MARIO_X /\ r.mario.pos_y_curr = m.pos_y_curr BY <2>2 DEF Mario
  <2>4. m.pos_y_curr <= LOWEST
    BY <1>4, <1>m DEF PitLevel2, LV1_RIGHT, LOWEST, BLOCK_WIDTH, MARIO_X, MARIO_Y, MARIO_UPPER_LIMIT
  <2> QED BY <1>4, <2>2, <2>3, <2>4 DEF MARIO_X
<1>5. CASE lv = 2 /\ ~PitLevel2(m) /\ ~LV1_RIGHT(m) /\ LV1_LEFT(m) BY <1>5 DEF handle_level
<1>6. CASE \/ lv = 1 /\ ~LV1_RIGHT(m) /\ ~LV1_LEFT(m)
           \/ lv = 2 /\ ~PitLevel2(m) /\ ~LV1_RIGHT(m) /\ ~LV1_LEFT(m)
  <2>1. r = IF Killed(m, lv, spikes, spine_x)
            THEN [flag |-> "LEVEL_RESTART", mario |-> Died(Triggered(m, lv))]
            ELSE [flag |-> "LEVEL_CURR", mario |-> Triggered(m, lv)]
    BY <1>6 DEF handle_level
  <2>2. CASE Killed(m, lv, spikes, spine_x) BY <2>1, <2>2
  <2>3. CASE ~Killed(m, lv, spikes, spine_x)
    <3>1. r.flag = "LEVEL_CURR" BY <2>1, <2>3
    <3>2. ~out_screen(m.pos_x_curr, m.pos_y_curr) BY <2>3 DEF Killed
    <3>3. m.pos_y_curr <= LOWEST
      BY <1>m, <3>2 DEF out_screen, LOWEST, MARIO_Y, MARIO_UPPER_LIMIT
    <3>4. m.pos_x_curr <= 615 BY <1>m, <1>6 DEF LV1_RIGHT, MARIO_X
    <3> QED BY <3>1, <3>3, <3>4
  <2> QED BY <2>2, <2>3
<1> QED BY <1>1, <1>2, <1>3, <1>4, <1>5, <1>6

\* While Mario is played the maps are those of main's level, and he is off
\* the right edge and above the last rows of the screen.
InPlay == pc = "play" => /\ loaded = level
                         /\ mario.pos_x_curr <= 615 /\ mario.pos_y_curr <= LOWEST

LEMMA BegunInPlay ==
  ASSUME IInv, NEW lv \in {1, 2}, BeginLevel(lv)
  PROVE  InPlay'
<1>1. mario' \in handle_keycode(mario_move_init(mario, lv), Blocks, KEYBOARD_NONE)
  BY DEF BeginLevel
<1>2. mario \in Mario BY DEF IInv, TypeOK
<1>3. mario'.pos_x_curr = StartX(lv) /\ mario'.pos_y_curr \in StartY(lv) .. StartY(lv) + 8
  BY <1>1, <1>2, FirstFall
<1>4. level' = lv /\ loaded' = lv BY DEF BeginLevel, Load
<1> QED BY <1>3, <1>4 DEF InPlay, StartX, StartY, LOWEST

\* The frame that a Mario who plays on has just played.
LEMMA FrameInPlay ==
  ASSUME IInv, InPlay, NEW k \in Keys, FrameMoves(k)
  PROVE  /\ InPlay'
         /\ pc' = "play" =>
              \E moved \in handle_keycode(mario, level_block_info_init[level],
                                          GameKey(k, keycode_curr)) :
                 mario' = handle_level(moved, level, Spikes, spine').mario
<1> DEFINE gk == GameKey(k, keycode_curr)
<1>1. pc = "play" /\ level \in {1, 2} /\ loaded = level /\ mario \in Mario
  BY DEF FrameMoves, IInv, LevelOfLoop, InPlay, TypeOK
<1>2. beyond \in SUBSET BeyondArray BY BeyondAssumption DEF IInv, TypeOK
<1>3. Blocks = Seen(level, beyond) BY <1>1 DEF Blocks, Seen
<1>4. gk \in Nat
  <2>1. k \in 0 .. KEYCODE_UPPER BY KeysAssumption
  <2>2. gk = k \/ gk = KEYBOARD_NONE BY DEF GameKey
  <2> QED BY <2>1, <2>2 DEF KEYBOARD_NONE
<1>5. PICK moved \in handle_keycode(mario, Blocks, gk) :
        Outcome(moved, handle_level(moved, level, Spikes, spine'))
  BY Zenon DEF FrameMoves
<1> HIDE DEF gk
<1>6. moved \in Mario BY <1>1, <1>4, <1>5, HandleKeycode
<1> DEFINE lev == handle_level(moved, level, Spikes, spine')
<1>7. /\ lev.flag = "LEVEL_CURR" =>
           /\ moved.pos_x_curr <= 615 /\ moved.pos_y_curr <= LOWEST
           /\ lev.mario.pos_x_curr = moved.pos_x_curr
           /\ lev.mario.pos_y_curr = moved.pos_y_curr
      /\ lev.flag = "LEVEL_SWITCH" /\ level = 1 =>
           /\ moved.pos_x_curr < 5
           /\ lev.mario.pos_x_curr <= 615 /\ lev.mario.pos_y_curr <= LOWEST
      /\ lev.flag = "LEVEL_SWITCH" /\ level = 2 =>
           /\ moved.pos_y_curr <= LOWEST
           /\ lev.mario.pos_x_curr <= 615 /\ lev.mario.pos_y_curr <= LOWEST
      /\ lev.flag \in {"LEVEL_CURR", "LEVEL_SWITCH", "LEVEL_NEXT", "LEVEL_BEFORE", "LEVEL_RESTART"}
  <2>1. Judged(moved, level, lev) BY <1>1, <1>6, HandleLevel
  <2> HIDE DEF lev
  <2>2. /\ lev.flag = "LEVEL_CURR" => moved.pos_x_curr <= 615 /\ moved.pos_y_curr <= LOWEST
        /\ lev.flag = "LEVEL_SWITCH" /\ level = 1 =>
             moved.pos_x_curr < 5 /\ lev.mario.pos_x_curr <= 615 /\ lev.mario.pos_y_curr <= LOWEST
        /\ lev.flag = "LEVEL_SWITCH" /\ level = 2 =>
             moved.pos_y_curr <= LOWEST /\ lev.mario.pos_x_curr <= 615 /\ lev.mario.pos_y_curr <= LOWEST
    BY <1>1, <1>6, Survives DEF lev
  <2> QED BY <2>1, <2>2 DEF Judged
<1> HIDE DEF lev
<1>8. Outcome(moved, lev) BY <1>5 DEF lev
<1>9. CASE lev.flag = "LEVEL_CURR"
  <2>1. mario' = lev.mario /\ UNCHANGED <<pc, level, loaded>> BY <1>8, <1>9 DEF Outcome
  <2>2. InPlay' BY <1>1, <1>7, <1>9, <2>1 DEF InPlay
  <2>3. moved \in handle_keycode(mario, level_block_info_init[level], gk)
    <3>1. mario.pos_x_curr <= 619 /\ mario.pos_y_curr <= LOWEST
      BY <1>1, MarioNumbers DEF InPlay
    <3> QED BY <1>1, <1>2, <1>3, <1>5, <1>7, <1>9, <3>1, SameFrame
  <2> QED BY <2>1, <2>2, <2>3 DEF gk, lev
<1>10. CASE lev.flag = "LEVEL_SWITCH"
  <2>1. mario' = lev.mario /\ pc' = pc /\ level' = 3 - level /\ loaded' = 3 - level
    BY <1>8, <1>10 DEF Outcome, Load
  <2>2. InPlay' BY <1>1, <1>7, <1>10, <2>1 DEF InPlay
  <2>m. mario.pos_x_curr <= 619 /\ mario.pos_y_curr <= LOWEST BY <1>1, MarioNumbers DEF InPlay
  <2>3. moved.pos_y_curr <= LOWEST
    <3>1. CASE level = 2 BY <1>7, <1>10, <3>1
    <3>2. CASE level = 1
      <4>1. MovedFreely(Blocks, mario, moved) BY <1>1, <1>5, FrameMovesFreely
      <4>2. CASE moved.pos_x_curr = mario.pos_x_curr /\ moved.pos_y_curr = mario.pos_y_curr
        BY <4>2, <2>m
      <4>3. CASE Free(Blocks, moved)
        <5>1. moved.pos_x_curr \in Nat /\ moved.pos_y_curr \in Nat /\ moved.pos_x_curr < 5
          BY <1>6, <1>7, <1>10, <3>2, MarioNumbers
        <5>2. can_move(Seen(1, beyond), moved.pos_x_curr, moved.pos_y_curr)
          BY <1>3, <3>2, <4>3 DEF Free
        <5> QED BY <1>2, <5>1, <5>2, LeftEdgeSolid
      <4> QED BY <4>1, <4>2, <4>3 DEF MovedFreely
    <3> QED BY <1>1, <3>1, <3>2
  <2>4. moved \in handle_keycode(mario, level_block_info_init[level], gk)
    BY <1>1, <1>2, <1>3, <1>5, <2>m, <2>3, SameFrame
  <2> QED BY <2>1, <2>2, <2>4 DEF gk, lev
<1>11. CASE lev.flag \in {"LEVEL_NEXT", "LEVEL_BEFORE", "LEVEL_RESTART"}
  <2>1. pc' \in {"level3", "wait"} BY <1>8, <1>11 DEF Outcome, WaitForR
  <2> QED BY <2>1 DEF InPlay
<1> QED BY <1>7, <1>9, <1>10, <1>11

LEMMA InPlayStep == IInv /\ InPlay /\ [Next]_vars => InPlay'
<1> SUFFICES ASSUME IInv, InPlay, [Next]_vars PROVE InPlay' OBVIOUS
<1>1. CASE UNCHANGED vars BY <1>1 DEF InPlay, vars
<1>2. ASSUME NEW k \in Keys, Poll(k) PROVE InPlay'
  <2>r. retry \in {1, 2} BY DEF IInv, TypeOK
  <2>1. CASE Level0Starts(k) BY <2>1, BegunInPlay DEF Level0Starts
  <2>2. CASE WaitEnds(k) BY <2>2, <2>r, BegunInPlay DEF WaitEnds
  <2>3. CASE FrameMoves(k) BY <2>3, FrameInPlay
  <2>4. CASE Level0Waits(k) \/ FrameRestart(k) \/ FrameEscape(k) \/ WaitGoesOn(k)
             \/ Level3Waits(k) \/ Level3Ends(k)
    BY <2>4 DEF Level0Waits, FrameRestart, FrameEscape, WaitGoesOn, Level3Waits, Level3Ends,
                WaitForR, BeginLevel0, InPlay
  <2> QED BY <1>2, <2>1, <2>2, <2>3, <2>4 DEF Poll
<1> QED BY <1>1, <1>2 DEF Next

\* OverrunHarmless: a frame that Mario survives is one that the map alone
\* allows, whatever is_block reads past its end.
THEOREM OverrunNeverDecides == Spec => OverrunHarmless
<1>1. Init => InPlay BY DEF Init, InPlay
<1>2. IInv /\ InPlay /\ [Next]_vars =>
        [pc = "play" /\ pc' = "play" =>
           Low(GameKey(key', keycode_curr)) # KEYBOARD_R /\
           \E moved \in handle_keycode(mario, level_block_info_init[loaded],
                                       GameKey(key', keycode_curr)) :
              mario' = handle_level(moved, level, Spikes, spine').mario]_vars
  <2> SUFFICES ASSUME IInv, InPlay, Next, pc = "play", pc' = "play"
               PROVE  Low(GameKey(key', keycode_curr)) # KEYBOARD_R /\
                      \E moved \in handle_keycode(mario, level_block_info_init[loaded],
                                                  GameKey(key', keycode_curr)) :
                         mario' = handle_level(moved, level, Spikes, spine').mario
    OBVIOUS
  <2>0. PICK k \in Keys : Poll(k) BY DEF Next
  <2>1. FrameMoves(k)
    BY <2>0 DEF Poll, Level0Waits, Level0Starts, FrameRestart, FrameEscape, BeginLevel0,
                WaitForR, WaitGoesOn, WaitEnds, Level3Waits, Level3Ends
  <2>2. key' = k /\ loaded = level BY <2>0 DEF Poll, InPlay
  <2>3. Low(GameKey(k, keycode_curr)) # KEYBOARD_R BY <2>1 DEF FrameMoves
  <2>4. \E moved \in handle_keycode(mario, level_block_info_init[level],
                                    GameKey(k, keycode_curr)) :
           mario' = handle_level(moved, level, Spikes, spine').mario
    BY <2>1, FrameInPlay
  <2> QED BY <2>2, <2>3, <2>4
<1>3. Spec => [](IInv /\ InPlay) BY <1>1, Initially, InductiveStep, InPlayStep, PTL DEF Spec
<1> QED BY <1>2, <1>3, PTL DEF Spec, OverrunHarmless

=============================================================================
