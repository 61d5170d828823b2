------------------------------ MODULE Geometry ------------------------------
(***************************************************************************)
(* The collision geometry of the game: block.c, block.h, spike.c and the   *)
(* screen constants of mario_move.h.                                       *)
(*                                                                         *)
(* level_block_info, the C array of one char per 20x20 block, is the set   *)
(* of the indices whose char is 1; level_spike_info is the set of the      *)
(* indices it lists.  is_block does not check its index, so a set given as *)
(* `blocks' may also hold indices past the array (see BeyondArray).        *)
(***************************************************************************)
EXTENDS Integers

X_UPPER == 640
X_LOWER == 0
Y_UPPER == 480
Y_LOWER == 0
MARIO_LOWER_LIMIT == 10
MARIO_UPPER_LIMIT == 470
MARIO_X == 20
MARIO_Y == 24
BLOCK_WIDTH == 20
BLOCK_X_NUM == 32
BLOCK_Y_NUM == 24
BLOCK_NUM   == BLOCK_X_NUM * BLOCK_Y_NUM

\* C's integer division and remainder truncate towards zero.
Quot(a, b) == IF a >= 0 THEN a \div b ELSE -((-a) \div b)
Rem(a, b)  == a - b * Quot(a, b)

-----------------------------------------------------------------------------
(* The maps of the levels.                                                 *)

set_block(x_start, x_num, y_start, y_num) ==
  {y * BLOCK_X_NUM + x : x \in x_start .. (x_start + x_num - 1),
                         y \in y_start .. (y_start + y_num - 1)}

Level1Blocks ==
  set_block( 0, 2, 18, 6) \cup set_block( 2, 6, 21, 3) \cup
  set_block( 8, 2, 20, 4) \cup set_block(12, 2, 20, 4) \cup
  set_block(16, 3, 20, 4) \cup set_block(19, 6, 21, 3) \cup
  set_block(25, 4, 18, 6) \cup set_block(29, 3, 17, 7)

Level2Blocks ==
  set_block( 5, 21,  7, 1) \cup set_block( 0, 18, 13, 1) \cup
  set_block( 0, 18, 18, 6) \cup set_block(23,  1,  8, 9) \cup
  set_block(24,  2, 13, 1) \cup set_block(24,  8, 16, 1) \cup
  set_block(28,  4, 10, 1)

level_block_info_init ==
  [level \in 0 .. 3 |-> CASE level = 1 -> Level1Blocks
                          [] level = 2 -> Level2Blocks
                          [] OTHER     -> {}]

level_spike_info_init ==
  [level \in 0 .. 3 |->
     CASE level = 1 -> set_block(21, 1, 20, 1)
       [] level = 2 -> set_block(13, 2,  6, 1) \cup set_block(7, 2, 17, 1)
                         \cup set_block(29, 1, 9, 1)
       [] OTHER     -> {}]

\* Indices past the end of level_block_info that the game does read: feet at
\* the bottom edge are in row 24, a right side at the edge in column 32.
BeyondArray == BLOCK_NUM .. (BLOCK_NUM + BLOCK_X_NUM)

-----------------------------------------------------------------------------
(* Queries about a position, the upper left corner of Mario.               *)

block_index(x, y) == Quot(y, BLOCK_WIDTH) * BLOCK_X_NUM + Quot(x, BLOCK_WIDTH)

is_block(blocks, x, y) == block_index(x, y) \in blocks

WallHeights == {0, MARIO_Y \div 2, MARIO_Y}

is_wall(blocks, x, y) ==
  \E dx \in {0, MARIO_X}, dy \in WallHeights : is_block(blocks, x + dx, y + dy)

is_ground(blocks, x, y) ==
  \E dx \in {0, MARIO_X} : is_block(blocks, x + dx, y + MARIO_Y + 1)

on_screen(x, y) ==
  /\ X_LOWER <= x /\ x + MARIO_X <= X_UPPER
  /\ Y_LOWER <= y /\ y + MARIO_Y <= Y_UPPER

\* level2_set_block, which can_move calls in level 2, clears cells that no
\* map sets: it changes nothing.
can_move(blocks, x, y) == on_screen(x, y) /\ ~is_wall(blocks, x, y)

\* A slip: the test forgets Mario's height.
out_screen_corner(x, y) == y < MARIO_LOWER_LIMIT \/ y > MARIO_UPPER_LIMIT

out_screen(x, y) == y < MARIO_LOWER_LIMIT \/ y + MARIO_Y > MARIO_UPPER_LIMIT

\* The group of moving spines of level 2; spine_x is what the PIO at 0x80
\* shows, 0 while the spines are withdrawn.
level2_is_spike(x, y, spine_x) ==
  /\ spine_x # 0
  /\ y + MARIO_Y >= 8 * BLOCK_WIDTH
  /\ y <= 13 * BLOCK_WIDTH
  /\ \E dx \in {0, MARIO_X, MARIO_X \div 2} :
        spine_x - BLOCK_WIDTH < x + dx /\ x + dx < spine_x

\* A fixed spike is a triangle: its left edge rises to the middle of the
\* block, its right edge falls from there.
point_is_spike(spikes, x, y) ==
  LET off_x == Rem(x, BLOCK_WIDTH)
      off_y == Rem(y, BLOCK_WIDTH)
  IN  /\ Quot(x, BLOCK_WIDTH) < BLOCK_X_NUM
      /\ block_index(x, y) \in spikes
      /\ \/ /\ off_x < BLOCK_WIDTH \div 2
            /\ off_y > BLOCK_WIDTH - 2 * off_x
         \/ /\ off_x > BLOCK_WIDTH \div 2
            /\ off_y > BLOCK_WIDTH - 2 * (BLOCK_WIDTH - off_x)

SpikePoints == {<<0, -1>>, <<0, MARIO_Y - 1>>, <<MARIO_X, -1>>,
                <<MARIO_X, MARIO_Y - 1>>, <<MARIO_X \div 2, MARIO_Y \div 2>>}

is_spike(spikes, x, y, level, spine_x) ==
  \/ level = 2 /\ level2_is_spike(x, y, spine_x)
  \/ \E p \in SpikePoints : point_is_spike(spikes, x + p[1], y + p[2])

=============================================================================
