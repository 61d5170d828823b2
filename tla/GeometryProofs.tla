--------------------------- MODULE GeometryProofs ---------------------------
(***************************************************************************)
(* Why block.c may look at six points of Mario only: his box is 21 pixels  *)
(* wide and 25 high, a block 20 by 20, so the six points lie in every      *)
(* block that the box touches.                                             *)
(***************************************************************************)
EXTENDS Geometry, TLAPS

\* A pixel of the box shares its column of blocks with one of its two sides,
\* and its row of blocks with one of the three heights.
LEMMA Columns ==
  ASSUME NEW x \in Nat, NEW px \in x .. x + MARIO_X
  PROVE  \E dx \in {0, MARIO_X} : Quot(px, BLOCK_WIDTH) = Quot(x + dx, BLOCK_WIDTH)
<1>1. px \in Nat /\ x <= px /\ px <= x + 20 BY DEF MARIO_X
<1>2. px \div 20 = x \div 20 \/ px \div 20 = (x + 20) \div 20 BY <1>1
<1> QED BY <1>1, <1>2 DEF Quot, BLOCK_WIDTH, MARIO_X

LEMMA Rows ==
  ASSUME NEW y \in Nat, NEW py \in y .. y + MARIO_Y
  PROVE  \E dy \in WallHeights : Quot(py, BLOCK_WIDTH) = Quot(y + dy, BLOCK_WIDTH)
<1>1. py \in Nat /\ y <= py /\ py <= y + 24 BY DEF MARIO_Y
<1>2. \/ py \div 20 = y \div 20
      \/ py \div 20 = (y + 12) \div 20
      \/ py \div 20 = (y + 24) \div 20
  BY <1>1
<1>3. WallHeights = {0, 12, 24} BY DEF WallHeights, MARIO_Y
<1> QED BY <1>1, <1>2, <1>3 DEF Quot, BLOCK_WIDTH

\* is_wall: on every map and at every place, the six points find a block
\* exactly when some pixel of Mario's box is in one.
THEOREM WallSamplesSuffice ==
  ASSUME NEW blocks, NEW x \in Nat, NEW y \in Nat
  PROVE  is_wall(blocks, x, y) <=>
           \E px \in x .. x + MARIO_X, py \in y .. y + MARIO_Y : is_block(blocks, px, py)
<1>1. ASSUME NEW px \in x .. x + MARIO_X, NEW py \in y .. y + MARIO_Y, is_block(blocks, px, py)
      PROVE  is_wall(blocks, x, y)
  <2>1. PICK dx \in {0, MARIO_X} : Quot(px, BLOCK_WIDTH) = Quot(x + dx, BLOCK_WIDTH)
    BY Columns
  <2>2. PICK dy \in WallHeights : Quot(py, BLOCK_WIDTH) = Quot(y + dy, BLOCK_WIDTH)
    BY Rows
  <2>3. block_index(px, py) = block_index(x + dx, y + dy) BY <2>1, <2>2 DEF block_index
  <2> QED BY <1>1, <2>3 DEF is_wall, is_block
<1>2. ASSUME is_wall(blocks, x, y)
      PROVE  \E px \in x .. x + MARIO_X, py \in y .. y + MARIO_Y : is_block(blocks, px, py)
  <2>1. PICK dx \in {0, MARIO_X}, dy \in WallHeights : is_block(blocks, x + dx, y + dy)
    BY <1>2 DEF is_wall
  <2>2. x + dx \in x .. x + MARIO_X BY DEF MARIO_X
  <2>3. y + dy \in y .. y + MARIO_Y
    <3>1. WallHeights = {0, 12, 24} BY DEF WallHeights, MARIO_Y
    <3> QED BY <3>1 DEF MARIO_Y
  <2> QED BY <2>1, <2>2, <2>3
<1> QED BY <1>1, <1>2

\* is_ground: its two points find a block exactly when some pixel of the row
\* under Mario's feet is in one.
THEOREM GroundSamplesSuffice ==
  ASSUME NEW blocks, NEW x \in Nat, NEW y \in Nat
  PROVE  is_ground(blocks, x, y) <=>
           \E px \in x .. x + MARIO_X : is_block(blocks, px, y + MARIO_Y + 1)
<1> DEFINE feet == y + MARIO_Y + 1
<1>1. ASSUME NEW px \in x .. x + MARIO_X, is_block(blocks, px, feet)
      PROVE  is_ground(blocks, x, y)
  <2>1. PICK dx \in {0, MARIO_X} : Quot(px, BLOCK_WIDTH) = Quot(x + dx, BLOCK_WIDTH)
    BY Columns
  <2>2. block_index(px, feet) = block_index(x + dx, feet) BY <2>1 DEF block_index
  <2> QED BY <1>1, <2>2 DEF is_ground, is_block
<1>2. ASSUME is_ground(blocks, x, y)
      PROVE  \E px \in x .. x + MARIO_X : is_block(blocks, px, feet)
  <2>1. PICK dx \in {0, MARIO_X} : is_block(blocks, x + dx, feet) BY <1>2 DEF is_ground
  <2>2. x + dx \in x .. x + MARIO_X BY DEF MARIO_X
  <2> QED BY <2>1, <2>2
<1> QED BY <1>1, <1>2

-----------------------------------------------------------------------------
(* The maps, row by row.                                                   *)

\* An index is in the rectangle that set_block fills exactly when its column
\* and row are.
LEMMA InRectangle ==
  ASSUME NEW c \in 0 .. 31, NEW r \in Nat, NEW x \in Nat, NEW n \in Nat, x + n <= 32,
         NEW y \in Nat, NEW m \in Nat
  PROVE  r * BLOCK_X_NUM + c \in set_block(x, n, y, m)
           <=> x <= c /\ c < x + n /\ y <= r /\ r < y + m
<1>1. ASSUME r * 32 + c \in set_block(x, n, y, m)
      PROVE  x <= c /\ c < x + n /\ y <= r /\ r < y + m
  <2>1. PICK a \in x .. (x + n - 1), b \in y .. (y + m - 1) : r * 32 + c = b * 32 + a
    BY <1>1 DEF set_block, BLOCK_X_NUM
  <2>2. a = c /\ b = r BY <2>1
  <2> QED BY <2>1, <2>2
<1>2. ASSUME x <= c, c < x + n, y <= r, r < y + m
      PROVE  r * 32 + c \in set_block(x, n, y, m)
  <2>1. c \in x .. (x + n - 1) /\ r \in y .. (y + m - 1) BY <1>2
  <2> DEFINE xs == x .. (x + n - 1)
             ys == y .. (y + m - 1)
  <2>3. r * 32 + c \in {b * 32 + a : a \in xs, b \in ys}
    <3>1. c \in xs /\ r \in ys BY <2>1
    <3> HIDE DEF xs, ys
    <3> QED BY <3>1
  <2>4. set_block(x, n, y, m) = {b * 32 + a : a \in xs, b \in ys}
    BY DEF set_block, BLOCK_X_NUM
  <2> QED BY <2>3, <2>4
<1> QED BY <1>1, <1>2 DEF BLOCK_X_NUM

\* The bricks of a level as its columns and rows.
Brick1(c, r) ==
  \/ c < 2 /\ r >= 18
  \/ c >= 2 /\ c < 8 /\ r >= 21
  \/ c >= 8 /\ c < 10 /\ r >= 20
  \/ c >= 12 /\ c < 14 /\ r >= 20
  \/ c >= 16 /\ c < 19 /\ r >= 20
  \/ c >= 19 /\ c < 25 /\ r >= 21
  \/ c >= 25 /\ c < 29 /\ r >= 18
  \/ c >= 29 /\ r >= 17

Brick2(c, r) ==
  \/ c < 18 /\ r = 13
  \/ c < 18 /\ r >= 18
  \/ c >= 5 /\ c < 26 /\ r = 7
  \/ c = 23 /\ r >= 8 /\ r < 17
  \/ c >= 24 /\ c < 26 /\ r = 13
  \/ c >= 24 /\ r = 16
  \/ c >= 28 /\ r = 10

\* level_block_info_init.
LEMMA MapBricks ==
  ASSUME NEW c \in 0 .. 31, NEW r \in 0 .. 23
  PROVE  /\ r * BLOCK_X_NUM + c \in Level1Blocks <=> Brick1(c, r)
         /\ r * BLOCK_X_NUM + c \in Level2Blocks <=> Brick2(c, r)
<1> DEFINE k == r * BLOCK_X_NUM + c
<1>1. \A x, n, y, m \in Nat : x + n <= 32 =>
        (k \in set_block(x, n, y, m) <=> x <= c /\ c < x + n /\ y <= r /\ r < y + m)
  <2>1. r \in Nat OBVIOUS
  <2> QED BY <2>1, InRectangle
<1> HIDE DEF k
<1>2. /\ k \in set_block(0, 2, 18, 6) <=> c < 2 /\ r >= 18
      /\ k \in set_block(2, 6, 21, 3) <=> c >= 2 /\ c < 8 /\ r >= 21
      /\ k \in set_block(8, 2, 20, 4) <=> c >= 8 /\ c < 10 /\ r >= 20
      /\ k \in set_block(12, 2, 20, 4) <=> c >= 12 /\ c < 14 /\ r >= 20
  BY <1>1
<1>3. /\ k \in set_block(16, 3, 20, 4) <=> c >= 16 /\ c < 19 /\ r >= 20
      /\ k \in set_block(19, 6, 21, 3) <=> c >= 19 /\ c < 25 /\ r >= 21
      /\ k \in set_block(25, 4, 18, 6) <=> c >= 25 /\ c < 29 /\ r >= 18
      /\ k \in set_block(29, 3, 17, 7) <=> c >= 29 /\ r >= 17
  BY <1>1
<1>4. /\ k \in set_block(5, 21, 7, 1) <=> c >= 5 /\ c < 26 /\ r = 7
      /\ k \in set_block(0, 18, 13, 1) <=> c < 18 /\ r = 13
      /\ k \in set_block(0, 18, 18, 6) <=> c < 18 /\ r >= 18
      /\ k \in set_block(23, 1, 8, 9) <=> c = 23 /\ r >= 8 /\ r < 17
  BY <1>1
<1>5. /\ k \in set_block(24, 2, 13, 1) <=> c >= 24 /\ c < 26 /\ r = 13
      /\ k \in set_block(24, 8, 16, 1) <=> c >= 24 /\ r = 16
      /\ k \in set_block(28, 4, 10, 1) <=> c >= 28 /\ r = 10
  BY <1>1
<1>6. k \in Level1Blocks <=> Brick1(c, r) BY <1>2, <1>3 DEF Level1Blocks, Brick1
<1>7. k \in Level2Blocks <=> Brick2(c, r) BY <1>4, <1>5 DEF Level2Blocks, Brick2
<1> QED BY <1>6, <1>7 DEF k

\* The same for the spikes: level_spike_info_init.
Spike1(c, r) == c = 21 /\ r = 20

Spike2(c, r) == \/ c \in {13, 14} /\ r = 6
                \/ c \in {7, 8} /\ r = 17
                \/ c = 29 /\ r = 9

LEMMA MapSpikes ==
  ASSUME NEW c \in 0 .. 31, NEW r \in 0 .. 23
  PROVE  /\ r * BLOCK_X_NUM + c \in level_spike_info_init[1] <=> Spike1(c, r)
         /\ r * BLOCK_X_NUM + c \in level_spike_info_init[2] <=> Spike2(c, r)
<1> DEFINE k == r * BLOCK_X_NUM + c
<1>1. \A x, n, y, m \in Nat : x + n <= 32 =>
        (k \in set_block(x, n, y, m) <=> x <= c /\ c < x + n /\ y <= r /\ r < y + m)
  <2>1. r \in Nat OBVIOUS
  <2> QED BY <2>1, InRectangle
<1> HIDE DEF k
<1>2. /\ k \in set_block(21, 1, 20, 1) <=> c = 21 /\ r = 20
      /\ k \in set_block(13, 2, 6, 1) <=> c \in {13, 14} /\ r = 6
      /\ k \in set_block(7, 2, 17, 1) <=> c \in {7, 8} /\ r = 17
      /\ k \in set_block(29, 1, 9, 1) <=> c = 29 /\ r = 9
  BY <1>1
<1>3. /\ level_spike_info_init[1] = set_block(21, 1, 20, 1)
      /\ level_spike_info_init[2] =
           set_block(13, 2, 6, 1) \cup set_block(7, 2, 17, 1) \cup set_block(29, 1, 9, 1)
  BY DEF level_spike_info_init
<1> QED BY <1>2, <1>3 DEF Spike1, Spike2, k

\* What the program finds at a pixel of the screen: the map, whatever lies
\* past its end.
LEMMA BlockAt ==
  ASSUME NEW x \in 0 .. 639, NEW y \in 0 .. 479, NEW b \in SUBSET BeyondArray
  PROVE  /\ is_block(level_block_info_init[1] \cup b, x, y) <=> Brick1(x \div 20, y \div 20)
         /\ is_block(level_block_info_init[2] \cup b, x, y) <=> Brick2(x \div 20, y \div 20)
<1> DEFINE c == x \div 20
           r == y \div 20
<1>1. c \in 0 .. 31 /\ r \in 0 .. 23 OBVIOUS
<1>2. block_index(x, y) = r * BLOCK_X_NUM + c BY DEF block_index, Quot, BLOCK_WIDTH
<1> HIDE DEF c, r
<1>3. r * BLOCK_X_NUM + c \notin b
  BY <1>1 DEF BeyondArray, BLOCK_NUM, BLOCK_X_NUM, BLOCK_Y_NUM
<1>4. level_block_info_init[1] = Level1Blocks /\ level_block_info_init[2] = Level2Blocks
  BY DEF level_block_info_init
<1>5. /\ r * BLOCK_X_NUM + c \in Level1Blocks <=> Brick1(c, r)
      /\ r * BLOCK_X_NUM + c \in Level2Blocks <=> Brick2(c, r)
  BY <1>1, MapBricks
<1> QED BY <1>2, <1>3, <1>4, <1>5 DEF is_block, c, r

LEMMA SpikeAt ==
  ASSUME NEW x \in 0 .. 639, NEW y \in 0 .. 479
  PROVE  /\ block_index(x, y) \in level_spike_info_init[1] <=> Spike1(x \div 20, y \div 20)
         /\ block_index(x, y) \in level_spike_info_init[2] <=> Spike2(x \div 20, y \div 20)
<1> DEFINE c == x \div 20
           r == y \div 20
<1>1. c \in 0 .. 31 /\ r \in 0 .. 23 OBVIOUS
<1>2. block_index(x, y) = r * BLOCK_X_NUM + c BY DEF block_index, Quot, BLOCK_WIDTH
<1> HIDE DEF c, r
<1>3. /\ r * BLOCK_X_NUM + c \in level_spike_info_init[1] <=> Spike1(c, r)
      /\ r * BLOCK_X_NUM + c \in level_spike_info_init[2] <=> Spike2(c, r)
  BY <1>1, MapSpikes
<1> QED BY <1>2, <1>3 DEF c, r

\* The blocks that is_block finds: the map and what it takes for blocks past
\* the end of the map.
Seen(lv, b) == level_block_info_init[lv] \cup b

\* The last pixel on the screen that Mario's right side can touch belongs to
\* column 32, which is_block looks up as column 0 of the next row.  In both
\* levels that is solid from row 18 down, so there Mario's left side is never
\* at 620 and the one cell past the map in row 23 is never asked for.
LEMMA RightEdgeSolid ==
  ASSUME NEW lv \in {1, 2}, NEW b, NEW y \in 340 .. 459
  PROVE  ~can_move(Seen(lv, b), 620, y)
<1> DEFINE r == (y \div 20) + 1
<1>1. r \in 18 .. 23 /\ 0 \in 0 .. 31 OBVIOUS
<1>2. block_index(620 + MARIO_X, y + 0) = r * BLOCK_X_NUM + 0
  BY DEF block_index, Quot, BLOCK_WIDTH, MARIO_X, BLOCK_X_NUM
<1>3. r * BLOCK_X_NUM + 0 \in level_block_info_init[lv]
  <2>1. r \in 0 .. 23 BY <1>1
  <2> HIDE DEF r
  <2>2. /\ r * BLOCK_X_NUM + 0 \in Level1Blocks <=> Brick1(0, r)
        /\ r * BLOCK_X_NUM + 0 \in Level2Blocks <=> Brick2(0, r)
    BY <1>1, <2>1, MapBricks
  <2>3. Brick1(0, r) /\ Brick2(0, r) BY <1>1 DEF Brick1, Brick2
  <2> QED BY <2>2, <2>3 DEF level_block_info_init
<1>4. is_block(Seen(lv, b), 620 + MARIO_X, y + 0)
  BY <1>2, <1>3 DEF is_block, Seen
<1>5. 0 \in WallHeights /\ MARIO_X \in {0, MARIO_X} BY DEF WallHeights
<1> QED BY <1>4, <1>5 DEF can_move, is_wall

\* What lies past the map can stop Mario only in the last row of pixels.
LEMMA SameWalls ==
  ASSUME NEW lv \in {1, 2}, NEW b \in SUBSET BeyondArray,
         NEW x \in Int, NEW y \in Int, y # 456
  PROVE  can_move(Seen(lv, b), x, y) <=> can_move(level_block_info_init[lv], x, y)
<1> DEFINE map == level_block_info_init[lv]
<1>1. SUFFICES ASSUME on_screen(x, y), is_wall(Seen(lv, b), x, y), can_move(map, x, y)
               PROVE  FALSE
  <2>1. is_wall(map, x, y) => is_wall(Seen(lv, b), x, y)
    BY Zenon DEF is_wall, is_block, Seen
  <2> HIDE DEF map
  <2> QED BY <2>1, Zenon DEF can_move, map
<1>2. x \in 0 .. 620 /\ y \in 0 .. 455
  BY <1>1 DEF on_screen, X_LOWER, X_UPPER, Y_LOWER, Y_UPPER, MARIO_X, MARIO_Y
<1>3. PICK dx \in {0, MARIO_X}, dy \in WallHeights : is_block(Seen(lv, b), x + dx, y + dy)
  BY <1>1 DEF is_wall
<1>4. dx \in {0, 20} /\ dy \in {0, 12, 24} BY <1>3 DEF MARIO_X, WallHeights, MARIO_Y
<1>5. block_index(x + dx, y + dy) \in b
  <2>1. ~is_block(map, x + dx, y + dy) BY <1>1, <1>3 DEF can_move, is_wall
  <2> QED BY <1>3, <2>1 DEF is_block, Seen
<1>6. ((y + dy) \div 20) * 32 + (x + dx) \div 20 >= 768
  <2>1. block_index(x + dx, y + dy) >= 768
    <3>1. BeyondArray = 768 .. 800 BY DEF BeyondArray, BLOCK_NUM, BLOCK_X_NUM, BLOCK_Y_NUM
    <3>2. block_index(x + dx, y + dy) \in BeyondArray BY <1>5
    <3> QED BY <3>1, <3>2
  <2>2. block_index(x + dx, y + dy) = ((y + dy) \div 20) * 32 + (x + dx) \div 20
    BY <1>2, <1>4 DEF block_index, Quot, BLOCK_WIDTH, BLOCK_X_NUM
  <2> QED BY <2>1, <2>2
<1>7. (y + dy) \div 20 = 23 /\ (x + dx) \div 20 = 32
  <2>1. (y + dy) \div 20 \in 0 .. 23 /\ (x + dx) \div 20 \in 0 .. 32 BY <1>2, <1>4
  <2> QED BY <1>6, <2>1
<1>8. x = 620 /\ y \in 340 .. 459 BY <1>2, <1>4, <1>7
<1>9. ~can_move(map, 620, y)
  <2>1. ~can_move(Seen(lv, {}), 620, y) BY <1>8, RightEdgeSolid
  <2> QED BY <2>1 DEF Seen
<1> QED BY <1>1, <1>8, <1>9

\* Nor does it carry him, unless he is at the right edge or far down.
LEMMA SameGround ==
  ASSUME NEW lv \in {1, 2}, NEW b \in SUBSET BeyondArray,
         NEW x \in Nat, NEW y \in Nat, x <= 620, y <= 454,
         x # 620 \/ can_move(Seen(lv, b), x, y)
  PROVE  is_ground(Seen(lv, b), x, y) <=> is_ground(level_block_info_init[lv], x, y)
<1> DEFINE map == level_block_info_init[lv]
<1>1. SUFFICES ASSUME NEW dx \in {0, MARIO_X}, is_block(Seen(lv, b), x + dx, y + MARIO_Y + 1)
               PROVE  is_block(map, x + dx, y + MARIO_Y + 1)
  <2>1. is_ground(map, x, y) => is_ground(Seen(lv, b), x, y) BY Zenon DEF is_ground, is_block, Seen
  <2> HIDE DEF map
  <2> QED BY <2>1, Zenon DEF is_ground, map
<1>2. SUFFICES ASSUME block_index(x + dx, y + 25) \in b PROVE FALSE
  BY <1>1 DEF is_block, MARIO_Y, Seen
<1>3. dx \in {0, 20} BY DEF MARIO_X
<1>4. ((y + 25) \div 20) * 32 + (x + dx) \div 20 >= 768
  <2>1. block_index(x + dx, y + 25) >= 768
    <3>1. BeyondArray = 768 .. 800 BY DEF BeyondArray, BLOCK_NUM, BLOCK_X_NUM, BLOCK_Y_NUM
    <3>2. block_index(x + dx, y + 25) \in BeyondArray BY <1>2
    <3> QED BY <3>1, <3>2
  <2>2. block_index(x + dx, y + 25) = ((y + 25) \div 20) * 32 + (x + dx) \div 20
    BY <1>3 DEF block_index, Quot, BLOCK_WIDTH, BLOCK_X_NUM
  <2> QED BY <2>1, <2>2
<1>5. (y + 25) \div 20 = 23 /\ (x + dx) \div 20 = 32
  <2>1. (y + 25) \div 20 \in 0 .. 23 /\ (x + dx) \div 20 \in 0 .. 32 BY <1>3
  <2> QED BY <1>4, <2>1
<1>6. x = 620 /\ y \in 340 .. 459 BY <1>3, <1>5
<1> QED BY <1>6, RightEdgeSolid

=============================================================================
