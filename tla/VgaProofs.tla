------------------------------ MODULE VgaProofs ------------------------------
(***************************************************************************)
(* Why the picture is in order and true to the map, for every size of the  *)
(* frame, all words, all places of the spines and every press of the       *)
(* button: between two counts of the controller each position passes every *)
(* register of the chain just once more than the DAC needs.  And why every *)
(* letter of the texts is whole: no position is in two cells.              *)
(***************************************************************************)
EXTENDS Vga, GeometryProofs, SequenceTheorems

Positions == (0 .. H_TOTAL - 1) \X (0 .. V_TOTAL - 1)

\* q is the position after p, or a reset has begun a frame in the dark.
Follows(q, p, dark) == Monitor!Follower(p) = q \/ (q = Origin /\ dark)

Dark == signals = NoSignals

\* What the registers hold, between a count and the first edge after it ...
AfterCount ==
  /\ rom = pixel.at /\ pixel.rom = pixel.at /\ vector.at = pixel.at
  /\ level_pixel.at = pixel.at /\ level_pixel.rom = pixel.at
  /\ pixel.level.at = pixel.at
  /\ Follows(pixel.at, pixel.level.rom, TRUE)

\* ... and then: the position of the counters has gone through the level
\* engines and draw_engine, and the one before it through colorROM.
BeforeCount ==
  /\ rom = Position /\ pixel.at = Position /\ level_pixel.at = Position
  /\ level_pixel.rom = vector.at
  /\ vector.rom = vector.at /\ vector.level.at = vector.at
  /\ Follows(vector.at, vector.level.rom, TRUE)

\* Three positions in a row: the counters', the one in front of the DAC, and
\* the one that the DAC shows.
InRow ==
  /\ Position \in Positions /\ vector.at \in Positions /\ dac.pixel.at \in Positions
  /\ signals = Monitor!SignalsAt(Position) \/ (Position = Origin /\ Dark)
  /\ Follows(Position, vector.at, Dark)
  /\ dac.signals = Monitor!SignalsAt(Monitor!Follower(dac.pixel.at)) \/ dac.signals = NoSignals
  /\ Follows(vector.at, dac.pixel.at, dac.signals = NoSignals)

\* What is shown is of one position.
OneColumn ==
  /\ dac.pixel.level.at = dac.pixel.at /\ dac.pixel.rom = dac.pixel.at
  /\ Follows(dac.pixel.at, dac.pixel.level.rom, TRUE)

\* The words and places that the registers hold.
Kinds ==
  /\ word \in Words /\ pixel.word \in Words /\ vector.word \in Words
  /\ dac.pixel.word \in Words
  /\ spine_x \in SpinePlaces
  /\ level_pixel.spine_x \in SpinePlaces \cup {0}
  /\ pixel.level.spine_x \in SpinePlaces \cup {0}
  /\ vector.level.spine_x \in SpinePlaces \cup {0}
  /\ dac.pixel.level.spine_x \in SpinePlaces \cup {0}

Inv ==
  /\ phase \in {0, 1}
  /\ phase = 0 => AfterCount
  /\ phase = 1 => BeforeCount
  /\ InRow /\ OneColumn

-----------------------------------------------------------------------------
LEMMA Sizes == H_TOTAL \in 753 .. 1023 /\ V_TOTAL \in 493 .. 1023 /\ Origin \in Positions
  BY VgaAssumption DEF Origin, Positions

LEMMA FollowerIn ==
  \A p \in Positions : Monitor!Follower(p) \in Positions
<1> SUFFICES ASSUME NEW p \in Positions PROVE Monitor!Follower(p) \in Positions OBVIOUS
<1>1. PICK x \in 0 .. H_TOTAL - 1, y \in 0 .. V_TOTAL - 1 : p = <<x, y>> BY DEF Positions
<1>2. p[1] = x /\ p[2] = y BY <1>1
<1>3. CASE x = H_TOTAL - 1 /\ y = V_TOTAL - 1
  BY <1>2, <1>3, Sizes DEF Monitor!Follower, Positions
<1>4. CASE x = H_TOTAL - 1 /\ y # V_TOTAL - 1
  BY <1>2, <1>4, Sizes DEF Monitor!Follower, Positions
<1>5. CASE x # H_TOTAL - 1
  BY <1>2, <1>5, Sizes DEF Monitor!Follower, Positions
<1> QED BY <1>3, <1>4, <1>5

\* The controller counts as the monitor expects, with its signals.
LEMMA Counts ==
  ASSUME Position \in Positions
  PROVE  /\ Position_in = Monitor!Follower(Position)
         /\ \A p \in Positions : Signals_in(p) = Monitor!SignalsAt(p)
<1>1. DrawX \in 0 .. H_TOTAL - 1 /\ DrawY \in 0 .. V_TOTAL - 1
      /\ Position[1] = DrawX /\ Position[2] = DrawY
  BY DEF Positions, Position
<1>2. Position_in = Monitor!Follower(Position)
  BY <1>1, Sizes DEF Position_in, Monitor!Follower
<1>3. ASSUME NEW p \in Positions PROVE Signals_in(p) = Monitor!SignalsAt(p)
  <2>1. p[1] \in Int /\ p[2] \in Int BY Sizes DEF Positions
  <2>2. (~(p[1] >= 656 /\ p[1] < 752)) = (p[1] \notin 656 .. 751) BY <2>1
  <2>3. (~(p[2] >= 490 /\ p[2] < 492)) = (p[2] \notin 490 .. 491) BY <2>1
  <2> QED BY <2>2, <2>3, Zenon DEF Signals_in, Monitor!SignalsAt
<1> QED BY <1>2, <1>3

LEMMA Base == Init => Inv
<1> SUFFICES ASSUME Init PROVE Inv OBVIOUS
<1>1. /\ rom = Origin /\ pixel.at = Origin /\ pixel.rom = Origin /\ vector.at = Origin
      /\ level_pixel.at = Origin /\ level_pixel.rom = Origin
      /\ pixel.level.at = Origin /\ pixel.level.rom = Origin
      /\ dac.pixel.at = Origin /\ dac.pixel.rom = Origin
      /\ dac.pixel.level.at = Origin /\ dac.pixel.level.rom = Origin
      /\ dac.signals = NoSignals /\ signals = NoSignals /\ phase = 0
  BY DEF Init, NoLevelPixel
<1>2. Position = Origin BY DEF Init, Position, Origin
<1>3. AfterCount BY <1>1 DEF AfterCount, Follows
<1>4. InRow BY <1>1, <1>2, Sizes DEF InRow, Follows, Dark
<1>5. OneColumn BY <1>1 DEF OneColumn, Follows
<1> QED BY <1>1, <1>3, <1>4, <1>5 DEF Inv

-----------------------------------------------------------------------------
\* The chain, field by field.
LEMMA ChainFields ==
  ASSUME Clk
  PROVE  /\ rom' = Position
         /\ level_pixel'.at = Position /\ level_pixel'.rom = rom
         /\ pixel'.at = Position /\ pixel'.rom = rom /\ pixel'.level = level_pixel
         /\ vector' = pixel
  BY DEF Clk, Chain

LEMMA FirstEdge == ASSUME Inv, Clk, phase = 0 PROVE Inv'
<1>1. phase' = 1 /\ Position' = Position /\ signals' = signals /\ dac' = dac
  BY DEF Clk, controller, Position
<1>2. AfterCount BY DEF Inv
<1>3. vector'.at = vector.at /\ vector'.level = pixel.level /\ vector'.rom = pixel.rom
  BY <1>2, ChainFields DEF AfterCount
<1>4. BeforeCount' BY <1>1, <1>2, <1>3, ChainFields DEF AfterCount, BeforeCount, Follows
<1>5. InRow' /\ OneColumn' BY <1>1, <1>3 DEF Inv, InRow, OneColumn, Follows, Dark
<1> QED BY <1>1, <1>4, <1>5 DEF Inv

LEMMA SecondEdge == ASSUME Inv, Clk, phase = 1 PROVE Inv'
<1>1. phase' = 0 /\ Controller /\ dac'.pixel = vector /\ dac'.signals = signals BY DEF Clk
<1>2. BeforeCount /\ InRow BY DEF Inv
<1>3. vector'.at = Position BY <1>2, ChainFields DEF BeforeCount
<1>4. /\ pixel'.at = Position /\ pixel'.rom = Position /\ rom' = Position
      /\ level_pixel'.at = Position /\ level_pixel'.rom = Position
      /\ pixel'.level.at = Position /\ pixel'.level.rom = vector.at
  BY <1>2, ChainFields DEF BeforeCount
<1>5. Position \in Positions /\ vector.at \in Positions BY <1>2 DEF InRow
<1>6. AfterCount' BY <1>2, <1>3, <1>4 DEF AfterCount, InRow, Follows
<1>7. OneColumn' BY <1>1, <1>2 DEF OneColumn, BeforeCount, Follows
<1>8. /\ Position' \in Positions
      /\ signals' = Monitor!SignalsAt(Position') \/ (Position' = Origin /\ Dark')
      /\ Follows(Position', Position, Dark')
  <2>1. CASE Reset
    <3>1. Position' = Origin /\ signals' = NoSignals
      BY <1>1, <2>1 DEF Controller, Position, Origin
    <3> QED BY <3>1, Sizes DEF Dark, Follows
  <2>2. CASE ~Reset
    <3>1. DrawX' = Position_in[1] /\ DrawY' = Position_in[2]
          /\ signals' = Signals_in(Position_in)
      BY <1>1, <2>2 DEF Controller
    <3>2. Position_in = Monitor!Follower(Position) BY <1>5, Counts
    <3>3. Position_in \in Positions BY <3>2, <1>5, FollowerIn
    <3>4. Position_in = <<Position_in[1], Position_in[2]>> BY <3>3 DEF Positions
    <3>5. Position' = Position_in BY <3>1, <3>4 DEF Position
    <3>6. signals' = Monitor!SignalsAt(Position') BY <3>1, <3>3, <3>5, <1>5, Counts
    <3> QED BY <3>2, <3>3, <3>5, <3>6 DEF Follows
  <2> QED BY <2>1, <2>2
<1>9. signals = Monitor!SignalsAt(Monitor!Follower(vector.at)) \/ signals = NoSignals
  BY <1>2 DEF InRow, Follows, Dark
<1>10. Follows(Position, vector.at, Dark) BY <1>2 DEF InRow
<1>11. InRow' BY <1>1, <1>3, <1>5, <1>8, <1>9, <1>10 DEF InRow, Dark
<1> QED BY <1>1, <1>6, <1>7, <1>11 DEF Inv

LEMMA OtherStep ==
  ASSUME Inv, (\E w \in Words : Draw(w)) \/ (\E s \in SpinePlaces : SpinesAt(s)) \/ Button
              \/ UNCHANGED vars
  PROVE  Inv' /\ dac' = dac
<1>1. UNCHANGED <<phase, DrawX, DrawY, signals, rom, level_pixel, pixel, vector, dac>>
  BY DEF Draw, SpinesAt, Button, vars, controller, chain
<1> QED BY <1>1 DEF Inv, AfterCount, BeforeCount, InRow, OneColumn, Follows, Dark, Position

LEMMA Step == ASSUME Inv, [Next]_vars PROVE Inv'
<1>1. ASSUME Clk PROVE Inv' BY <1>1, FirstEdge, SecondEdge DEF Inv
<1> QED BY <1>1, OtherStep DEF Next

\* The words and places are those that were written.
LEMMA KindsStep == ASSUME Kinds, [Next]_vars PROVE Kinds'
<1>1. CASE Clk
  <2>1. /\ pixel'.word = word /\ vector' = pixel /\ word' = word /\ spine_x' = spine_x
        /\ level_pixel'.spine_x = spine_x /\ pixel'.level = level_pixel
    BY <1>1 DEF Clk, Chain
  <2>2. dac'.pixel = vector \/ dac' = dac BY <1>1 DEF Clk
  <2> QED BY <2>1, <2>2 DEF Kinds
<1>2. CASE \E w \in Words : Draw(w) BY <1>2 DEF Kinds, Draw, chain
<1>3. CASE \E s \in SpinePlaces : SpinesAt(s) BY <1>3 DEF Kinds, SpinesAt, chain
<1>4. CASE Button BY <1>4 DEF Kinds, Button, chain
<1>5. CASE UNCHANGED vars BY <1>5 DEF Kinds, vars, chain
<1> QED BY <1>1, <1>2, <1>3, <1>4, <1>5 DEF Next

-----------------------------------------------------------------------------
\* A count shows the next position with the signals of the one after it.
LEMMA MonitorStep == ASSUME Inv, [Next]_vars PROVE [Monitor!Next]_(Monitor!rvars)
<1>1. CASE Clk /\ phase = 1
  <2>1. dac'.pixel = vector /\ dac'.signals = signals BY <1>1 DEF Clk
  <2>2. InRow BY DEF Inv
  <2>3. NoSignals = Monitor!Dark BY DEF NoSignals, Monitor!Dark
  <2>4. signals = Monitor!SignalsAt(Monitor!Follower(vector.at)) \/ signals = NoSignals
    BY <2>2 DEF InRow, Follows, Dark
  <2>5. CASE Monitor!Follower(dac.pixel.at) = vector.at
    <3>1. Monitor!Advance \/ Monitor!Cut
      BY <2>1, <2>3, <2>4, <2>5 DEF Monitor!Advance, Monitor!Cut
    <3> QED BY <3>1 DEF Monitor!Next
  <2>6. CASE vector.at = Origin /\ dac.signals = NoSignals
    <3>1. Monitor!Restart BY <2>1, <2>3, <2>4, <2>6 DEF Monitor!Restart, Origin
    <3> QED BY <3>1 DEF Monitor!Next
  <2> QED BY <2>2, <2>5, <2>6 DEF InRow, Follows
<1>2. CASE Clk /\ phase # 1 BY <1>2 DEF Clk, Monitor!rvars
<1>3. CASE ~Clk BY <1>3, OtherStep DEF Next, Monitor!rvars
<1> QED BY <1>1, <1>2, <1>3

\* ScansOut of VGA_controller.sv and the registers behind it, for every size of
\* a frame and whenever KEY0 is pressed.
THEOREM ScansInOrder == Spec => ScansOut
<1>1. Init => Inv BY Base
<1>2. Inv /\ [Next]_vars => Inv' BY Step
<1>3. Init => Monitor!Init
  BY DEF Init, Monitor!Init, NoSignals, Monitor!Dark, Origin
<1>4. Inv /\ [Next]_vars => [Monitor!Next]_(Monitor!rvars) BY MonitorStep
<1> QED BY <1>1, <1>2, <1>3, <1>4, PTL DEF Spec, ScansOut, Monitor!Spec

\* Registered of draw_engine.sv: Mario, level and texel of one position.
THEOREM OnePosition == Spec => []Registered
<1>1. Init => Inv BY Base
<1>2. Inv /\ [Next]_vars => Inv' BY Step
<1>3. Inv => Registered BY DEF Inv, OneColumn, Follows, Registered
<1> QED BY <1>1, <1>2, <1>3, PTL DEF Spec

-----------------------------------------------------------------------------
(* What is drawn.                                                          *)

\* A visible position that is a position of the map, and its block.
LEMMA Visible ==
  ASSUME Inv, OnMap
  PROVE  /\ dac.pixel.at[1] \in 0 .. 639 /\ dac.pixel.at[2] \in 0 .. 479
         /\ dac.pixel.level.at = dac.pixel.at
<1> DEFINE p == dac.pixel.at
<1>1. p \in Positions /\ dac.pixel.level.at = p BY DEF Inv, InRow, OneColumn
<1>2. p[1] \in Nat /\ p[2] \in Nat /\ p[1] < 640
  BY <1>1, Sizes DEF Positions, OnMap, X_UPPER
<1>a. dac.signals.on BY DEF OnMap
<1>3. dac.signals # NoSignals BY <1>a DEF NoSignals
<1>4. dac.signals = Monitor!SignalsAt(Monitor!Follower(p)) BY <1>3 DEF Inv, InRow
<1>5. Monitor!Follower(p) = <<p[1] + 1, p[2]>> BY <1>2, Sizes DEF Monitor!Follower
<1>6. Monitor!SignalsAt(Monitor!Follower(p)).on = (p[1] + 1 < 640 /\ p[2] < 480)
  BY <1>5 DEF Monitor!SignalsAt
<1>7. p[2] < 480 BY <1>a, <1>4, <1>6, Zenon
<1>8. p[1] \in 0 .. 639 /\ p[2] \in 0 .. 479
  <2> HIDE DEF p
  <2> QED BY <1>2, <1>7
<1> QED BY <1>1, <1>8, Zenon

LEMMA BlockOf ==
  ASSUME NEW z \in Nat, NEW n \in Nat PROVE n * 20 <= z <=> n <= z \div 20
<1> DEFINE d == z \div 20
<1>1. d \in Nat /\ 20 * d <= z /\ z < 20 * d + 20 OBVIOUS
<1> HIDE DEF d
<1>2. n * 20 <= z <=> n <= d BY <1>1
<1> QED BY <1>2 DEF d

\* The ranges of a column, of a row and of a word's fields.
LEMMA ColumnIsNat == \A n \in 0 .. 639 : n \in Nat OBVIOUS

LEMMA RowIsNat == \A n \in 0 .. 479 : n \in Nat OBVIOUS

LEMMA FieldIsNat == \A n \in 0 .. 1023 : n \in Nat OBVIOUS

\* A box that is drawn is a rectangle of blocks.
LEMMA InBox ==
  ASSUME NEW p, p[1] \in 0 .. 639, p[2] \in 0 .. 479,
         NEW x \in Nat, NEW x2 \in Nat, NEW y \in Nat, NEW y2 \in Nat
  PROVE  /\ p[1] \div 20 \in 0 .. 31 /\ p[2] \div 20 \in 0 .. 23
         /\ In(p, {<<x, x2, y, y2>>}) <=> /\ x <= p[1] \div 20 /\ p[1] \div 20 < x2
                                          /\ y <= p[2] \div 20 /\ p[2] \div 20 < y2
<1>1. In(p, {<<x, x2, y, y2>>}) <=> /\ x * 20 <= p[1] /\ p[1] < x2 * 20
                                    /\ y * 20 <= p[2] /\ p[2] < y2 * 20
  BY DEF In, BRICK
<1>2. p[1] \div 20 \in 0 .. 31 /\ p[2] \div 20 \in 0 .. 23 OBVIOUS
<1>3. p[1] \in Nat /\ p[2] \in Nat
  <2>1. p[1] \in Nat BY ColumnIsNat
  <2>2. p[2] \in Nat BY RowIsNat
  <2> QED BY <2>1, <2>2
<1>4. (x * 20 <= p[1] <=> x <= p[1] \div 20) /\ (y * 20 <= p[2] <=> y <= p[2] \div 20)
  BY <1>3, BlockOf
<1>5. (x2 * 20 <= p[1] <=> x2 <= p[1] \div 20) /\ (y2 * 20 <= p[2] <=> y2 <= p[2] \div 20)
  BY <1>3, BlockOf
<1>6. (p[1] < x2 * 20 <=> p[1] \div 20 < x2) /\ (p[2] < y2 * 20 <=> p[2] \div 20 < y2)
  BY <1>2, <1>3, <1>5
<1> QED BY <1>1, <1>2, <1>4, <1>6

-----------------------------------------------------------------------------
\* What color_mapper draws at a pixel of a level is what the program keeps for
\* its block: brick or none.
LEMMA DrawnBricks ==
  ASSUME NEW p, p[1] \in 0 .. 639, p[2] \in 0 .. 479
  PROVE  /\ In(p, Level1Bricks) <=> Brick1(p[1] \div 20, p[2] \div 20)
         /\ In(p, Level2Bricks) <=> Brick2(p[1] \div 20, p[2] \div 20)
<1> DEFINE c == p[1] \div 20
           r == p[2] \div 20
           B(x, x2, y, y2) == In(p, {<<x, x2, y, y2>>})
<1>1. \A x, x2, y, y2 \in Nat : B(x, x2, y, y2) <=> x <= c /\ c < x2 /\ y <= r /\ r < y2
  BY InBox
<1>2. c \in 0 .. 31 /\ r \in 0 .. 23 BY InBox
<1>3. In(p, Level1Bricks) <=>
        \/ B(0, 2, 18, EDGE) \/ B(2, 8, 21, EDGE) \/ B(8, 10, 20, EDGE)
        \/ B(12, 14, 20, EDGE) \/ B(16, 19, 20, EDGE) \/ B(19, 25, 21, EDGE)
        \/ B(25, 29, 18, EDGE) \/ B(29, EDGE, 17, EDGE)
  BY Zenon DEF In, Level1Bricks
<1>4. In(p, Level2Bricks) <=>
        \/ B(0, 18, 13, 14) \/ B(0, 18, 18, EDGE) \/ B(5, 23, 7, 8) \/ B(23, 24, 7, 17)
        \/ B(24, 26, 13, 14) \/ B(24, 26, 7, 8) \/ B(24, EDGE, 16, 17)
        \/ B(28, EDGE, 10, 11)
  BY Zenon DEF In, Level2Bricks
<1> HIDE DEF B, c, r
<1>5. /\ B(0, 2, 18, 52) <=> c < 2 /\ r >= 18
      /\ B(2, 8, 21, 52) <=> c >= 2 /\ c < 8 /\ r >= 21
      /\ B(8, 10, 20, 52) <=> c >= 8 /\ c < 10 /\ r >= 20
      /\ B(12, 14, 20, 52) <=> c >= 12 /\ c < 14 /\ r >= 20
  BY <1>1, <1>2
<1>6. /\ B(16, 19, 20, 52) <=> c >= 16 /\ c < 19 /\ r >= 20
      /\ B(19, 25, 21, 52) <=> c >= 19 /\ c < 25 /\ r >= 21
      /\ B(25, 29, 18, 52) <=> c >= 25 /\ c < 29 /\ r >= 18
      /\ B(29, 52, 17, 52) <=> c >= 29 /\ r >= 17
  BY <1>1, <1>2
<1>7. /\ B(0, 18, 13, 14) <=> c < 18 /\ r = 13
      /\ B(0, 18, 18, 52) <=> c < 18 /\ r >= 18
      /\ B(5, 23, 7, 8) <=> c >= 5 /\ c < 23 /\ r = 7
      /\ B(23, 24, 7, 17) <=> c = 23 /\ r >= 7 /\ r < 17
  BY <1>1, <1>2
<1>8. /\ B(24, 26, 13, 14) <=> c >= 24 /\ c < 26 /\ r = 13
      /\ B(24, 26, 7, 8) <=> c >= 24 /\ c < 26 /\ r = 7
      /\ B(24, 52, 16, 17) <=> c >= 24 /\ r = 16
      /\ B(28, 52, 10, 11) <=> c >= 28 /\ r = 10
  BY <1>1, <1>2
<1>9. In(p, Level1Bricks) <=> Brick1(c, r) BY <1>3, <1>5, <1>6 DEF EDGE, Brick1
<1>10. In(p, Level2Bricks) <=> Brick2(c, r) BY <1>2, <1>4, <1>7, <1>8 DEF EDGE, Brick2
<1> QED BY <1>9, <1>10 DEF c, r

\* The same for the fixed spikes.
LEMMA DrawnSpikes ==
  ASSUME NEW p, p[1] \in 0 .. 639, p[2] \in 0 .. 479
  PROVE  /\ In(p, Spikes[1]) <=> Spike1(p[1] \div 20, p[2] \div 20)
         /\ In(p, Spikes[2]) <=> Spike2(p[1] \div 20, p[2] \div 20)
<1> DEFINE c == p[1] \div 20
           r == p[2] \div 20
           B(x, x2, y, y2) == In(p, {<<x, x2, y, y2>>})
<1>1. \A x, x2, y, y2 \in Nat : B(x, x2, y, y2) <=> x <= c /\ c < x2 /\ y <= r /\ r < y2
  BY InBox
<1>2. c \in 0 .. 31 /\ r \in 0 .. 23 BY InBox
<1>3. /\ Spikes[1] = {<<21, 22, 20, 21>>}
      /\ Spikes[2] = {<<29, 30, 9, 10>>, <<7, 9, 17, 18>>, <<13, 15, 6, 7>>}
  BY DEF Spikes
<1>4. In(p, Spikes[1]) <=> B(21, 22, 20, 21) BY <1>3
<1>5. In(p, Spikes[2]) <=> B(29, 30, 9, 10) \/ B(7, 9, 17, 18) \/ B(13, 15, 6, 7)
  BY <1>3, Zenon DEF In
<1> HIDE DEF B, c, r
<1>6. /\ B(21, 22, 20, 21) <=> c = 21 /\ r = 20
      /\ B(13, 15, 6, 7) <=> c \in {13, 14} /\ r = 6
      /\ B(7, 9, 17, 18) <=> c \in {7, 8} /\ r = 17
      /\ B(29, 30, 9, 10) <=> c = 29 /\ r = 9
  BY <1>1, <1>2
<1>7. In(p, Spikes[1]) <=> Spike1(c, r) BY <1>4, <1>6 DEF Spike1
<1>8. In(p, Spikes[2]) <=> Spike2(c, r) BY <1>5, <1>6 DEF Spike2
<1> QED BY <1>7, <1>8 DEF c, r

LEMMA NothingIn == ASSUME NEW p PROVE ~In(p, {}) BY DEF In

\* What the layers of a pixel are.
LEMMA Layers ==
  ASSUME NEW px
  PROVE  /\ Shows(px, "brick") <=> In(px.level.at, Bricks[Engine(px.word.level)])
         /\ Shows(px, "spike") <=> In(px.level.at, Spikes[Engine(px.word.level)])
         /\ Shows(px, "spines") => MovingSpines(px.level.at, px.level.spine_x)
         /\ Shows(px, "mario") <=> Sprite(px.at, px.word)
  BY DEF Shows

\* The block of a position on the screen.
LEMMA BlockIndex ==
  ASSUME NEW x \in 0 .. 639, NEW y \in 0 .. 479
  PROVE  block_index(x, y) = (y \div 20) * BLOCK_X_NUM + (x \div 20)
  BY DEF block_index, Quot, BLOCK_WIDTH

LEMMA TrueToMap == ASSUME Inv PROVE PictureIsMap
<1> DEFINE p  == dac.pixel.at
           lv == dac.pixel.word.level
           c  == p[1] \div 20
           r  == p[2] \div 20
           k  == r * BLOCK_X_NUM + c
<1> SUFFICES ASSUME OnMap, lv \in {0, 1, 2}
             PROVE  /\ Shows(dac.pixel, "brick") <=> is_block(level_block_info_init[lv], p[1], p[2])
                    /\ Shows(dac.pixel, "spike") <=>
                         block_index(p[1], p[2]) \in level_spike_info_init[lv]
  BY DEF PictureIsMap
<1>1. p[1] \in 0 .. 639 /\ p[2] \in 0 .. 479 /\ dac.pixel.level.at = p BY Visible
<1>2. Engine(lv) = lv BY DEF Engine
<1>3. /\ Shows(dac.pixel, "brick") <=> In(p, Bricks[lv])
      /\ Shows(dac.pixel, "spike") <=> In(p, Spikes[lv])
  BY <1>1, <1>2, Layers, Zenon
<1>4. block_index(p[1], p[2]) = k
  <2> HIDE DEF p
  <2> QED BY <1>1, BlockIndex
<1>5. is_block(level_block_info_init[lv], p[1], p[2]) <=> k \in level_block_info_init[lv]
  BY <1>4, Zenon DEF is_block
<1>6. c \in 0 .. 31 /\ r \in 0 .. 23
  <2> HIDE DEF p
  <2> QED BY <1>1
<1>7. CASE lv = 0
  <2>1. Bricks[0] = {} /\ Spikes[0] = {} BY DEF Bricks, Spikes
  <2>2. level_block_info_init[0] = {} /\ level_spike_info_init[0] = {}
    BY DEF level_block_info_init, level_spike_info_init
  <2> HIDE DEF k
  <2> QED BY <2>1, <2>2, <1>3, <1>4, <1>5, <1>7, NothingIn
<1>8. CASE lv = 1
  <2>1. Bricks[1] = Level1Bricks /\ level_block_info_init[1] = Level1Blocks
    BY DEF Bricks, level_block_info_init
  <2>2. In(p, Level1Bricks) <=> Brick1(c, r) BY <1>1, DrawnBricks
  <2>3. In(p, Spikes[1]) <=> Spike1(c, r) BY <1>1, DrawnSpikes
  <2>4. k \in Level1Blocks <=> Brick1(c, r)
    <3> HIDE DEF c, r
    <3> QED BY <1>6, MapBricks
  <2>5. k \in level_spike_info_init[1] <=> Spike1(c, r)
    <3> HIDE DEF c, r
    <3> QED BY <1>6, MapSpikes
  <2> HIDE DEF k, p, c, r
  <2> QED BY <2>1, <2>2, <2>3, <2>4, <2>5, <1>3, <1>4, <1>5, <1>8
<1>9. CASE lv = 2
  <2>1. Bricks[2] = Level2Bricks /\ level_block_info_init[2] = Level2Blocks
    BY DEF Bricks, level_block_info_init
  <2>2. In(p, Level2Bricks) <=> Brick2(c, r) BY <1>1, DrawnBricks
  <2>3. In(p, Spikes[2]) <=> Spike2(c, r) BY <1>1, DrawnSpikes
  <2>4. k \in Level2Blocks <=> Brick2(c, r)
    <3> HIDE DEF c, r
    <3> QED BY <1>6, MapBricks
  <2>5. k \in level_spike_info_init[2] <=> Spike2(c, r)
    <3> HIDE DEF c, r
    <3> QED BY <1>6, MapSpikes
  <2> HIDE DEF k, p, c, r
  <2> QED BY <2>1, <2>2, <2>3, <2>4, <2>5, <1>3, <1>4, <1>5, <1>9
<1> QED BY <1>7, <1>8, <1>9

LEMMA WordFields == ASSUME NEW w \in Words PROVE w.pos_x \in Nat /\ w.pos_y \in Nat
<1>1. w.pos_x \in 0 .. 1023 BY VgaAssumption
<1>2. w.pos_y \in 0 .. 1023 BY VgaAssumption
<1>3. w.pos_x \in Nat BY <1>1, FieldIsNat
<1>4. w.pos_y \in Nat BY <1>2, FieldIsNat
<1> QED BY <1>3, <1>4

\* A brick that is drawn on Mario is in his box, whose six points suffice.
LEMMA ClearOfBricks == ASSUME Inv, Kinds PROVE FreeMarioClear
<1> DEFINE p == dac.pixel.at
           w == dac.pixel.word
           blocks == level_block_info_init[w.level]
<1> SUFFICES ASSUME OnMap, w.level \in {1, 2}, can_move(blocks, w.pos_x, w.pos_y),
                    Shows(dac.pixel, "mario"), Shows(dac.pixel, "brick")
             PROVE  FALSE
  BY DEF FreeMarioClear
<1>1. p[1] \in 0 .. 639 /\ p[2] \in 0 .. 479 BY Visible
<1>2. w.pos_x \in Nat /\ w.pos_y \in Nat BY WordFields DEF Kinds
<1>3. Sprite(p, w) BY Layers
<1> HIDE DEF p, w
<1>a. /\ w.pos_x <= p[1] /\ p[1] < w.pos_x + 20
      /\ w.pos_y <= p[2] /\ p[2] < w.pos_y + 24
  BY <1>3 DEF Sprite, SPRITE_X, SPRITE_Y
<1>4. p[1] \in w.pos_x .. w.pos_x + MARIO_X /\ p[2] \in w.pos_y .. w.pos_y + MARIO_Y
  <2>1. \A a \in 0 .. 639, x \in Nat : x <= a /\ a < x + 20 => a \in x .. x + 20 OBVIOUS
  <2>2. \A a \in 0 .. 479, y \in Nat : y <= a /\ a < y + 24 => a \in y .. y + 24 OBVIOUS
  <2> QED BY <2>1, <2>2, <1>1, <1>2, <1>a DEF MARIO_X, MARIO_Y
<1> USE DEF p, w
<1>5. is_block(blocks, p[1], p[2])
  <2>1. PictureIsMap BY TrueToMap
  <2>2. w.level \in {0, 1, 2} OBVIOUS
  <2> QED BY <2>1, <2>2 DEF PictureIsMap
<1>6. is_wall(blocks, w.pos_x, w.pos_y)
  <2> HIDE DEF p, w, blocks
  <2> QED BY <1>2, <1>4, <1>5, WallSamplesSuffice
<1> QED BY <1>6 DEF can_move

\* Of two boxes that share a column, one of Mario's three points is in the
\* spines', whose comparison leaves out its left edge.
LEMMA SpinesHit == ASSUME Inv, Kinds PROVE TouchKills
<1> DEFINE p == dac.pixel.at
           w == dac.pixel.word
           s == dac.pixel.level.spine_x
<1> SUFFICES ASSUME OnMap, Shows(dac.pixel, "mario"), Shows(dac.pixel, "spines")
             PROVE  level2_is_spike(w.pos_x, w.pos_y, s)
  BY DEF TouchKills
<1>1. p[1] \in 0 .. 639 /\ p[2] \in 0 .. 479 /\ dac.pixel.level.at = p BY Visible
<1>2. w.pos_x \in Nat /\ w.pos_y \in Nat /\ s \in Int
  <2>1. w \in Words /\ s \in SpinePlaces \cup {0} BY DEF Kinds
  <2>2. SpinePlaces \cup {0} \subseteq Int BY VgaAssumption
  <2> QED BY <2>1, <2>2, WordFields
<1>3. Sprite(p, w) BY Layers
<1>4. MovingSpines(p, s) BY <1>1, Layers
<1> HIDE DEF p, w, s
<1>5. /\ w.pos_x <= p[1] /\ p[1] < w.pos_x + 20 /\ w.pos_y <= p[2] /\ p[2] < w.pos_y + 24
      /\ s # 0 /\ s - 20 <= p[1] /\ p[1] < s /\ 160 <= p[2] /\ p[2] < 260
  BY <1>3, <1>4, <1>1, <1>2 DEF Sprite, MovingSpines, SPRITE_X, SPRITE_Y, BRICK
<1>6. \E dx \in {0, 20, 10} : s - 20 < w.pos_x + dx /\ w.pos_x + dx < s
  <2>1. \A x \in Nat, c \in 0 .. 639 :
          x <= c /\ c < x + 20 /\ s - 20 <= c /\ c < s =>
            \/ s - 20 < x + 0 /\ x + 0 < s
            \/ s - 20 < x + 20 /\ x + 20 < s
            \/ s - 20 < x + 10 /\ x + 10 < s
    BY <1>2
  <2>2. \/ s - 20 < w.pos_x + 0 /\ w.pos_x + 0 < s
        \/ s - 20 < w.pos_x + 20 /\ w.pos_x + 20 < s
        \/ s - 20 < w.pos_x + 10 /\ w.pos_x + 10 < s
    BY <2>1, <1>1, <1>2, <1>5
  <2> QED BY <2>2
<1> QED BY <1>1, <1>2, <1>5, <1>6
    DEF level2_is_spike, MARIO_X, MARIO_Y, BLOCK_WIDTH

-----------------------------------------------------------------------------
\* PictureIsMap of brick_draw_engine.sv and block.c, at every position.
THEOREM MapIsDrawn == Spec => []PictureIsMap
<1>1. Init => Inv BY Base
<1>2. Inv /\ [Next]_vars => Inv' BY Step
<1>3. Inv => PictureIsMap BY TrueToMap
<1> QED BY <1>1, <1>2, <1>3, PTL DEF Spec

LEMMA KindsBase == Init => Kinds
<1> SUFFICES ASSUME Init PROVE Kinds OBVIOUS
<1> QED BY DEF Init, Kinds, NoLevelPixel

\* FreeMarioClear, for every position of Mario: no place that can_move allows
\* is under a brick of the picture.
THEOREM NeverUnderBricks == Spec => []FreeMarioClear
<1>1. Init => Inv /\ Kinds BY Base, KindsBase
<1>2. Inv /\ Kinds /\ [Next]_vars => (Inv /\ Kinds)' BY Step, KindsStep
<1>3. Inv /\ Kinds => FreeMarioClear BY ClearOfBricks
<1> QED BY <1>1, <1>2, <1>3, PTL DEF Spec

\* TouchKills, for every place of the spines and every position of Mario.
THEOREM DrawnTouchKills == Spec => []TouchKills
<1>1. Init => Inv /\ Kinds BY Base, KindsBase
<1>2. Inv /\ Kinds /\ [Next]_vars => (Inv /\ Kinds)' BY Step, KindsStep
<1>3. Inv /\ Kinds => TouchKills BY SpinesHit
<1> QED BY <1>1, <1>2, <1>3, PTL DEF Spec

-----------------------------------------------------------------------------
(* The texts.                                                              *)

\* At p the text has one cell at most, and the texel of it is the font's.
Alone(text, p) == \A i, j \in CellsAt(text, p) : i = j
Fits(text, p)  ==
  \A i \in CellsAt(text, p) :
    TexelOf(text[i], p) \in {text[i].letter} \X (0 .. 15) \X (0 .. 7)

LEMMA LineCells ==
  ASSUME NEW y, NEW size, NEW xs, NEW letters, NEW i \in DOMAIN xs
  PROVE  LET c == Line(y, size, xs, letters)[i]
         IN  c.x = xs[i] /\ c.y = y /\ c.size = size /\ c.letter = letters[i]
BY DEF Line

LEMMA LineHolds ==
  ASSUME NEW y, NEW size, NEW xs, NEW letters, NEW p
  PROVE  CellsAt(Line(y, size, xs, letters), p) =
           {i \in DOMAIN xs : /\ xs[i] <= p[1] /\ p[1] < xs[i] + size.w
                              /\ y <= p[2] /\ p[2] < y + size.h}
<1> DEFINE l == Line(y, size, xs, letters)
<1>1. DOMAIN l = DOMAIN xs BY DEF Line
<1>2. \A i \in DOMAIN xs : l[i].x = xs[i] /\ l[i].y = y /\ l[i].size = size BY LineCells
<1> HIDE DEF l
<1>3. CellsAt(l, p) = {i \in DOMAIN xs : Holds(l[i], p)} BY <1>1 DEF CellsAt
<1>4. \A i \in DOMAIN xs : Holds(l[i], p) <=>
        /\ xs[i] <= p[1] /\ p[1] < xs[i] + size.w
        /\ y <= p[2] /\ p[2] < y + size.h
  BY <1>2 DEF Holds
<1> QED BY <1>3, <1>4 DEF l

LEMMA SizeOf ==
  /\ Big.w = 48 /\ Big.h = 64 /\ Big.across = 6 /\ Big.down = 4
  /\ Middle.w = 32 /\ Middle.h = 48 /\ Middle.across = 4 /\ Middle.down = 3
  /\ Small.w = 24 /\ Small.h = 32 /\ Small.across = 3 /\ Small.down = 2
BY DEF Big, Middle, Small

\* A cell is 8 columns and 16 rows of the font.
LEMMA LineFits ==
  ASSUME NEW y \in Int, NEW size \in {Big, Middle, Small}, NEW xs, NEW letters, NEW p,
         p[1] \in Int, p[2] \in Int, \A i \in DOMAIN xs : xs[i] \in Int
  PROVE  Fits(Line(y, size, xs, letters), p)
<1> DEFINE l == Line(y, size, xs, letters)
<1> SUFFICES ASSUME NEW i \in CellsAt(l, p)
             PROVE  TexelOf(l[i], p) \in {l[i].letter} \X (0 .. 15) \X (0 .. 7)
  BY DEF Fits
<1> DEFINE u == p[1] - xs[i]
           v == p[2] - y
<1>1. /\ i \in DOMAIN xs /\ xs[i] <= p[1] /\ p[1] < xs[i] + size.w
      /\ y <= p[2] /\ p[2] < y + size.h
  BY LineHolds
<1>2. l[i].x = xs[i] /\ l[i].y = y /\ l[i].size = size BY <1>1, LineCells
<1>3. TexelOf(l[i], p) = <<l[i].letter, v \div size.down, (size.w - 1 - u) \div size.across>>
  BY <1>2 DEF TexelOf
<1>4. v \div size.down \in 0 .. 15 /\ (size.w - 1 - u) \div size.across \in 0 .. 7
  <2>1. xs[i] \in Int BY <1>1
  <2>2. u \in Int /\ v \in Int /\ 0 <= u /\ 0 <= v /\ (u < size.w) /\ v < size.h
    <3> HIDE DEF l
    <3>1. size.w \in Int /\ size.h \in Int BY SizeOf
    <3> QED BY <1>1, <2>1, <3>1
  <2> HIDE DEF l, u, v
  <2>3. CASE size = Big
    <3>1. \A a \in Nat : a < 64 => a \div 4 \in 0 .. 15 OBVIOUS
    <3>2. \A a \in Nat : a < 48 => a \div 6 \in 0 .. 7 OBVIOUS
    <3> QED BY <2>2, <2>3, <3>1, <3>2, SizeOf
  <2>4. CASE size = Middle
    <3>1. \A a \in Nat : a < 48 => a \div 3 \in 0 .. 15 OBVIOUS
    <3>2. \A a \in Nat : a < 32 => a \div 4 \in 0 .. 7 OBVIOUS
    <3> QED BY <2>2, <2>4, <3>1, <3>2, SizeOf
  <2>5. CASE size = Small
    <3>1. \A a \in Nat : a < 32 => a \div 2 \in 0 .. 15 OBVIOUS
    <3>2. \A a \in Nat : a < 24 => a \div 3 \in 0 .. 7 OBVIOUS
    <3> QED BY <2>2, <2>5, <3>1, <3>2, SizeOf
  <2> QED BY <2>3, <2>4, <2>5
<1> QED BY <1>3, <1>4

\* Of two texts of which one has nothing at p.
LEMMA Joined ==
  ASSUME NEW S, NEW s \in Seq(S), NEW t \in Seq(S), NEW p,
         Alone(s, p), Fits(s, p), Alone(t, p), Fits(t, p),
         CellsAt(s, p) = {} \/ CellsAt(t, p) = {}
  PROVE  /\ Alone(s \o t, p) /\ Fits(s \o t, p)
         /\ CellsAt(s \o t, p) = {} <=> CellsAt(s, p) = {} /\ CellsAt(t, p) = {}
<1> DEFINE r == s \o t
           m == Len(s)
<1>1. /\ r \in Seq(S) /\ Len(r) = m + Len(t) /\ m \in Nat /\ Len(t) \in Nat
      /\ \A i \in 1 .. Len(r) : r[i] = IF i <= m THEN s[i] ELSE t[i - m]
  BY ConcatProperties, LenProperties
<1>2. DOMAIN s = 1 .. m /\ DOMAIN t = 1 .. Len(t) /\ DOMAIN r = 1 .. Len(r)
  BY <1>1, LenProperties
<1> HIDE DEF r, m
<1>3. \A i \in CellsAt(r, p) :
        IF i <= m THEN i \in CellsAt(s, p) /\ r[i] = s[i]
        ELSE i - m \in CellsAt(t, p) /\ r[i] = t[i - m]
  BY <1>1, <1>2 DEF CellsAt
<1>9. CellsAt(r, p) \subseteq Int BY <1>2 DEF CellsAt
<1>4. \A i \in CellsAt(s, p) : i \in CellsAt(r, p)
  BY <1>1, <1>2 DEF CellsAt
<1>5. \A i \in CellsAt(t, p) : i + m \in CellsAt(r, p)
  <2> SUFFICES ASSUME NEW i \in CellsAt(t, p) PROVE i + m \in CellsAt(r, p) OBVIOUS
  <2>1. i \in 1 .. Len(t) /\ Holds(t[i], p) BY <1>2 DEF CellsAt
  <2>2. i + m \in 1 .. Len(r) /\ ~(i + m <= m) /\ (i + m) - m = i BY <1>1, <2>1
  <2>3. r[i + m] = t[i] BY <1>1, <2>2
  <2> QED BY <1>2, <2>1, <2>2, <2>3 DEF CellsAt
<1>6. Alone(r, p)
  <2> SUFFICES ASSUME NEW i \in CellsAt(r, p), NEW j \in CellsAt(r, p) PROVE i = j BY DEF Alone
  <2>1. CASE CellsAt(t, p) = {} BY <2>1, <1>3 DEF Alone
  <2>2. CASE CellsAt(s, p) = {}
    <3>1. i - m = j - m /\ i \in Int /\ j \in Int BY <2>2, <1>3, <1>9 DEF Alone
    <3> QED BY <3>1, <1>1
  <2> QED BY <2>1, <2>2
<1>7. Fits(r, p) BY <1>3 DEF Fits
<1>8. CellsAt(r, p) = {} <=> CellsAt(s, p) = {} /\ CellsAt(t, p) = {}
  BY <1>3, <1>4, <1>5
<1> QED BY <1>6, <1>7, <1>8 DEF r

Letters == {"A", "B", "E", "F", "G", "H", "I", "K", "M", "N", "O", "P", "R", "S", "T", "V", "W", "Y"}
Cells   == [x : Int, y : Int, size : {Big, Middle, Small}, letter : Letters]

\* A line whose cells are apart.
Spread(xs, w) == \A i, j \in DOMAIN xs : i < j => xs[i] + w <= xs[j]

Drawn(l, n, y, size, xs, letters) ==
  /\ l = Line(y, size, xs, letters)
  /\ n \in Nat /\ y \in Int /\ size \in {Big, Middle, Small} /\ xs \in [1 .. n -> Int]
  /\ Spread(xs, size.w)
  /\ \A i \in 1 .. n : letters[i] \in Letters

LEMMA LineGood ==
  ASSUME NEW l, NEW n, NEW y, NEW size, NEW xs, NEW letters,
         Drawn(l, n, y, size, xs, letters), NEW p, p[1] \in Int, p[2] \in Int
  PROVE  /\ l \in Seq(Cells) /\ Alone(l, p) /\ Fits(l, p)
         /\ CellsAt(l, p) # {} => y <= p[2] /\ p[2] < y + size.h
<1>0. /\ l = Line(y, size, xs, letters)
      /\ n \in Nat /\ y \in Int /\ size \in {Big, Middle, Small} /\ xs \in [1 .. n -> Int]
      /\ Spread(xs, size.w)
      /\ \A i \in 1 .. n : letters[i] \in Letters
  BY DEF Drawn
<1>1. DOMAIN xs = 1 .. n BY <1>0
<1>2. l \in Seq(Cells)
  <2>1. l = [i \in 1 .. n |-> [x |-> xs[i], y |-> y, size |-> size, letter |-> letters[i]]]
    BY <1>0, <1>1 DEF Line
  <2>2. \A i \in 1 .. n :
          [x |-> xs[i], y |-> y, size |-> size, letter |-> letters[i]] \in Cells
    BY <1>0 DEF Cells
  <2>3. l \in [1 .. n -> Cells] BY <2>1, <2>2
  <2> QED BY <2>3, <1>0, SeqDef
<1>3. CellsAt(l, p) = {i \in 1 .. n : /\ xs[i] <= p[1] /\ p[1] < xs[i] + size.w
                                     /\ y <= p[2] /\ p[2] < y + size.h}
  BY <1>0, <1>1, LineHolds
<1>4. Fits(l, p) BY <1>0, <1>1, LineFits
<1>5. Alone(l, p)
  <2> SUFFICES ASSUME NEW i \in CellsAt(l, p), NEW j \in CellsAt(l, p), i < j PROVE FALSE
    <3>1. CellsAt(l, p) \subseteq Int BY <1>0, <1>3
    <3> QED BY <3>1 DEF Alone
  <2>1. xs[i] + size.w <= xs[j] BY <1>0, <1>1, <1>3 DEF Spread
  <2>2. xs[j] <= p[1] /\ p[1] < xs[i] + size.w BY <1>3
  <2>3. xs[i] \in Int /\ xs[j] \in Int /\ size.w \in Int BY <1>0, <1>3, SizeOf
  <2> QED BY <2>1, <2>2, <2>3
<1> QED BY <1>2, <1>3, <1>4, <1>5

\* The lines that Texts does not name.
FAKE  == Line(120, Middle, <<60, 102, 144, 186>>, <<"F", "A", "K", "E">>)
OVER  == Line(60, Big, <<60, 123, 186, 249, 343, 406, 469, 532>>,
              <<"G", "A", "M", "E", "O", "V", "E", "R">>)
RETRY == Line(180, Small, <<95, 127, 159, 191, 223, 271, 319, 351, 399, 431, 463, 495, 527>>,
              <<"P", "R", "E", "S", "S", "R", "T", "O", "R", "E", "T", "R", "Y">>)

LEMMA FirstGood ==
  ASSUME NEW p, p[1] \in Int, p[2] \in Int
  PROVE  /\ FirstLine \in Seq(Cells) /\ Alone(FirstLine, p) /\ Fits(FirstLine, p)
         /\ CellsAt(FirstLine, p) # {} => 52 <= p[2] /\ p[2] < 100
<1> DEFINE xs == <<61, 125, 167, 209, 251, 293, 357, 399, 463, 505, 547>>
           ls == <<"I", "W", "A", "N", "N", "A", "B", "E", "T", "H", "E">>
           l  == Line(52, Middle, xs, ls)
<1>1. xs \in [1 .. 11 -> Int] OBVIOUS
<1>2. \A i \in 1 .. 11 : ls[i] \in Letters BY DEF Letters
<1>3. Spread(xs, 32)
  <2>1. \A i, j \in 1 .. 11 : i < j => xs[i] + 32 <= xs[j] OBVIOUS
  <2> QED BY <2>1 DEF Spread
<1>4. FirstLine = l BY DEF FirstLine
<1> HIDE DEF xs, ls, l
<1>5. 52 + Middle.h = 100 /\ Spread(xs, Middle.w) BY <1>3, SizeOf
<1>6. /\ l \in Seq(Cells) /\ Alone(l, p) /\ Fits(l, p)
      /\ CellsAt(l, p) # {} => 52 <= p[2] /\ p[2] < 52 + Middle.h
  <2>1. 11 \in Nat /\ 52 \in Int /\ Middle \in {Big, Middle, Small} OBVIOUS
  <2>2. Drawn(l, 11, 52, Middle, xs, ls) BY <1>1, <1>2, <1>5, <2>1 DEF l, Drawn
  <2> QED BY <2>2, LineGood
<1> QED BY <1>4, <1>5, <1>6

LEMMA FakeGood ==
  ASSUME NEW p, p[1] \in Int, p[2] \in Int
  PROVE  /\ FAKE \in Seq(Cells) /\ Alone(FAKE, p) /\ Fits(FAKE, p)
         /\ CellsAt(FAKE, p) # {} => 120 <= p[2] /\ p[2] < 168
         /\ CellsAt(FAKE, p) # {} => p[1] < 218
<1> DEFINE xs == <<60, 102, 144, 186>>
           ls == <<"F", "A", "K", "E">>
           l  == Line(120, Middle, xs, ls)
<1>1. xs \in [1 .. 4 -> Int] OBVIOUS
<1>2. \A i \in 1 .. 4 : ls[i] \in Letters BY DEF Letters
<1>3. Spread(xs, 32)
  <2>1. \A i, j \in 1 .. 4 : i < j => xs[i] + 32 <= xs[j] OBVIOUS
  <2> QED BY <2>1 DEF Spread
<1>4. FAKE = l BY DEF FAKE
<1>5. \A i \in 1 .. 4 : xs[i] + 32 <= 218 OBVIOUS
<1> HIDE DEF xs, ls, l
<1>6. 120 + Middle.h = 168 /\ Spread(xs, Middle.w) BY <1>3, SizeOf
<1>7. /\ l \in Seq(Cells) /\ Alone(l, p) /\ Fits(l, p)
      /\ CellsAt(l, p) # {} => 120 <= p[2] /\ p[2] < 120 + Middle.h
  <2>1. 4 \in Nat /\ 120 \in Int /\ Middle \in {Big, Middle, Small} OBVIOUS
  <2>2. Drawn(l, 4, 120, Middle, xs, ls) BY <1>1, <1>2, <1>6, <2>1 DEF l, Drawn
  <2> QED BY <2>2, LineGood
<1>8. CellsAt(l, p) # {} => p[1] < 218
  <2>1. DOMAIN xs = 1 .. 4 BY <1>1
  <2>2. CellsAt(l, p) \subseteq {i \in 1 .. 4 : xs[i] <= p[1] /\ p[1] < xs[i] + 32}
    BY <2>1, LineHolds, SizeOf DEF l
  <2> QED BY <1>1, <1>5, <2>2
<1> QED BY <1>4, <1>6, <1>7, <1>8

LEMMA MarioGood ==
  ASSUME NEW p, p[1] \in Int, p[2] \in Int
  PROVE  /\ MARIO \in Seq(Cells) /\ Alone(MARIO, p) /\ Fits(MARIO, p)
         /\ CellsAt(MARIO, p) # {} => 120 <= p[2] /\ p[2] < 184
         /\ CellsAt(MARIO, p) # {} => 270 <= p[1]
<1> DEFINE xs == <<270, 333, 396, 459, 522>>
           ls == <<"M", "A", "R", "I", "O">>
           l  == Line(120, Big, xs, ls)
<1>1. xs \in [1 .. 5 -> Int] OBVIOUS
<1>2. \A i \in 1 .. 5 : ls[i] \in Letters BY DEF Letters
<1>3. Spread(xs, 48)
  <2>1. \A i, j \in 1 .. 5 : i < j => xs[i] + 48 <= xs[j] OBVIOUS
  <2> QED BY <2>1 DEF Spread
<1>4. MARIO = l BY DEF MARIO
<1>5. \A i \in 1 .. 5 : 270 <= xs[i] OBVIOUS
<1> HIDE DEF xs, ls, l
<1>6. 120 + Big.h = 184 /\ Spread(xs, Big.w) BY <1>3, SizeOf
<1>7. /\ l \in Seq(Cells) /\ Alone(l, p) /\ Fits(l, p)
      /\ CellsAt(l, p) # {} => 120 <= p[2] /\ p[2] < 120 + Big.h
  <2>1. 5 \in Nat /\ 120 \in Int /\ Big \in {Big, Middle, Small} OBVIOUS
  <2>2. Drawn(l, 5, 120, Big, xs, ls) BY <1>1, <1>2, <1>6, <2>1 DEF l, Drawn
  <2> QED BY <2>2, LineGood
<1>8. CellsAt(l, p) # {} => 270 <= p[1]
  <2>1. DOMAIN xs = 1 .. 5 BY <1>1
  <2>2. CellsAt(l, p) \subseteq {i \in 1 .. 5 : xs[i] <= p[1] /\ p[1] < xs[i] + 48}
    BY <2>1, LineHolds, SizeOf DEF l
  <2> QED BY <1>1, <1>5, <2>2
<1> QED BY <1>4, <1>6, <1>7, <1>8

LEMMA ThirdGood ==
  ASSUME NEW p, p[1] \in Int, p[2] \in Int
  PROVE  /\ ThirdLine \in Seq(Cells) /\ Alone(ThirdLine, p) /\ Fits(ThirdLine, p)
         /\ CellsAt(ThirdLine, p) # {} => 240 <= p[2] /\ p[2] < 272
<1> DEFINE xs == <<60, 88, 116, 144, 172, 216, 244, 272, 300, 328,
                    372, 400, 444, 472, 500, 528, 556>>
           ls == <<"P", "R", "E", "S", "S", "E", "N", "T", "E", "R",
                    "T", "O", "S", "T", "A", "R", "T">>
           l  == Line(240, Small, xs, ls)
<1>1. xs \in [1 .. 17 -> Int] OBVIOUS
<1>2. \A i \in 1 .. 17 : ls[i] \in Letters BY DEF Letters
<1>3. Spread(xs, 24)
  <2>1. \A i, j \in 1 .. 17 : i < j => xs[i] + 24 <= xs[j] OBVIOUS
  <2> QED BY <2>1 DEF Spread
<1>4. ThirdLine = l BY DEF ThirdLine
<1> HIDE DEF xs, ls, l
<1>5. 240 + Small.h = 272 /\ Spread(xs, Small.w) BY <1>3, SizeOf
<1>6. /\ l \in Seq(Cells) /\ Alone(l, p) /\ Fits(l, p)
      /\ CellsAt(l, p) # {} => 240 <= p[2] /\ p[2] < 240 + Small.h
  <2>1. 17 \in Nat /\ 240 \in Int /\ Small \in {Big, Middle, Small} OBVIOUS
  <2>2. Drawn(l, 17, 240, Small, xs, ls) BY <1>1, <1>2, <1>5, <2>1 DEF l, Drawn
  <2> QED BY <2>2, LineGood
<1> QED BY <1>4, <1>5, <1>6

LEMMA OverGood ==
  ASSUME NEW p, p[1] \in Int, p[2] \in Int
  PROVE  /\ OVER \in Seq(Cells) /\ Alone(OVER, p) /\ Fits(OVER, p)
         /\ CellsAt(OVER, p) # {} => 60 <= p[2] /\ p[2] < 124
<1> DEFINE xs == <<60, 123, 186, 249, 343, 406, 469, 532>>
           ls == <<"G", "A", "M", "E", "O", "V", "E", "R">>
           l  == Line(60, Big, xs, ls)
<1>1. xs \in [1 .. 8 -> Int] OBVIOUS
<1>2. \A i \in 1 .. 8 : ls[i] \in Letters BY DEF Letters
<1>3. Spread(xs, 48)
  <2>1. \A i, j \in 1 .. 8 : i < j => xs[i] + 48 <= xs[j] OBVIOUS
  <2> QED BY <2>1 DEF Spread
<1>4. OVER = l BY DEF OVER
<1> HIDE DEF xs, ls, l
<1>5. 60 + Big.h = 124 /\ Spread(xs, Big.w) BY <1>3, SizeOf
<1>6. /\ l \in Seq(Cells) /\ Alone(l, p) /\ Fits(l, p)
      /\ CellsAt(l, p) # {} => 60 <= p[2] /\ p[2] < 60 + Big.h
  <2>1. 8 \in Nat /\ 60 \in Int /\ Big \in {Big, Middle, Small} OBVIOUS
  <2>2. Drawn(l, 8, 60, Big, xs, ls) BY <1>1, <1>2, <1>5, <2>1 DEF l, Drawn
  <2> QED BY <2>2, LineGood
<1> QED BY <1>4, <1>5, <1>6

LEMMA RetryGood ==
  ASSUME NEW p, p[1] \in Int, p[2] \in Int
  PROVE  /\ RETRY \in Seq(Cells) /\ Alone(RETRY, p) /\ Fits(RETRY, p)
         /\ CellsAt(RETRY, p) # {} => 180 <= p[2] /\ p[2] < 212
<1> DEFINE xs == <<95, 127, 159, 191, 223, 271, 319, 351, 399, 431, 463, 495, 527>>
           ls == <<"P", "R", "E", "S", "S", "R", "T", "O", "R", "E", "T", "R", "Y">>
           l  == Line(180, Small, xs, ls)
<1>1. xs \in [1 .. 13 -> Int] OBVIOUS
<1>2. \A i \in 1 .. 13 : ls[i] \in Letters BY DEF Letters
<1>3. Spread(xs, 24)
  <2>1. \A i, j \in 1 .. 13 : i < j => xs[i] + 24 <= xs[j] OBVIOUS
  <2> QED BY <2>1 DEF Spread
<1>4. RETRY = l BY DEF RETRY
<1> HIDE DEF xs, ls, l
<1>5. 180 + Small.h = 212 /\ Spread(xs, Small.w) BY <1>3, SizeOf
<1>6. /\ l \in Seq(Cells) /\ Alone(l, p) /\ Fits(l, p)
      /\ CellsAt(l, p) # {} => 180 <= p[2] /\ p[2] < 180 + Small.h
  <2>1. 13 \in Nat /\ 180 \in Int /\ Small \in {Big, Middle, Small} OBVIOUS
  <2>2. Drawn(l, 13, 180, Small, xs, ls) BY <1>1, <1>2, <1>5, <2>1 DEF l, Drawn
  <2> QED BY <2>2, LineGood
<1> QED BY <1>4, <1>5, <1>6

LEMMA StartGood ==
  ASSUME NEW p, p[1] \in Int, p[2] \in Int
  PROVE  /\ startinfo \in Seq(Cells) /\ Alone(startinfo, p) /\ Fits(startinfo, p)
         /\ CellsAt(startinfo, p) # {} => ~(p[2] \in 210 .. 213)
<1> DEFINE s1 == FirstLine \o FAKE
           s2 == s1 \o MARIO
           s3 == s2 \o ThirdLine
<1>1. startinfo = s3 BY DEF startinfo, FAKE
<1>2. /\ s1 \in Seq(Cells) /\ Alone(s1, p) /\ Fits(s1, p)
      /\ CellsAt(s1, p) # {} => \/ 52 <= p[2] /\ p[2] < 100
                                \/ 120 <= p[2] /\ p[2] < 168 /\ p[1] < 218
  <2>1. CellsAt(FirstLine, p) = {} \/ CellsAt(FAKE, p) = {} BY FirstGood, FakeGood
  <2>2. s1 \in Seq(Cells) BY FirstGood, FakeGood, ConcatProperties
  <2>3. Alone(s1, p) /\ Fits(s1, p)
        /\ (CellsAt(s1, p) = {} <=> CellsAt(FirstLine, p) = {} /\ CellsAt(FAKE, p) = {})
    BY <2>1, FirstGood, FakeGood, Joined
  <2> HIDE DEF s1
  <2> QED BY <2>2, <2>3, FirstGood, FakeGood
<1> HIDE DEF s1
<1>3. /\ s2 \in Seq(Cells) /\ Alone(s2, p) /\ Fits(s2, p)
      /\ CellsAt(s2, p) # {} => 52 <= p[2] /\ p[2] < 184
  <2>1. CellsAt(s1, p) = {} \/ CellsAt(MARIO, p) = {} BY <1>2, MarioGood
  <2>2. s2 \in Seq(Cells) BY <1>2, MarioGood, ConcatProperties
  <2>3. Alone(s2, p) /\ Fits(s2, p)
        /\ (CellsAt(s2, p) = {} <=> CellsAt(s1, p) = {} /\ CellsAt(MARIO, p) = {})
    BY <1>2, <2>1, MarioGood, Joined
  <2>4. CellsAt(s1, p) # {} => 52 <= p[2] /\ p[2] < 184 BY <1>2
  <2>5. CellsAt(MARIO, p) # {} => 52 <= p[2] /\ p[2] < 184 BY MarioGood
  <2> QED BY <2>2, <2>3, <2>4, <2>5
<1> HIDE DEF s2
<1>4. CellsAt(s2, p) = {} \/ CellsAt(ThirdLine, p) = {} BY <1>3, ThirdGood
<1>5. s3 \in Seq(Cells) /\ Alone(s3, p) /\ Fits(s3, p)
      /\ (CellsAt(s3, p) = {} <=> CellsAt(s2, p) = {} /\ CellsAt(ThirdLine, p) = {})
  BY <1>3, <1>4, ThirdGood, Joined, ConcatProperties
<1>6. CellsAt(s2, p) # {} => ~(p[2] \in 210 .. 213) BY <1>3
<1>7. CellsAt(ThirdLine, p) # {} => ~(p[2] \in 210 .. 213) BY ThirdGood
<1> QED BY <1>1, <1>5, <1>6, <1>7

LEMMA DeathGood ==
  ASSUME NEW p, p[1] \in Int, p[2] \in Int
  PROVE  /\ deathinfo \in Seq(Cells) /\ Alone(deathinfo, p) /\ Fits(deathinfo, p)
         /\ CellsAt(deathinfo, p) # {} => ~(p[2] \in 145 .. 148)
<1> DEFINE s == OVER \o RETRY
<1>1. deathinfo = s BY DEF deathinfo, OVER, RETRY
<1>2. CellsAt(OVER, p) = {} \/ CellsAt(RETRY, p) = {} BY OverGood, RetryGood
<1>3. s \in Seq(Cells) /\ Alone(s, p) /\ Fits(s, p)
      /\ (CellsAt(s, p) = {} <=> CellsAt(OVER, p) = {} /\ CellsAt(RETRY, p) = {})
  BY <1>2, OverGood, RetryGood, Joined, ConcatProperties
<1>4. CellsAt(OVER, p) # {} => ~(p[2] \in 145 .. 148) BY OverGood
<1>5. CellsAt(RETRY, p) # {} => ~(p[2] \in 145 .. 148) BY RetryGood
<1> QED BY <1>1, <1>3, <1>4, <1>5

\* Where a text has no dash, what is drawn of it is the texel of its only cell.
LEMMA WholeText ==
  ASSUME NEW text \in Seq(Cells), NEW p, Alone(text, p), Fits(text, p)
  PROVE  Whole(text, Texels(text, p), p)
<1> SUFFICES ASSUME NEW i \in CellsAt(text, p)
             PROVE  Texels(text, p) = {TexelOf(text[i], p)}
                    /\ TexelOf(text[i], p) \in {text[i].letter} \X (0 .. 15) \X (0 .. 7)
  BY DEF Whole
<1>1. CellsAt(text, p) = {i} BY DEF Alone
<1>2. i \in Nat BY LenProperties DEF CellsAt
<1>3. {j \in CellsAt(text, p) : \A k \in CellsAt(text, p) : j <= k} = {i} BY <1>1, <1>2
<1> QED BY <1>3 DEF Texels, Fits

\* The cells of a text are above its row of dashes or below it.
LEMMA TextsWhole == ASSUME Inv PROVE LettersWhole
<1> DEFINE p == dac.pixel.at
<1> SUFFICES ASSUME OnMap
             PROVE  Whole(startinfo, StartInfo(p), p) /\ Whole(deathinfo, DeathInfo(p), p)
  BY DEF LettersWhole
<1>1. p[1] \in Int /\ p[2] \in Int
  <2>1. p[1] \in 0 .. 639 /\ p[2] \in 0 .. 479 BY Visible
  <2>2. p[1] \in Nat BY <2>1, ColumnIsNat
  <2>3. p[2] \in Nat BY <2>1, RowIsNat
  <2> HIDE DEF p
  <2> QED BY <2>2, <2>3
<1> HIDE DEF p
<1>2. Whole(startinfo, StartInfo(p), p)
  <2>1. CASE CellsAt(startinfo, p) = {} BY <2>1 DEF Whole
  <2>2. CASE CellsAt(startinfo, p) # {}
    <3>1. ~Dash(p, 210) BY <1>1, <2>2, StartGood DEF Dash
    <3>2. StartInfo(p) = Texels(startinfo, p) BY <3>1 DEF StartInfo
    <3> QED BY <1>1, <3>2, StartGood, WholeText
  <2> QED BY <2>1, <2>2
<1>3. Whole(deathinfo, DeathInfo(p), p)
  <2>1. CASE CellsAt(deathinfo, p) = {} BY <2>1 DEF Whole
  <2>2. CASE CellsAt(deathinfo, p) # {}
    <3>1. ~Dash(p, 145) BY <1>1, <2>2, DeathGood DEF Dash
    <3>2. DeathInfo(p) = Texels(deathinfo, p) BY <3>1 DEF DeathInfo
    <3> QED BY <1>1, <3>2, DeathGood, WholeText
  <2> QED BY <2>1, <2>2
<1> QED BY <1>2, <1>3 DEF p

\* LettersWhole of startinfo.sv and deathinfo.sv, for every timing of the frame:
\* a position is in one cell of a text at most, and the dashes are in none.
THEOREM EveryLetterWhole == Spec => []LettersWhole
<1>1. Init => Inv BY Base
<1>2. Inv /\ [Next]_vars => Inv' BY Step
<1>3. Inv => LettersWhole BY TextsWhole
<1> QED BY <1>1, <1>2, <1>3, PTL DEF Spec
=============================================================================
