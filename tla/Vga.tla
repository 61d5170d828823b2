--------------------------------- MODULE Vga ---------------------------------
(***************************************************************************)
(* The picture: VGA_controller.sv counts the positions of a frame at half  *)
(* the clock; draw_engine.sv and brick_draw_engine.sv decide the colour of *)
(* a position in a chain of registers; the DAC takes what comes out of it. *)
(*                                                                         *)
(* A colour is what it is made of: the position tested at each register,   *)
(* the position whose texture the memories gave, and the word at 0x90 that *)
(* was up.  What they make of them are operators on such a pixel, in terms *)
(* of the layers whose box holds the position; which texels of a box are   *)
(* transparent, and which of Mario's six pictures is up, is left out.      *)
(***************************************************************************)
EXTENDS Geometry, Texts

CONSTANTS
  H_TOTAL, V_TOTAL,  \* pixels of a line, lines of a frame: 800 and 525
  Words,             \* what may be at 0x90: records of level, position, is_death
  SpinePlaces,       \* where the moving spines may be
  Moments            \* bound: positions of the counters at which words,
                     \* spines and the reset button change

ASSUME VgaAssumption ==
  /\ H_TOTAL \in 753 .. 1023 /\ V_TOTAL \in 493 .. 1023
  /\ Words \subseteq [level : 0 .. 7, pos_x : 0 .. 1023, pos_y : 0 .. 1023, is_death : {0, 1}]
  /\ SpinePlaces \subseteq {0} \cup 20 .. 460

VARIABLES
  phase,           \* VGA_CLK rises with every second edge of Clk: with the next, if 1
  DrawX, DrawY, signals, \* the registers of VGA_controller: counters, blanking, syncs
  Reset,           \* Reset_h, the button KEY0
  word, spine_x,   \* the word at 0x90, and the register of spine_move
  rom,             \* the position whose texels the memories hold in their outputs
  level_pixel,     \* color_idx of the level engines
  pixel,           \* color_idx of draw_engine
  vector,          \* color_vector of colorROM
  saved,           \* the levels whose trigger_save is set
  dac              \* what the DAC took last

controller == <<DrawX, DrawY, signals>>
chain      == <<rom, level_pixel, pixel, vector>>
vars       == <<phase, controller, Reset, word, spine_x, chain, saved, dac>>

-----------------------------------------------------------------------------
\* VGA_controller.

Origin == <<0, 0>>
Position == <<DrawX, DrawY>>

\* h_counter_in and v_counter_in.
Position_in ==
  IF DrawX + 1 = H_TOTAL THEN <<0, IF DrawY + 1 = V_TOTAL THEN 0 ELSE DrawY + 1>>
  ELSE <<DrawX + 1, DrawY>>

\* VGA_BLANK_N_in, VGA_HS_in and VGA_VS_in.
Signals_in(p) ==
  [on |-> p[1] < 640 /\ p[2] < 480,
   hs |-> ~(p[1] >= 656 /\ p[1] < 752),
   vs |-> ~(p[2] >= 490 /\ p[2] < 492)]

NoSignals == [on |-> FALSE, hs |-> FALSE, vs |-> FALSE]

\* Slip: the reset forgets the lines.
Controller_half ==
  IF Reset
  THEN DrawX' = 0 /\ UNCHANGED DrawY /\ signals' = NoSignals
  ELSE /\ DrawX' = Position_in[1] /\ DrawY' = Position_in[2]
       /\ signals' = Signals_in(Position_in)

Controller ==
  IF Reset
  THEN DrawX' = 0 /\ DrawY' = 0 /\ signals' = NoSignals
  ELSE /\ DrawX' = Position_in[1] /\ DrawY' = Position_in[2]
       /\ signals' = Signals_in(Position_in)

-----------------------------------------------------------------------------
\* The boxes the level engines draw, in blocks: first and end column, first
\* and end row.  EDGE ends a comparison the code leaves open.
BRICK == 20
EDGE  == 52

In(p, boxes) ==
  \E b \in boxes : /\ b[1] * BRICK <= p[1] /\ p[1] < b[2] * BRICK
                   /\ b[3] * BRICK <= p[2] /\ p[2] < b[4] * BRICK

Level1Bricks ==
  {<<0, 2, 18, EDGE>>, <<2, 8, 21, EDGE>>, <<8, 10, 20, EDGE>>, <<12, 14, 20, EDGE>>,
   <<16, 19, 20, EDGE>>, <<19, 25, 21, EDGE>>, <<25, 29, 18, EDGE>>, <<29, EDGE, 17, EDGE>>}

\* Slip: the wall begins below the row of bricks that it stands in.
Level2Bricks_gap ==
  {<<0, 18, 13, 14>>, <<0, 18, 18, EDGE>>, <<5, 23, 7, 8>>, <<23, 24, 8, 17>>,
   <<24, 26, 13, 14>>, <<24, 26, 7, 8>>, <<24, EDGE, 16, 17>>, <<28, EDGE, 10, 11>>}

Level2Bricks ==
  {<<0, 18, 13, 14>>, <<0, 18, 18, EDGE>>, <<5, 23, 7, 8>>, <<23, 24, 7, 17>>,
   <<24, 26, 13, 14>>, <<24, 26, 7, 8>>, <<24, EDGE, 16, 17>>, <<28, EDGE, 10, 11>>}

\* What is drawn for each level_index: draw_engine takes level 1 for those it
\* does not know.
Engine(lv) == IF lv \in {0, 2} THEN lv ELSE 1

Bricks == [lv \in 0 .. 2 |-> CASE lv = 0 -> {} [] lv = 1 -> Level1Bricks [] lv = 2 -> Level2Bricks]

Spikes == [lv \in 0 .. 2 |->
  CASE lv = 0 -> {}
    [] lv = 1 -> {<<21, 22, 20, 21>>}
    [] lv = 2 -> {<<29, 30, 9, 10>>, <<7, 9, 17, 18>>, <<13, 15, 6, 7>>}]

\* The save points, and the arrow of level 1.
Signs == [lv \in 0 .. 2 |->
  CASE lv = 0 -> {}
    [] lv = 1 -> {<<3, 4, 20, 21>>, <<28, 30, 14, 15>>}
    [] lv = 2 -> {<<28, 29, 15, 16>>}]

\* Slip: the group is a pixel wider.
MovingSpines_wide(p, s) ==
  /\ s # 0
  /\ s - BRICK <= p[1] /\ p[1] <= s
  /\ 8 * BRICK <= p[2] /\ p[2] < 13 * BRICK

MovingSpines(p, s) ==
  /\ s # 0
  /\ s - BRICK <= p[1] /\ p[1] < s
  /\ 8 * BRICK <= p[2] /\ p[2] < 13 * BRICK

SPRITE_X == 20
SPRITE_Y == 24

\* Slip: the comparison begins a row early.
Sprite_early(p, w) ==
  /\ w.pos_x <= p[1] /\ p[1] < w.pos_x + SPRITE_X
  /\ w.pos_y <= p[2] + 1 /\ p[2] < w.pos_y + SPRITE_Y

Sprite(p, w) ==
  /\ w.pos_x <= p[1] /\ p[1] < w.pos_x + SPRITE_X
  /\ w.pos_y <= p[2] /\ p[2] < w.pos_y + SPRITE_Y

\* What of a text lies at a position: a texel of a letter, or a dash.
StartInfo(p) == Texels(startinfo, p) \cup {"dash" : d \in {y \in {210} : Dash(p, y)}}
DeathInfo(p) == Texels(deathinfo, p) \cup {"dash" : d \in {y \in {145} : Dash(p, y)}}

\* What a pixel that has gone through the chain shows: draw_engine chooses the
\* level engine and adds Mario and the death message.
Shows(px, layer) ==
  LET p  == px.level.at
      lv == Engine(px.word.level)
  IN  CASE layer = "brick"  -> In(p, Bricks[lv])
        [] layer = "spike"  -> In(p, Spikes[lv])
        [] layer = "sign"   -> In(p, Signs[lv])
        [] layer = "spines" -> lv = 2 /\ MovingSpines(p, px.level.spine_x)
        [] layer = "start"  -> lv = 0 /\ StartInfo(p) # {}
        [] layer = "mario"  -> Sprite(px.at, px.word)
        [] layer = "death"  -> px.word.is_death = 1 /\ DeathInfo(px.at) # {}

-----------------------------------------------------------------------------
\* The save points: their level engine looks at Mario in every level.
SaveTouched(w) ==
  {lv \in {1, 2} :
     CASE lv = 1 -> w.pos_x \in 3 * BRICK .. 4 * BRICK - 1 /\ w.pos_y + 24 >= 20 * BRICK
       [] lv = 2 -> w.pos_x \in 28 * BRICK .. 29 * BRICK - 1 /\ w.pos_y + 24 >= 15 * BRICK}

NoLevelPixel == [at |-> Origin, rom |-> Origin, spine_x |-> 0]

\* Slip: draw_engine's colour is not registered.
Chain_short ==
  /\ rom' = Position
  /\ level_pixel' = [at |-> Position, rom |-> rom, spine_x |-> spine_x]
  /\ pixel' = pixel
  /\ vector' = [at |-> Position, rom |-> rom, word |-> word, level |-> level_pixel]

\* One edge of Clk in the memories, the level engines, draw_engine, colorROM.
Chain ==
  /\ rom' = Position
  /\ level_pixel' = [at |-> Position, rom |-> rom, spine_x |-> spine_x]
  /\ pixel' = [at |-> Position, rom |-> rom, word |-> word, level |-> level_pixel]
  /\ vector' = pixel

\* An edge of Clk; every second one is an edge of VGA_CLK too, at which the
\* controller counts and the DAC takes colour and signals.
Clk ==
  /\ Chain
  /\ saved' = saved \cup SaveTouched(word)
  /\ phase' = 1 - phase
  /\ IF phase = 1
     THEN Controller /\ dac' = [pixel |-> vector, signals |-> signals]
     ELSE UNCHANGED <<controller, dac>>
  /\ UNCHANGED <<Reset, word, spine_x>>

-----------------------------------------------------------------------------
\* The program and the spines write what they like, and the button resets.

Draw(w) ==
  /\ Position \in Moments
  /\ word' = w
  /\ UNCHANGED <<phase, controller, Reset, spine_x, chain, saved, dac>>

SpinesAt(s) ==
  /\ Position \in Moments
  /\ spine_x' = s
  /\ UNCHANGED <<phase, controller, Reset, word, chain, saved, dac>>

\* The button: pressed at a moment of the bound, released at any.
Button ==
  /\ Position \in Moments \/ Reset
  /\ Reset' = ~Reset
  /\ UNCHANGED <<phase, controller, word, spine_x, chain, saved, dac>>

\* Registers power up with 0, and so does the word.
Init ==
  /\ phase = 0 /\ DrawX = 0 /\ DrawY = 0 /\ signals = NoSignals
  /\ Reset = FALSE
  /\ word \in Words /\ spine_x \in SpinePlaces
  /\ rom = Origin /\ level_pixel = NoLevelPixel
  /\ pixel = [at |-> Origin, rom |-> Origin, word |-> word, level |-> NoLevelPixel]
  /\ vector = pixel
  /\ saved = {}
  /\ dac = [pixel |-> pixel, signals |-> NoSignals]

Next ==
  \/ Clk
  \/ \E w \in Words : Draw(w)
  \/ \E s \in SpinePlaces : SpinesAt(s)
  \/ Button

Spec == Init /\ [][Next]_vars

-----------------------------------------------------------------------------
TypeOK ==
  /\ phase \in {0, 1}
  /\ DrawX \in 0 .. H_TOTAL - 1 /\ DrawY \in 0 .. V_TOTAL - 1
  /\ word \in Words /\ spine_x \in SpinePlaces /\ saved \subseteq {1, 2}
  /\ dac.pixel.at[1] \in 0 .. H_TOTAL - 1 /\ dac.pixel.at[2] \in 0 .. V_TOTAL - 1

\* The chain of registers and the counters together show the positions in
\* their order, each for one pixel and one pixel late, whenever the reset
\* button is pressed.
Monitor == INSTANCE Raster WITH shown <- dac.pixel.at, signals <- dac.signals
ScansOut == Monitor!Spec

\* Mario and the level are drawn for the same position, and Mario with his own
\* texel, although the level takes a register more; the level's texels are
\* those of the position before.
Registered ==
  dac.signals.on =>
    /\ dac.pixel.level.at = dac.pixel.at
    /\ dac.pixel.rom = dac.pixel.at
    /\ dac.pixel.at # Origin => Monitor!Follower(dac.pixel.level.rom) = dac.pixel.at

\* The positions a frame shows, when the DAC has just taken them; the first of
\* each line is shown for the last of the line before, which is no position of
\* a map.
OnMap == phase = 0 /\ dac.signals.on /\ dac.pixel.at[1] < X_UPPER

\* The bricks and spikes on the screen are the blocks and spikes that
\* level_block_info_init and level_spike_info_init set, pixel by pixel.
PictureIsMap ==
  LET p == dac.pixel.at   lv == dac.pixel.word.level IN
  OnMap /\ lv \in {0, 1, 2} =>
    /\ Shows(dac.pixel, "brick") <=> is_block(level_block_info_init[lv], p[1], p[2])
    /\ Shows(dac.pixel, "spike") <=> block_index(p[1], p[2]) \in level_spike_info_init[lv]

\* Where can_move lets Mario be he is not drawn over a brick, however near.
FreeMarioClear ==
  LET w == dac.pixel.word IN
  OnMap /\ w.level \in {1, 2} /\ can_move(level_block_info_init[w.level], w.pos_x, w.pos_y) =>
    ~(Shows(dac.pixel, "mario") /\ Shows(dac.pixel, "brick"))

\* Where he is drawn over the moving spines level2_is_spike kills him.
TouchKills ==
  LET w == dac.pixel.word   s == dac.pixel.level.spine_x IN
  OnMap /\ Shows(dac.pixel, "mario") /\ Shows(dac.pixel, "spines") =>
    level2_is_spike(w.pos_x, w.pos_y, s)

\* Every letter of a text is whole: no cell of the chain hides a part of a
\* later one, the dashes keep off, and the rows and bits are the font's.
Whole(text, info, p) ==
  \A i \in CellsAt(text, p) :
    /\ info = {TexelOf(text[i], p)}
    /\ TexelOf(text[i], p) \in {text[i].letter} \X (0 .. 15) \X (0 .. 7)

LettersWhole ==
  LET p == dac.pixel.at IN
  /\ OnMap /\ Shows(dac.pixel, "start") => Whole(startinfo, StartInfo(p), p)
  /\ OnMap /\ Shows(dac.pixel, "death") => Whole(deathinfo, DeathInfo(p), p)
=============================================================================
