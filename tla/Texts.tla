------------------------------- MODULE Texts --------------------------------
(***************************************************************************)
(* The two texts of the picture, startinfo.sv and deathinfo.sv: cells with *)
(* a letter each, written as one long chain of else-if, in which a pixel   *)
(* belongs to the first cell whose box holds it.  A letter's glyph in      *)
(* font_rom.sv has 8 columns and 16 rows; a texel is <<letter, row, bit>>, *)
(* bit 7 being the leftmost.                                               *)
(***************************************************************************)
EXTENDS Integers, Sequences

\* The cells' sizes, and what DrawX and DrawY are divided by.
Big    == [w |-> 48, h |-> 64, across |-> 6, down |-> 4]
Middle == [w |-> 32, h |-> 48, across |-> 4, down |-> 3]
Small  == [w |-> 24, h |-> 32, across |-> 3, down |-> 2]

\* A line of text: cells of one size at one height.
Line(y, size, xs, letters) ==
  [i \in DOMAIN xs |-> [x |-> xs[i], y |-> y, size |-> size, letter |-> letters[i]]]

FirstLine == Line(52, Middle, <<61, 125, 167, 209, 251, 293, 357, 399, 463, 505, 547>>,
                  <<"I", "W", "A", "N", "N", "A", "B", "E", "T", "H", "E">>)
MARIO     == Line(120, Big, <<270, 333, 396, 459, 522>>, <<"M", "A", "R", "I", "O">>)
ThirdLine ==
  Line(240, Small, <<60, 88, 116, 144, 172, 216, 244, 272, 300, 328,
                     372, 400, 444, 472, 500, 528, 556>>,
       <<"P", "R", "E", "S", "S", "E", "N", "T", "E", "R",
         "T", "O", "S", "T", "A", "R", "T">>)

\* Slip: FAKE is written at the pitch of MARIO, and reaches under it.
startinfo_wide ==
  FirstLine \o Line(120, Middle, <<60, 123, 186, 249>>, <<"F", "A", "K", "E">>)
    \o MARIO \o ThirdLine

startinfo ==
  FirstLine \o Line(120, Middle, <<60, 102, 144, 186>>, <<"F", "A", "K", "E">>)
    \o MARIO \o ThirdLine

deathinfo ==
  Line(60, Big, <<60, 123, 186, 249, 343, 406, 469, 532>>,
       <<"G", "A", "M", "E", "O", "V", "E", "R">>)
    \o Line(180, Small, <<95, 127, 159, 191, 223, 271, 319, 351, 399, 431, 463, 495, 527>>,
            <<"P", "R", "E", "S", "S", "R", "T", "O", "R", "E", "T", "R", "Y">>)

\* The line across each text, dashes of 11 pixels and gaps of 4.
Dash(p, y) == p[1] \in 60 .. 579 /\ p[2] \in y .. y + 3 /\ (p[1] - 60) % 15 <= 10

Holds(cell, p) == /\ cell.x <= p[1] /\ p[1] < cell.x + cell.size.w
                  /\ cell.y <= p[2] /\ p[2] < cell.y + cell.size.h

CellsAt(text, p) == {i \in DOMAIN text : Holds(text[i], p)}

TexelOf(cell, p) == <<cell.letter, (p[2] - cell.y) \div cell.size.down,
                      (cell.size.w - 1 - (p[1] - cell.x)) \div cell.size.across>>

\* shape_on, sprite_addr and the bit of sprite_data: the first cell's.
Texels(text, p) ==
  {TexelOf(text[i], p) : i \in {j \in CellsAt(text, p) : \A k \in CellsAt(text, p) : j <= k}}
=============================================================================
