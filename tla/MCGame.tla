------------------------------- MODULE MCGame -------------------------------
(* Values for the constants of Game.                                       *)
EXTENDS Game

\* Two keys held: A while R is the first key of the report.
ChordRA == KEYBOARD_R + 256 * KEYBOARD_A

EdgeKeys == {KEYBOARD_A, KEYBOARD_D, NO_KEY, KEYBOARD_R, KEYBOARD_ESC}
AllKeys  == EdgeKeys \cup {KEYBOARD_W, KEYBOARD_ENTER, ChordRA}
HeldKeys == {KEYBOARD_D, NO_KEY, KEYBOARD_R, ChordRA, KEYBOARD_ENTER}
EndStops == {0, 460}
AnyCells == {{}, BeyondArray}
OneBuild == {{785}}
AllCells == AnyCells \cup OneBuild
=============================================================================
