------------------------------- MODULE MCVga --------------------------------
(* The whole screen with a few words: the start screen; a death on the spike *)
(* of level 1, a pixel above the ground; and Mario in level 2, jumping under *)
(* its bricks, overlapping the moving spines by a column or by none.         *)
EXTENDS Vga

Word(lv, x, y, dead) == [level |-> lv, pos_x |-> x, pos_y |-> y, is_death |-> dead]

SomeWords   == {Word(0, 0, 0, 0), Word(1, 405, 395, 1), Word(2, 199, 160, 0)}
SomePlaces  == {199, 200}
FewMoments  == {<<300, 2>>}

\* Where the spines are matters in level 2 only: bound.
Scenes == {<<w, 200>> : w \in SomeWords} \cup {<<Word(2, 199, 160, 0), 199>>}

SceneInit == Init /\ <<word, spine_x>> \in Scenes
SceneNext == Next /\ <<word', spine_x'>> \in Scenes
SceneSpec == SceneInit /\ [][SceneNext]_vars
=============================================================================
