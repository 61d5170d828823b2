----------------------------- MODULE SpinePoll ------------------------------
(***************************************************************************)
(* The moving spines as the program sees them: it draws a word, then polls *)
(* their position, in turns.                                               *)
(***************************************************************************)
EXTENDS SpineLaw

CONSTANT Stops     \* where the spines can be

VARIABLES word, seen

\* Before the first draw the word is 0 and the spines may be anywhere.
Init == word = 0 /\ seen = 0

\* The first word the program draws resets the spines.
Draw(w) == /\ w \in {1, 2} /\ (word = 0 => w = 2)
           /\ word' = w /\ UNCHANGED seen

Poll == /\ seen' \in SpineAfter(word, seen, Stops)
        /\ UNCHANGED word

Spec == Init /\ [][Poll \/ \E w \in {1, 2} : Draw(w)]_<<word, seen>>
=============================================================================
