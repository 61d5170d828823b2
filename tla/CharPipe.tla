------------------------------ MODULE CharPipe ------------------------------
(***************************************************************************)
(* What a direction of the serial line promises: the characters put in at  *)
(* one end, which are numbered from 1, come out at the other in that       *)
(* order, each once, and at most Room of them are on their way.            *)
(***************************************************************************)
EXTENDS Integers, Sequences

CONSTANT Room

VARIABLES
  pipe,   \* the characters on their way
  put,    \* how many have been put in
  seen    \* the last one that came out, 0 before the first

pvars == <<pipe, put, seen>>

Init == pipe = <<>> /\ put = 0 /\ seen = 0

Put(k) ==
  /\ Len(pipe) + k <= Room
  /\ pipe' = pipe \o [i \in 1 .. k |-> put + i]
  /\ put' = put + k
  /\ seen' = seen

Take(k) ==
  /\ k <= Len(pipe)
  /\ seen' = pipe[k]
  /\ pipe' = SubSeq(pipe, k + 1, Len(pipe))
  /\ put' = put

Next == \E k \in 1 .. Room : Put(k) \/ Take(k)

Spec == Init /\ [][Next]_pvars
=============================================================================
