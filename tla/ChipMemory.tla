----------------------------- MODULE ChipMemory -----------------------------
(***************************************************************************)
(* What usb.c takes the HPI interface for: a memory.  A call that writes a *)
(* block has each word of it put once, in its place and in order, when it  *)
(* returns; a call that reads returns a word that was there while it ran.  *)
(* The chip does with its memory what it likes, whenever it likes.         *)
(***************************************************************************)
EXTENDS Integers, Sequences

CONSTANTS Calls, NoCall

VARIABLES mem, call, placed, seen, answer

\* A call without words is one that reads.
Reads == call.words = <<>>
Whole == placed = IF Reads THEN 1 ELSE Len(call.words)

Begin == /\ call = NoCall /\ call' \in Calls /\ placed' = 0
         /\ UNCHANGED <<mem, seen, answer>>

Put == /\ call # NoCall /\ ~Whole /\ ~Reads
       /\ placed' = placed + 1
       /\ mem' = [mem EXCEPT ![call.at + 2 * placed] = call.words[placed + 1]]
       /\ UNCHANGED <<call, seen, answer>>

Fetch == /\ call # NoCall /\ ~Whole /\ Reads
         /\ placed' = placed + 1 /\ seen' = mem[call.at]
         /\ UNCHANGED <<call, answer>>

Return == /\ call # NoCall /\ Whole /\ call' = NoCall
          /\ answer' = IF Reads THEN seen ELSE answer
          /\ UNCHANGED <<mem, placed, seen>>

Own == UNCHANGED <<call, placed, seen, answer>>

Next == Begin \/ Put \/ Fetch \/ Return \/ Own

Spec == call = NoCall /\ [][Next]_<<mem, call, placed, seen, answer>>
=============================================================================
