---------------------------- MODULE MCSpineMove -----------------------------
(* SpineMove with a short way and a fast counter.                          *)
EXTENDS SpineMove
=============================================================================
