----------------------------- MODULE MCKeyboard -----------------------------
(* Keyboard with one key.  Wild: a chip of any speed that loses answers and *)
(* answers lists nobody waits for, a keyboard pulled out and put in at any  *)
(* moment.                                                                  *)
EXTENDS Keyboard

MCKeys == {4}
InAtRest == {"reset", "boot", "look", "absent", "gone"}

Setting(paced, retries, stray, pullAt, putAt) ==
  [paced |-> paced, retries |-> retries, stray |-> stray, pullAt |-> pullAt, putAt |-> putAt]

Wild   == Setting(FALSE, TRUE, TRUE, Places, Places)
AtCall == Setting(TRUE, FALSE, FALSE, {"main"}, InAtRest)
Retry  == Setting(TRUE, TRUE, FALSE, {"main"}, InAtRest)
Asleep == Setting(TRUE, FALSE, FALSE, {"sleep"}, Places)

WildOrCalm  == {Wild, AtCall}
WithRetries == {Retry}
PulledOut   == {Asleep}
=============================================================================
