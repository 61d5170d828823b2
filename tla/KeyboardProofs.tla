--------------------------- MODULE KeyboardProofs ---------------------------
(***************************************************************************)
(* That the driver never asks an unprepared keyboard for a report, and     *)
(* that the keys it takes are fresh, for every set of keys, any timing of  *)
(* the chip, any failures, and a keyboard pulled out and put in anywhere.  *)
(***************************************************************************)
EXTENDS Keyboard, TLAPS

Lists == Requests \cup {POLL}
Before(s) == IF s = POLL THEN Requests ELSE 1 .. s - 1

\* Where the chip is being reset, where the list of this step is not yet
\* begun, where it is being written, and where it is not taken yet.
SettingUp == {"reset", "boot", "look", "absent"}
Unsent    == SettingUp \cup {"send", "stray"}
Writing   == {"words", "pointer"}
Waiting   == Writing \cup {"flag", "resend", "sleep", "read", "clear"}

\* Which step belongs to which place.
StepOfPlace ==
  /\ at \in {"main", "pause", "fetch", "status", "tries", "gone"} => step = POLL
  /\ at = "stray" => step = 6
  /\ at \in {"send", "stray", "check", "retry", "retryclear", "retrywait", "retryread"} =>
       step \in Requests

\* Whose words are at 0x0500, and what the pointer may show.
ListOfPlace ==
  /\ CASE at \in SettingUp -> at # "reset" => pending = "none"
       [] at \in {"send", "stray"} -> IF step = 1 THEN pending = "none" ELSE list = step - 1
       [] at \in {"main", "pause"} -> list \in {POLL, Last}
       [] at = "words" -> list \in {step, MIXED}
       [] OTHER -> list = step
  /\ pending = "stray" => at \in {"send"} \cup Writing /\ step \in Requests

\* A clean control byte is this step's own, and every step before was clean,
\* unless words of two lists have been executed.
AckedSoFar ==
  ~mixed =>
    /\ at \notin SettingUp => Before(step) \subseteq acked
    /\ control = "clean" /\ step \in Requests /\ at \notin Unsent => list = step /\ step \in acked

\* After the setting-up the last list is at 0x051e and no report was given,
\* until words of the list of get_keycode are there.
Untold ==
  /\ at \in SettingUp \ {"reset"} => told = NO_KEY
  /\ at \notin SettingUp /\ step \in Requests => told = NO_KEY
  /\ at \notin Unsent \cup {"words"} /\ step = Last => word = LEFTOVER
  /\ at \notin SettingUp /\ step = POLL =>
       /\ list = Last => word = LEFTOVER
       /\ list = MIXED /\ pending = "list" => word = LEFTOVER

\* What is at 0x051e is the last report ...
Reported ==
  /\ addressed => plugged
  /\ at \notin SettingUp /\ step = POLL =>
       /\ addressed => word = told \/ (word = LEFTOVER /\ told = NO_KEY)
       /\ word = held => age = 0

\* ... and it is a recent one when a message says that a list is done, or is
\* still to come from one that is done or is being executed.
Within(n) == word = LEFTOVER \/ age <= n
Recent ==
  at \notin SettingUp /\ step = POLL =>
    /\ control # "active" => Within(IF at \in Waiting THEN 0 ELSE 1)
    /\ pending = "rest" => Within(1)
    /\ pending = "rest" /\ (msg = "done" \/ (at = "clear" /\ got = "done")) => Within(0)
    /\ msg = "done" \/ (at = "clear" /\ got = "done") => Within(1)

IInv == /\ TypeOK /\ StepOfPlace /\ ListOfPlace /\ AckedSoFar /\ SetUpFirst
        /\ Untold /\ Reported /\ Recent /\ Fresh

-----------------------------------------------------------------------------
Flags == {again, flag, plugged, addressed, mixed} \subseteq BOOLEAN

\* Every step keeps the ranges.
LEMMA TypeStep == TypeOK /\ [Next]_vars => TypeOK'
<1> SUFFICES ASSUME TypeOK, [Next]_vars PROVE TypeOK'
  OBVIOUS
<1> USE DEF TypeOK, Places, Shown, Requests, POLL, MIXED, Words, OLD
<1>1. CASE ExecuteSetup BY <1>1 DEF ExecuteSetup, driver, keyboard
<1>2. CASE ExecuteRest
  <2>1. Flags' BY <1>2, Zenon DEF Flags, ExecuteRest, Post, Answers, driver, history
  <2> QED BY <1>2, <2>1 DEF Flags, ExecuteRest, Post, Answers, driver, history
<1>3. CASE ExecutePoll BY <1>3 DEF ExecutePoll, Post, Report, Answers, driver
<1>4. CASE ExecuteMixed BY <1>4 DEF ExecuteMixed, Report, Answers, driver
<1>5. CASE ExecuteStray
  <2>1. Flags' BY <1>5, Zenon DEF Flags, ExecuteStray, Post, driver, keyboard, history
  <2> QED BY <1>5, <2>1 DEF Flags, ExecuteStray, Post, driver, keyboard, history
<1>6. CASE Pull
  <2>1. Flags' BY <1>6, Zenon DEF Flags, Pull, Post, driver, memory, history
  <2> QED BY <1>6, <2>1 DEF Flags, Pull, Post, driver, memory, history
<1>7. CASE Put BY <1>7 DEF Put, Post, driver, memory, history
<1>8. CASE Send BY <1>8 DEF Send, Begin, keyboard, history
<1>9. CASE Resend BY <1>9 DEF Resend, Begin, keyboard, history
<1>10. CASE CallWakes BY <1>10 DEF CallWakes, Begin, keyboard, history
<1>11. CASE Finish BY <1>11 DEF Finish, Overwritten, NO_KEY, keyboard
<1>12. CASE Point BY <1>12 DEF Point, Pointed, keyboard, history
<1>13. CASE TestFlag BY <1>13 DEF TestFlag, chip, memory, keyboard, history
<1>14. CASE Wake BY <1>14 DEF Wake, chip, memory, keyboard, history
<1>15. CASE ReadMessage BY <1>15 DEF ReadMessage, Received, memory, keyboard, history
<1>16. CASE ClearMessage BY <1>16 DEF ClearMessage, Ends, memory, keyboard
<1>17. CASE Reset
  <2>1. Flags' BY <1>17, Zenon DEF Flags, Reset
  <2> QED BY <1>17, <2>1 DEF Flags, Reset
<1>18. CASE Acknowledged BY <1>18 DEF Acknowledged, Post, memory, keyboard, history
<1>19. CASE NotAcknowledged BY <1>19 DEF NotAcknowledged, chip, memory, keyboard, history
<1>20. CASE LookFinds BY <1>20 DEF LookFinds, chip, memory, keyboard, history
<1>21. CASE LookFails BY <1>21 DEF LookFails, chip, memory, keyboard, history
<1>22. CASE AbsentFinds BY <1>22 DEF AbsentFinds, chip, memory, keyboard, history
<1>23. CASE Check BY <1>23 DEF Check, Onward, Returned, Last, Processed, chip, memory, keyboard, history
<1>24. CASE PointStray BY <1>24 DEF PointStray, Pointed, keyboard, history
<1>25. CASE RetryMessage BY <1>25 DEF RetryMessage, memory, keyboard, history
<1>26. CASE RetryClear BY <1>26 DEF RetryClear, memory, keyboard, history
<1>27. CASE RetryWait BY <1>27 DEF RetryWait, chip, memory, keyboard, history
<1>28. CASE RetryRead BY <1>28 DEF RetryRead, Onward, Returned, Last, Processed, chip, memory, keyboard, history
<1>29. CASE Call BY <1>29 DEF Call, chip, memory, keyboard, history
<1>30. CASE Fetch BY <1>30 DEF Fetch, chip, memory, keyboard, history
<1>31. CASE Return BY <1>31 DEF Return, Returned, chip, memory, keyboard, history
<1>32. CASE StatusFails BY <1>32 DEF StatusFails, chip, memory, keyboard, history
<1>33. CASE TriesFail BY <1>33 DEF TriesFail, chip, memory, keyboard, history
<1>34. CASE GoneFinds BY <1>34 DEF GoneFinds, Reinserted, chip, memory, keyboard, history
<1>35. ASSUME NEW k \in Keys \cup {NO_KEY}, Press(k) PROVE TypeOK'
  BY <1>35 DEF Press, driver, chip, memory
<1>36. CASE UNCHANGED vars BY <1>36 DEF vars, parts, driver, chip, memory, keyboard, history
<1> QED BY <1>1, <1>2, <1>3, <1>4, <1>5, <1>6, <1>7, <1>8, <1>9, <1>10, <1>11, <1>12, <1>13, <1>14, <1>15, <1>16, <1>17, <1>18, <1>19, <1>20, <1>21, <1>22, <1>23, <1>24, <1>25, <1>26, <1>27, <1>28, <1>29, <1>30, <1>31, <1>32, <1>33, <1>34, <1>35, <1>36 DEF Next, Driver, Execute

\* Every step keeps the inductive invariant.
LEMMA Step == IInv /\ [Next]_vars => IInv'
<1> SUFFICES ASSUME IInv, [Next]_vars PROVE IInv'
  OBVIOUS
<1>0. TypeOK' BY TypeStep DEF IInv
<1> USE KeyboardAssumption
    DEF IInv, StepOfPlace, ListOfPlace, AckedSoFar, SetUpFirst, Untold, Reported, Recent, Within,
        Fresh, TypeOK, Requests, POLL, MIXED, LEFTOVER, Lists, Before, SettingUp, Unsent, Writing,
        Waiting, Last, Places, Shown, OLD
<1>1. CASE ExecuteSetup BY <1>1, <1>0 DEF ExecuteSetup, driver, keyboard
<1>2. CASE ExecuteRest BY <1>2, <1>0 DEF ExecuteRest, Post, Answers, driver, history
<1>3. CASE ExecutePoll BY <1>3, <1>0 DEF ExecutePoll, Post, Report, Answers, driver
<1>4. CASE ExecuteMixed BY <1>4, <1>0 DEF ExecuteMixed, Report, Answers, driver
<1>5. CASE ExecuteStray BY <1>5, <1>0 DEF ExecuteStray, Post, driver, keyboard, history
<1>6. CASE Pull BY <1>6, <1>0 DEF Pull, Post, driver, memory, history
<1>7. CASE Put BY <1>7, <1>0 DEF Put, Post, driver, memory, history
<1>8. CASE Send BY <1>8, <1>0 DEF Send, Begin, keyboard, history
<1>9. CASE Resend BY <1>9, <1>0 DEF Resend, Begin, keyboard, history
<1>10. CASE CallWakes BY <1>10, <1>0 DEF CallWakes, Begin, keyboard, history
<1>11. CASE Finish BY <1>11, <1>0 DEF Finish, Overwritten, NO_KEY, keyboard
<1>12. CASE Point BY <1>12, <1>0 DEF Point, Pointed, keyboard, history
<1>13. CASE TestFlag BY <1>13, <1>0 DEF TestFlag, chip, memory, keyboard, history
<1>14. CASE Wake BY <1>14, <1>0 DEF Wake, chip, memory, keyboard, history
<1>15. CASE ReadMessage BY <1>15, <1>0 DEF ReadMessage, Received, memory, keyboard, history
<1>16. CASE ClearMessage BY <1>16, <1>0 DEF ClearMessage, Ends, memory, keyboard
<1>17. CASE Reset BY <1>17, <1>0 DEF Reset
<1>18. CASE Acknowledged BY <1>18, <1>0 DEF Acknowledged, Post, memory, keyboard, history
<1>19. CASE NotAcknowledged BY <1>19, <1>0 DEF NotAcknowledged, chip, memory, keyboard, history
<1>20. CASE LookFinds BY <1>20, <1>0 DEF LookFinds, chip, memory, keyboard, history
<1>21. CASE LookFails BY <1>21, <1>0 DEF LookFails, chip, memory, keyboard, history
<1>22. CASE AbsentFinds BY <1>22, <1>0 DEF AbsentFinds, chip, memory, keyboard, history
<1>23. CASE Check
  <2> USE <1>23, <1>0 DEF Check, chip, memory, keyboard, history, Processed
  <2>1. CASE ~Processed(control) BY <2>1
  <2>2. CASE Processed(control) /\ step = 9
    <3>1. ~mixed => Requests \subseteq acked BY <2>2
    <3> QED BY <2>2, <3>1 DEF Onward, Returned, NO_KEY
  <2>3. CASE Processed(control) /\ step # 9
    <3>1. ~mixed => 1 .. (step + 1) - 1 \subseteq acked BY <2>3
    <3> QED BY <2>3, <3>1 DEF Onward
  <2> QED BY <2>1, <2>2, <2>3
<1>24. CASE PointStray BY <1>24, <1>0 DEF PointStray, Pointed, keyboard, history
<1>25. CASE RetryMessage BY <1>25, <1>0 DEF RetryMessage, memory, keyboard, history
<1>26. CASE RetryClear BY <1>26, <1>0 DEF RetryClear, memory, keyboard, history
<1>27. CASE RetryWait BY <1>27, <1>0 DEF RetryWait, chip, memory, keyboard, history
<1>28. CASE RetryRead
  <2> USE <1>28, <1>0 DEF RetryRead, chip, memory, keyboard, history, Processed
  <2>1. CASE step = 1 BY <2>1
  <2>2. CASE step # 1 /\ ~Processed(control) BY <2>2
  <2>3. CASE step # 1 /\ Processed(control) /\ step = 9
    <3>1. ~mixed => Requests \subseteq acked BY <2>3
    <3> QED BY <2>3, <3>1 DEF Onward, Returned, NO_KEY
  <2>4. CASE step # 1 /\ Processed(control) /\ step # 9
    <3>1. ~mixed => 1 .. (step + 1) - 1 \subseteq acked BY <2>4
    <3> QED BY <2>4, <3>1 DEF Onward
  <2> QED BY <2>1, <2>2, <2>3, <2>4
<1>29. CASE Call BY <1>29, <1>0 DEF Call, chip, memory, keyboard, history
<1>30. CASE Fetch BY <1>30, <1>0 DEF Fetch, chip, memory, keyboard, history
<1>31. CASE Return BY <1>31, <1>0 DEF Return, Returned, chip, memory, keyboard, history
<1>32. CASE StatusFails BY <1>32, <1>0 DEF StatusFails, chip, memory, keyboard, history
<1>33. CASE TriesFail BY <1>33, <1>0 DEF TriesFail, chip, memory, keyboard, history
<1>34. CASE GoneFinds BY <1>34, <1>0 DEF GoneFinds, Reinserted, chip, memory, keyboard, history
<1>35. ASSUME NEW k \in Keys \cup {NO_KEY}, Press(k) PROVE IInv'
  BY <1>35, <1>0 DEF Press, driver, chip, memory
<1>36. CASE UNCHANGED vars BY <1>36, <1>0 DEF vars, parts, driver, chip, memory, keyboard, history
<1> QED BY <1>1, <1>2, <1>3, <1>4, <1>5, <1>6, <1>7, <1>8, <1>9, <1>10, <1>11, <1>12, <1>13, <1>14, <1>15, <1>16, <1>17, <1>18, <1>19, <1>20, <1>21, <1>22, <1>23, <1>24, <1>25, <1>26, <1>27, <1>28, <1>29, <1>30, <1>31, <1>32, <1>33, <1>34, <1>35, <1>36 DEF Next, Driver, Execute

\* The driver begins with the reset: nothing is pending, done or told.
LEMMA Base == Init => IInv
<1> SUFFICES ASSUME Init PROVE IInv OBVIOUS
<1> USE DEF Init, NO_KEY, POLL, MIXED, Requests, SettingUp, Unsent
<1>1. TypeOK
  <2>1. Flags BY Zenon DEF Flags
  <2> QED BY <2>1 DEF TypeOK, Flags, Places, Words, Shown, OLD
<1>2. StepOfPlace /\ ListOfPlace BY DEF StepOfPlace, ListOfPlace, Writing
<1>3. AckedSoFar /\ SetUpFirst BY DEF AckedSoFar, SetUpFirst
<1>4. Untold /\ Reported /\ Recent /\ Fresh BY DEF Untold, Reported, Recent, Fresh
<1> QED BY <1>1, <1>2, <1>3, <1>4 DEF IInv

\* So the invariant always holds.
LEMMA Inductive == Spec => []IInv
BY Base, Step, PTL DEF Spec

\* TypeOK of Keyboard: the requests come in their order and end, and what
\* main gets is a report or a piece of a list.
THEOREM TypeCorrect == Spec => []TypeOK
<1>1. IInv => TypeOK BY DEF IInv
<1> QED BY <1>1, Inductive, PTL

\* SetUpFirst: whatever the chip answers late or again, whichever transfer
\* fails, and wherever the keyboard is pulled out, get_keycode's list is only
\* shown to a chip that has got every SETUP packet through, unless it was
\* executing one list while the next was written over it.
THEOREM SetUpBeforePoll == Spec => []SetUpFirst
<1>1. IInv => SetUpFirst BY DEF IInv
<1> QED BY <1>1, Inductive, PTL

\* Fresh: no message that is left over makes get_keycode take a key that was
\* up during its whole call, the call before and the time between them.
THEOREM KeysFresh == Spec => []Fresh
<1>1. IInv => Fresh BY DEF IInv
<1> QED BY <1>1, Inductive, PTL
=============================================================================
