---------------------------- MODULE SpineProofs -----------------------------
(***************************************************************************)
(* Proofs about SpineMove for every counter limit, way and timing.         *)
(***************************************************************************)
EXTENDS SpineMove, TLAPS

\* The state of the module as a function of the command and of the clocks it
\* has stood: what makes Pace, Withdrawn and the law inductive.
Withdrawing ==
  word = 2 =>
    /\ since >= 1 => State = "Wait"
    /\ since >= 2 => spine_posx = 0 /\ counter = 0

Advances ==
  word = 1 =>
    /\ since = 0 => State = "Wait" /\ spine_posx = 0
    /\ since = 1 => State = "Start"
    /\ since >= 2 => State \in {"Move", "Done"} /\ spine_posx >= SPINE_FIRST
    /\ 2 <= since /\ since < Horizon /\ State = "Move" =>
         since - 2 = ClocksTo(spine_posx) + counter
    /\ 2 <= since /\ since < Horizon /\ State = "Done" =>
         spine_posx = LastX /\ ClocksTo(LastX) <= since - 2

\* What the program knows of the spines when it has read their position.
Read ==
  /\ cpu = "draw" => since >= MinHold
  /\ cpu = "draw" /\ word = 2 => seen = 0
  /\ cpu = "poll" /\ word = 1 /\ since < 2 => seen = 0
  /\ word = 1 /\ since >= 2 => seen <= spine_posx

IInv == TypeOK /\ Withdrawing /\ Advances /\ Read

LEMMA InitIInv == Init => IInv
BY SpineMoveAssumption DEF Init, IInv, TypeOK, Withdrawing, Advances, Read, SPINE_FIRST, SPINE_LAST

LEMMA ClocksToNext ==
  ASSUME NEW x \in Int, Ticks \in Nat
  PROVE  ClocksTo(x) \in Int /\ ClocksTo(x + 1) = ClocksTo(x) + (Ticks + 1)
<1> DEFINE n == x - SPINE_FIRST
           t == Ticks + 1
<1>1. n \in Int /\ t \in Int BY DEF SPINE_FIRST
<1>2. n * t \in Int /\ (n + 1) * t = n * t + t
  <2> HIDE DEF n, t
  <2> QED BY <1>1
<1>3. (x + 1) - SPINE_FIRST = n + 1 BY DEF SPINE_FIRST
<1> QED BY <1>2, <1>3 DEF ClocksTo

LEMMA TypeStep == TypeOK /\ [Next]_vars => TypeOK'
<1> SUFFICES ASSUME TypeOK, [Next]_vars PROVE TypeOK' OBVIOUS
<1> USE SpineMoveAssumption DEF TypeOK, SPINE_FIRST, SPINE_LAST
<1>1. CASE Clock
  BY <1>1 DEF Clock, Next_State, spine_posx_next, counter_next, Advancing, Trigger, ResetSpines
<1>2. CASE Poll BY <1>2 DEF Poll
<1>3. CASE \E w \in {1, 2} : Draw(w) BY <1>3 DEF Draw
<1>4. CASE UNCHANGED vars BY <1>4 DEF vars
<1> QED BY <1>1, <1>2, <1>3, <1>4 DEF Next


\* What the next-state logic does in each state of the machine.
LEMMA NextLogic ==
  ASSUME TypeOK
  PROVE  /\ State = "Wait" =>
              /\ Next_State = (IF Trigger(word) THEN "Start" ELSE "Wait")
              /\ spine_posx_next = 0 /\ counter_next = 0
         /\ State = "Start" =>
              /\ Next_State = "Move"
              /\ spine_posx_next = SPINE_FIRST /\ counter_next = 0
         /\ State = "Move" /\ spine_posx = LastX =>
              Next_State = "Done" /\ spine_posx_next = LastX
         /\ State = "Move" /\ spine_posx # LastX /\ counter = Ticks =>
              Next_State = "Move" /\ spine_posx_next = spine_posx + 1 /\ counter_next = 0
         /\ State = "Move" /\ spine_posx # LastX /\ counter # Ticks =>
              Next_State = "Move" /\ spine_posx_next = spine_posx /\ counter_next = counter + 1
         /\ State = "Done" =>
              Next_State = "Done" /\ spine_posx_next = spine_posx
<1> USE SpineMoveAssumption
    DEF TypeOK, SPINE_FIRST, SPINE_LAST, Next_State, spine_posx_next, counter_next, Advancing
<1>1. CASE State = "Wait" BY <1>1
<1>2. CASE State = "Start" BY <1>2
<1>3. CASE State = "Move" BY <1>3
<1>4. CASE State = "Done" BY <1>4
<1> QED BY <1>1, <1>2, <1>3, <1>4

LEMMA Bits ==
  /\ ResetSpines(2) /\ ~ResetSpines(1) /\ ~ResetSpines(0)
  /\ Trigger(1) /\ ~Trigger(2) /\ ~Trigger(0)
BY DEF ResetSpines, Trigger

LEMMA WithdrawingStep == IInv /\ Clock => Withdrawing'
<1> SUFFICES ASSUME IInv, Clock, word = 2 PROVE Withdrawing'
  BY DEF Withdrawing, Clock
<1>1. State' = "Wait" /\ spine_posx' = spine_posx_next /\ counter' = counter_next
  BY Bits DEF Clock
<1>2. since' >= 2 => since >= 1
  BY SpineMoveAssumption DEF Clock, IInv, TypeOK
<1>3. since >= 1 => State = "Wait" BY DEF IInv, Withdrawing
<1> QED BY <1>1, <1>2, <1>3, NextLogic DEF Withdrawing, IInv

LEMMA AdvancesStep == IInv /\ Clock => Advances'
<1> SUFFICES ASSUME IInv, Clock, word = 1 PROVE Advances'
  BY DEF Advances, Clock
<1>1. /\ State' = Next_State /\ spine_posx' = spine_posx_next /\ counter' = counter_next
      /\ word' = 1
  BY Bits DEF Clock
<1>2. TypeOK /\ Advances BY DEF IInv
<1>t. /\ Ticks \in Nat /\ Horizon \in Nat /\ Horizon > 2
      /\ since \in 0 .. Horizon /\ spine_posx \in 0 .. LastX
      /\ counter \in 0 .. Ticks /\ LastX \in 20 .. 460
  BY <1>2, SpineMoveAssumption DEF TypeOK, SPINE_FIRST, SPINE_LAST
<1>3. since' = IF since < Horizon THEN since + 1 ELSE since BY DEF Clock
<1>4. CASE since = 0
  <2>1. State = "Wait" BY <1>2, <1>4 DEF Advances
  <2>2. State' = "Start" /\ since' = 1 BY <2>1, <1>1, <1>2, <1>3, <1>4, <1>t, NextLogic, Bits
  <2> QED BY <2>2, <1>1 DEF Advances
<1>5. CASE since = 1
  <2>1. State = "Start" BY <1>2, <1>5 DEF Advances
  <2>2. State' = "Move" /\ spine_posx' = SPINE_FIRST /\ counter' = 0 /\ since' = 2
    BY <2>1, <1>1, <1>2, <1>3, <1>5, <1>t, NextLogic
  <2>3. ClocksTo(SPINE_FIRST) = 0 BY <1>t DEF ClocksTo, SPINE_FIRST
  <2> QED BY <2>2, <2>3, <1>1 DEF Advances, SPINE_FIRST
<1>6. CASE since >= 2
  <2>0. since' >= 2 /\ (since' < Horizon => since < Horizon /\ since' = since + 1)
    BY <1>3, <1>6, <1>t
  <2>p. State \in {"Move", "Done"} /\ spine_posx >= SPINE_FIRST BY <1>2, <1>6 DEF Advances
  <2>m. since < Horizon /\ State = "Move" => since - 2 = ClocksTo(spine_posx) + counter
    BY <1>2, <1>6 DEF Advances
  <2>d. since < Horizon /\ State = "Done" => spine_posx = LastX /\ ClocksTo(LastX) <= since - 2
    BY <1>2, <1>6 DEF Advances
  <2>i. /\ ClocksTo(spine_posx) \in Int /\ ClocksTo(LastX) \in Int
        /\ ClocksTo(spine_posx + 1) = ClocksTo(spine_posx) + (Ticks + 1)
    BY <1>t, ClocksToNext
  <2>1. CASE State = "Move" /\ spine_posx = LastX
    <3>1. State' = "Done" /\ spine_posx' = LastX BY <2>1, <1>1, <1>2, NextLogic
    <3>2. since' < Horizon => ClocksTo(LastX) <= since' - 2 BY <2>0, <2>m, <2>i, <2>1, <1>t
    <3> QED BY <3>1, <3>2, <2>0, <1>1, <1>t DEF Advances, SPINE_FIRST
  <2>2. CASE State = "Move" /\ spine_posx # LastX /\ counter = Ticks
    <3>1. State' = "Move" /\ spine_posx' = spine_posx + 1 /\ counter' = 0
      BY <2>2, <1>1, <1>2, NextLogic
    <3>2. since' < Horizon => since' - 2 = ClocksTo(spine_posx') + counter'
      BY <3>1, <2>0, <2>m, <2>i, <2>2, <1>t
    <3> QED BY <3>1, <3>2, <2>p, <2>0, <1>1, <1>t DEF Advances, SPINE_FIRST
  <2>3. CASE State = "Move" /\ spine_posx # LastX /\ counter # Ticks
    <3>1. State' = "Move" /\ spine_posx' = spine_posx /\ counter' = counter + 1
      BY <2>3, <1>1, <1>2, NextLogic
    <3>2. since' < Horizon => since' - 2 = ClocksTo(spine_posx') + counter'
      BY <3>1, <2>0, <2>m, <2>i, <2>3, <1>t
    <3> QED BY <3>1, <3>2, <2>p, <2>0, <1>1, <1>t DEF Advances, SPINE_FIRST
  <2>4. CASE State = "Done"
    <3>1. State' = "Done" /\ spine_posx' = spine_posx BY <2>4, <1>1, <1>2, NextLogic
    <3>2. since' < Horizon => spine_posx' = LastX /\ ClocksTo(LastX) <= since' - 2
      BY <3>1, <2>0, <2>d, <2>i, <2>4, <1>t
    <3> QED BY <3>1, <3>2, <2>p, <2>0, <1>1, <1>t DEF Advances, SPINE_FIRST
  <2> QED BY <2>1, <2>2, <2>3, <2>4, <2>p
<1> QED BY <1>4, <1>5, <1>6, <1>t

LEMMA ReadStep == IInv /\ Clock => Read'
<1> SUFFICES ASSUME IInv, Clock PROVE Read' OBVIOUS
<1>1. TypeOK /\ Read /\ Advances BY DEF IInv
<1>t. /\ MinHold \in Nat /\ MinHold >= 2 /\ Ticks \in Nat /\ LastX \in 20 .. 460
      /\ Horizon \in Nat /\ since \in 0 .. Horizon /\ spine_posx \in 0 .. LastX
      /\ seen \in 0 .. LastX /\ Horizon > MinHold /\ cpu \in {"draw", "poll"}
      /\ counter \in 0 .. Ticks
  BY <1>1, SpineMoveAssumption DEF TypeOK, SPINE_FIRST, SPINE_LAST
<1>2. /\ word' = word /\ cpu' = cpu /\ seen' = seen
      /\ since' = (IF since < Horizon THEN since + 1 ELSE since)
  BY DEF Clock
<1>3. word = 1 /\ since >= 2 => spine_posx' >= spine_posx
  <2> SUFFICES ASSUME word = 1, since >= 2 PROVE spine_posx' >= spine_posx OBVIOUS
  <2>1. State \in {"Move", "Done"} BY <1>1 DEF Advances
  <2>2. spine_posx' = spine_posx_next BY DEF Clock
  <2> QED BY <2>1, <2>2, <1>1, <1>t, NextLogic
<1>4. word = 1 /\ since = 1 => seen = 0 /\ spine_posx' >= 0
  <2> SUFFICES ASSUME word = 1, since = 1 PROVE seen = 0 /\ spine_posx' >= 0 OBVIOUS
  <2>1. seen = 0 BY <1>1, <1>t DEF Read
  <2>2. spine_posx' = SPINE_FIRST BY <1>1, NextLogic DEF Advances, Clock
  <2> QED BY <2>1, <2>2 DEF SPINE_FIRST
<1>5. spine_posx' \in Int
  BY TypeStep, <1>1, SpineMoveAssumption DEF Next, TypeOK, SPINE_FIRST, SPINE_LAST
<1> QED BY <1>1, <1>2, <1>3, <1>4, <1>5, <1>t DEF Read

LEMMA DrawStep == ASSUME IInv, NEW w \in {1, 2}, Draw(w) PROVE Withdrawing' /\ Advances' /\ Read'
<1>1. TypeOK /\ Withdrawing /\ Advances /\ Read BY DEF IInv
<1>t. MinHold \in Nat /\ MinHold >= 2 /\ Horizon \in Nat /\ since \in 0 .. Horizon /\ word \in 0 .. 2
  BY <1>1, SpineMoveAssumption DEF TypeOK
<1>2. cpu = "draw" /\ since >= 2 /\ since >= MinHold BY <1>1, <1>t DEF Draw, Read
<1>3. CASE w = word
  <2>1. /\ word' = word /\ since' = since /\ State' = State /\ spine_posx' = spine_posx
        /\ counter' = counter /\ seen' = seen /\ cpu' = "poll"
    BY <1>3 DEF Draw
  <2> QED BY <2>1, <1>1, <1>2, <1>t DEF Withdrawing, Advances, Read, ClocksTo
<1>4. CASE w # word
  <2>1. /\ word' = w /\ since' = 0 /\ State' = State /\ spine_posx' = spine_posx
        /\ seen' = seen /\ cpu' = "poll"
    BY <1>4 DEF Draw
  <2>2. w = 1 => word = 2 BY <1>4, <1>t DEF Draw
  <2>3. w = 1 => State = "Wait" /\ spine_posx = 0 /\ seen = 0
    BY <2>2, <1>1, <1>2, <1>t DEF Withdrawing, Read
  <2> QED BY <2>1, <2>3 DEF Withdrawing, Advances, Read
<1> QED BY <1>3, <1>4

LEMMA PollStep == IInv /\ Poll => Withdrawing' /\ Advances' /\ Read'
<1> SUFFICES ASSUME IInv, Poll PROVE Withdrawing' /\ Advances' /\ Read' OBVIOUS
<1>1. TypeOK /\ Withdrawing /\ Advances /\ Read BY DEF IInv
<1>t. MinHold \in Nat /\ MinHold >= 2 /\ Horizon \in Nat /\ since \in 0 .. Horizon /\ spine_posx \in Int
  BY <1>1, SpineMoveAssumption DEF TypeOK, SPINE_FIRST, SPINE_LAST
<1>2. /\ word' = word /\ since' = since /\ State' = State /\ spine_posx' = spine_posx
      /\ counter' = counter /\ seen' = spine_posx /\ cpu' = "draw" /\ since >= MinHold
  BY DEF Poll
<1> QED BY <1>1, <1>2, <1>t DEF Withdrawing, Advances, Read, ClocksTo

LEMMA StepIInv == IInv /\ [Next]_vars => IInv'
<1> SUFFICES ASSUME IInv, [Next]_vars PROVE IInv' OBVIOUS
<1>1. TypeOK' BY TypeStep DEF IInv
<1>2. CASE Clock BY <1>1, <1>2, WithdrawingStep, AdvancesStep, ReadStep DEF IInv
<1>3. CASE Poll BY <1>1, <1>3, PollStep DEF IInv
<1>4. CASE \E w \in {1, 2} : Draw(w) BY <1>1, <1>4, DrawStep DEF IInv
<1>5. CASE UNCHANGED vars
  BY <1>1, <1>5 DEF IInv, vars, Withdrawing, Advances, Read, ClocksTo
<1> QED BY <1>2, <1>3, <1>4, <1>5 DEF Next

LEMMA Invariance == Spec => []IInv
BY InitIInv, StepIInv, PTL DEF Spec

\* The registers keep to their ranges: the 10 bits of the position suffice.
THEOREM TypeCorrect == Spec => []TypeOK
BY Invariance, PTL DEF IInv

\* A reset withdraws the spines within two clocks, whatever they were doing.
THEOREM ResetWithdraws == Spec => []Withdrawn
<1>1. IInv => Withdrawn BY SpineMoveAssumption DEF IInv, TypeOK, Withdrawing, Withdrawn
<1> QED BY <1>1, Invariance, PTL

\* The spines advance one pixel every Ticks + 1 clocks from the trigger on.
THEOREM PaceKept == Spec => []Pace
<1>1. IInv => Pace
  <2> SUFFICES ASSUME IInv, word = 1, 2 <= since, since < Horizon
               PROVE  /\ ClocksTo(spine_posx) <= since - 2
                      /\ spine_posx # LastX => since - 2 < ClocksTo(spine_posx + 1)
    BY DEF Pace
  <2>1. /\ Ticks \in Nat /\ since \in Nat /\ counter \in 0 .. Ticks
        /\ spine_posx \in Int /\ LastX \in Int
    BY SpineMoveAssumption DEF IInv, TypeOK, SPINE_FIRST, SPINE_LAST
  <2>2. \/ State = "Move" /\ since - 2 = ClocksTo(spine_posx) + counter
        \/ spine_posx = LastX /\ ClocksTo(LastX) <= since - 2
    BY <2>1 DEF IInv, Advances
  <2> QED BY <2>1, <2>2, ClocksToNext
<1> QED BY <1>1, Invariance, PTL

\* What the program reads of the spines follows SpineLaw: Game's model of the
\* hardware admits everything the hardware does.
THEOREM LawKept == Spec => KeepsSpineLaw
<1>1. Init => Seen!Init BY DEF Init, Seen!Init
<1>2. IInv /\ [Next]_vars => [Seen!Poll \/ \E w \in {1, 2} : Seen!Draw(w)]_<<word, seen>>
  <2> SUFFICES ASSUME IInv, [Next]_vars
               PROVE  [Seen!Poll \/ \E w \in {1, 2} : Seen!Draw(w)]_<<word, seen>>
    OBVIOUS
  <2>1. CASE Clock BY <2>1 DEF Clock
  <2>2. CASE Poll
    <3>1. TypeOK /\ Withdrawing /\ Advances /\ Read BY DEF IInv
    <3>2. /\ since >= 2 /\ word \in 0 .. 2 /\ spine_posx \in 0 .. LastX
          /\ seen' = spine_posx /\ word' = word /\ cpu = "poll" /\ LastX \in Nat
      BY <2>2, <3>1, SpineMoveAssumption DEF Poll, TypeOK, SPINE_FIRST, SPINE_LAST
    <3>3. word = 2 => spine_posx = 0 BY <3>1, <3>2 DEF Withdrawing
    <3>4. word = 1 => SPINE_FIRST <= spine_posx /\ seen <= spine_posx
      BY <3>1, <3>2, SpineMoveAssumption DEF Advances, Read, TypeOK, SPINE_FIRST, SPINE_LAST
    <3>5. spine_posx \in SpineAfter(word, seen, 0 .. LastX)
      BY <3>2, <3>3, <3>4, Bits DEF SpineAfter
    <3> QED BY <3>2, <3>5 DEF Seen!Poll, Seen!SpineAfter, Seen!ResetSpines, Seen!Trigger, Seen!SPINE_FIRST, SpineAfter, ResetSpines, Trigger, SPINE_FIRST
  <2>3. CASE \E w \in {1, 2} : Draw(w) BY <2>3 DEF Draw, Seen!Draw
  <2>4. CASE UNCHANGED vars BY <2>4 DEF vars
  <2> QED BY <2>1, <2>2, <2>3, <2>4 DEF Next
<1> QED BY <1>1, <1>2, Invariance, PTL DEF Spec, KeepsSpineLaw, Seen!Spec

=============================================================================
