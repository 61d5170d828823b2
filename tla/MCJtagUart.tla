---------------------------- MODULE MCJtagUart ----------------------------
(***************************************************************************)
(* JtagUart within several bounds: how many characters the program        *)
(* writes and the host types, which calls it makes, whether the host may   *)
(* go away and the alarm goes off.  Rings of four slots, of which three    *)
(* can be used, and FIFOs of three: each fills, a ring holds more than is  *)
(* free at a transmit interrupt, and one character raises no receive one.  *)
(***************************************************************************)
EXTENDS JtagUart

CONSTANT Instances

VARIABLE bounds

Bounds(o, sizes, i, calls, alarm) ==
  [out |-> o, sizes |-> sizes, in |-> i, calls |-> calls, alarm |-> alarm]

BoundsInit == Init /\ bounds \in Instances

\* Within its bounds each action is one of JtagUart's.
BoundsNext ==
  /\ UNCHANGED bounds
  /\ \/ \E k \in 1 .. 2 * L, nb \in BOOLEAN :
          \/ "write" \in bounds.calls /\ k \in bounds.sizes /\ put + k <= bounds.out /\ Write(k, nb)
          \/ "read" \in bounds.calls /\ k \in bounds.sizes /\ Read(k, nb)
     \/ "close" \in bounds.calls /\ \E nb \in BOOLEAN : Close(nb)
     \/ "ioctl" \in bounds.calls /\ \E t \in 1 .. INT_MAX : Ioctl(t)
     \/ Thread
     \/ Isr /\ typed' <= bounds.in
     \/ bounds.alarm /\ Tick
     \/ bounds.alarm /\ HostLeaves
     \/ typed < bounds.in /\ HostTypes
     \/ HostTakes \/ HostPauses

\* JtagUart's fairness; an instance without the alarm is a board without a clock.
BoundsSpec ==
  /\ BoundsInit /\ [][BoundsNext]_<<vars, bounds>>
  /\ WF_vars(Thread) /\ WF_vars(Isr) /\ SF_vars(IsrEnter)
  /\ WF_vars(bounds.alarm /\ Tick) /\ WF_vars(HostTakes) /\ WF_vars(HostPauses)

Line == {Bounds(5, {2, 5}, 0, {"write"}, FALSE), Bounds(0, {1, 4}, 5, {"read"}, FALSE),
         Bounds(2, {2}, 2, {"write", "read"}, FALSE), Bounds(1, {1}, 0, {"write", "ioctl"}, FALSE),
         Bounds(7, {7}, 0, {"write"}, TRUE), Bounds(4, {4}, 0, {"write", "close"}, TRUE),
         Bounds(0, {2}, 1, {"read"}, TRUE)}
=============================================================================
