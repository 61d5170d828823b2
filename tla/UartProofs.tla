----------------------------- MODULE UartProofs -----------------------------
(***************************************************************************)
(* Proofs about JtagUart, for every ring length, FIFO depth and call: the  *)
(* rings deliver in order (the refinements of CharPipe), no interrupt is   *)
(* lost, and the FIFO is never overfilled.                                 *)
(***************************************************************************)
EXTENDS JtagUart, SequenceTheorems, TLAPS

Kicking  == {"mask", "load", "store"}
Writing  == {"w_look", "w_copy", "w_publish", "w_wait", "w_test"}
Reading  == {"r_look", "r_copy", "r_publish", "r_wait", "r_test"}

\* Interrupts are off exactly inside a read-modify-write, which no interrupt
\* routine can then interrupt, so the word it has loaded is the current one.
MaskOK ==
  /\ pie = FALSE <=> at \in {"load", "store"}
  /\ pie = FALSE => isr = "idle"
  /\ at = "store" => loaded = irq_enable

CallOK ==
  /\ at \in Writing => call = "write"
  /\ at \in Reading => call = "read"
  /\ at \in Kicking => call = "write" \/ (call = "read" /\ moved > 0)
  /\ at \in Reading => moved > 0 \/ left > 0

\* What the transmit ring holds, and that the slots a write is filling are free.
TxOK ==
  /\ put = fed + Used(tx_out, tx_in)
  /\ \A k \in 1 .. Used(tx_out, tx_in) : tx_buf[(tx_out + k - 1) % L] = fed + k
  /\ at \in {"w_copy", "w_publish"} =>
       /\ in = tx_in /\ n >= 1 /\ n <= left /\ in + n <= L
       /\ n + Used(tx_out, tx_in) <= L - 1
  /\ at = "w_publish" => \A s \in in .. in + n - 1 : tx_buf[s] = put + 1 + (s - in)

\* What the receive ring holds, and that what a read is copying stays there.
RxOK ==
  /\ at \in {"r_copy", "r_publish"} =>
       /\ out = rx_out /\ n >= 1 /\ n <= left /\ out + n <= L
       /\ n <= Used(rx_out, rx_in)
  /\ rxlevel <= typed
  /\ typed - rxlevel = got + Used(RxStart, rx_in)
  /\ \A k \in 1 .. Used(RxStart, rx_in) : rx_buf[(RxStart + k - 1) % L] = got + k

\* pause_irq says that there is something to read, so whenever the interrupt
\* routine has found the device empty it has put something in the ring.
HeldOK ==
  /\ pause_irq => rxlevel > 0
  /\ isr = "rx" => rxlevel > 0 \/ rx_in # rx_out

SpaceOK == isr \in {"rx", "tx"} => txlevel + space <= Depth

Inv == TypeOK /\ MaskOK /\ CallOK /\ TxOK /\ RxOK /\ HeldOK /\ SpaceOK /\ NoLostInterrupt

-----------------------------------------------------------------------------
\* Counting slots round the ring.
LEMMA ModSmall == ASSUME NEW a \in 0 .. L - 1 PROVE a % L = a
  BY UartAssumption

LEMMA ModWrap == ASSUME NEW a \in L .. 2 * L - 1 PROVE a % L = a - L
  BY UartAssumption

LEMMA Slot == ASSUME NEW o \in Slots, NEW j \in 0 .. L - 1
              PROVE  /\ (o + j) % L \in Slots
                     /\ (o + j) % L = IF o + j < L THEN o + j ELSE o + j - L
  <1>1. CASE o + j < L BY <1>1, ModSmall, UartAssumption DEF Slots
  <1>2. CASE o + j >= L BY <1>2, ModWrap, UartAssumption DEF Slots
  <1> QED BY <1>1, <1>2, UartAssumption DEF Slots

LEMMA UsedBound == ASSUME NEW o \in Slots, NEW i \in Slots
                   PROVE  Used(o, i) \in 0 .. L - 1 /\ (Used(o, i) = 0 <=> o = i)
  BY UartAssumption DEF Slots, Used

\* i moves on by m free slots.
LEMMA UsedPut == ASSUME NEW o \in Slots, NEW i \in Slots, NEW m \in 1 .. L,
                        i + m <= L, m + Used(o, i) <= L - 1
                 PROVE  /\ (i + m) % L \in Slots
                        /\ Used(o, (i + m) % L) = Used(o, i) + m
                        /\ \A k \in Used(o, i) + 1 .. Used(o, i) + m :
                              (o + k - 1) % L = i + (k - 1 - Used(o, i))
  <1>0. m \in 0 .. L - 1 BY UsedBound, UartAssumption
  <1>a. (i + m) % L = IF i + m < L THEN i + m ELSE i + m - L BY <1>0, Slot
  <1>1. (i + m) % L = IF i + m < L THEN i + m ELSE 0 BY <1>0, <1>a, UartAssumption DEF Slots
  <1>2. Used(o, (i + m) % L) = Used(o, i) + m BY <1>0, <1>1, UartAssumption DEF Slots, Used
  <1>3. ASSUME NEW k \in Used(o, i) + 1 .. Used(o, i) + m
        PROVE  (o + k - 1) % L = i + (k - 1 - Used(o, i))
    <2>0. k - 1 \in 0 .. L - 1 /\ o + (k - 1) = o + k - 1 BY <1>0, UsedBound, UartAssumption DEF Slots
    <2>1. (o + k - 1) % L = IF o + k - 1 < L THEN o + k - 1 ELSE o + k - 1 - L
      BY <2>0, Slot
    <2> QED BY <2>0, <2>1, <1>0, UartAssumption DEF Slots, Used
  <1> QED BY <1>0, <1>1, <1>2, <1>3, UartAssumption DEF Slots

\* o moves on by m used slots.
LEMMA UsedTake == ASSUME NEW o \in Slots, NEW i \in Slots, NEW m \in 1 .. L,
                         o + m <= L, m <= Used(o, i)
                  PROVE  /\ (o + m) % L \in Slots
                         /\ Used((o + m) % L, i) = Used(o, i) - m
                         /\ \A k \in 1 .. Used(o, i) - m :
                               (((o + m) % L) + k - 1) % L = (o + (k + m) - 1) % L
  <1>0. m \in 0 .. L - 1 BY UsedBound, UartAssumption
  <1>a. (o + m) % L = IF o + m < L THEN o + m ELSE o + m - L BY <1>0, Slot
  <1>1. (o + m) % L = IF o + m < L THEN o + m ELSE 0 BY <1>0, <1>a, UsedBound, UartAssumption DEF Slots
  <1>2. Used((o + m) % L, i) = Used(o, i) - m BY <1>0, <1>1, UartAssumption DEF Slots, Used
  <1>3. ASSUME NEW k \in 1 .. Used(o, i) - m
        PROVE  (((o + m) % L) + k - 1) % L = (o + (k + m) - 1) % L
    <2>0. /\ k + m - 1 \in 0 .. L - 1 /\ o + (k + m - 1) = o + (k + m) - 1
          /\ k - 1 \in 0 .. L - 1 /\ ((o + m) % L) + (k - 1) = ((o + m) % L) + k - 1
          /\ (o + m) % L \in Slots
      BY <1>0, <1>1, UsedBound, UartAssumption DEF Slots
    <2>1. (o + (k + m) - 1) % L = IF o + (k + m) - 1 < L THEN o + (k + m) - 1 ELSE o + (k + m) - 1 - L
      BY <2>0, Slot
    <2>2. (((o + m) % L) + k - 1) % L = IF ((o + m) % L) + k - 1 < L THEN ((o + m) % L) + k - 1
                                      ELSE ((o + m) % L) + k - 1 - L
      BY <2>0, Slot
    <2> QED BY <2>0, <2>1, <2>2, <1>0, <1>1, UartAssumption DEF Slots
  <1> QED BY <1>0, <1>1, <1>2, <1>3, UartAssumption DEF Slots

\* What the write and read calls count fits, and does not wrap.
LEMMA FreeRunFits == ASSUME NEW i \in Slots, NEW o \in Slots
                     PROVE  /\ FreeRun(i, o) \in 0 .. L - 1
                            /\ i + FreeRun(i, o) <= L
                            /\ FreeRun(i, o) + Used(o, i) <= L - 1
  BY UartAssumption DEF Slots, FreeRun, Used

LEMMA HeldRunFits == ASSUME NEW i \in Slots, NEW o \in Slots
                     PROVE  /\ HeldRun(i, o) \in 0 .. L
                            /\ o + HeldRun(i, o) <= L
                            /\ HeldRun(i, o) <= Used(o, i)
  BY UartAssumption DEF Slots, HeldRun, Used

LEMMA TxFrame ==
  [Next]_vars => \/ WLook \/ WCopy \/ WPublish \/ IsrWrite
                 \/ /\ UNCHANGED <<tx, put, fed>>
                    /\ at' \notin {"w_copy", "w_publish"} \/ UNCHANGED <<at, in, n, left>>
  BY DEF Next, Started, Thread, Isr, Host, vars, tx, rx, wait, locals, irq, device,
     count, Goto, WWait, WTest, Mask, Load, Store, RLook, RCopy, RPublish, RWait, RTest, CloseEnd,
     IsrEnter, IsrControl, IsrRead, IsrReadFull, IsrReadEmpty, IsrReadCrossed, IsrWriteEnd, Tick, HostTakes,
     HostTypes, HostPauses, HostLeaves, Write, Read, Close, Ioctl

LEMMA RxFrame ==
  [Next]_vars => \/ RLook \/ RCopy \/ RPublish \/ IsrRead \/ HostTypes \/ IsrReadCrossed
                 \/ /\ UNCHANGED <<rx, rxlevel, typed, got>>
                    /\ \/ at # "r_publish" /\ at' \notin {"r_copy", "r_publish"}
                       \/ UNCHANGED <<at, out, n, left>>
  BY DEF Next, Started, Thread, Isr, Host, vars, tx, rx, wait, locals, irq, device,
     count, Goto, WLook, WCopy, WPublish, WWait, WTest, Mask, Load, Store, RWait, RTest, CloseEnd,
     IsrEnter, IsrControl, IsrReadFull, IsrReadEmpty, IsrReadCrossed, IsrWrite, IsrWriteEnd, Tick, HostTakes,
     HostPauses, HostLeaves, Write, Read, Close, Ioctl

LEMMA CallFrame ==
  [Next]_vars => \/ WLook \/ RLook \/ WPublish \/ RPublish
                 \/ /\ UNCHANGED <<in, out, n>>
                    /\ UNCHANGED <<left, moved>> \/ (left' \in 1 .. 2 * L /\ moved' = 0)
                    /\ loaded' \in {loaded, irq_enable}
                    /\ UNCHANGED call \/ call' \in {"write", "read", "close"}
                    /\ UNCHANGED nonblock \/ nonblock' \in BOOLEAN
  BY UartAssumption DEF Next, Started, Thread, Isr, Host, vars, tx, rx, wait,
     locals, irq, device, count, Goto, WCopy, WWait, WTest, Mask, Load, Store, RCopy,
     RWait, RTest, CloseEnd, IsrEnter, IsrControl, IsrRead, IsrReadFull, IsrReadEmpty, IsrReadCrossed, IsrWrite,
     IsrWriteEnd, Tick, HostTakes, HostTypes, HostPauses, HostLeaves, Write, Read,
     Close, Ioctl

LEMMA AtType == TypeOK /\ [Next]_vars =>
    at' \in {"idle", "w_look", "w_copy", "w_publish", "w_wait", "w_test", "mask", "load", "store",
            "r_look", "r_copy", "r_publish", "r_wait", "r_test", "close"}
  BY DEF TypeOK, Next, Started, Thread, Isr, Host, vars, tx, rx, wait, locals, irq,
     device, count, Goto, WLook, WCopy, WPublish, WWait, WTest, Mask, Load, Store, RLook,
     RCopy, RPublish, RWait, RTest, CloseEnd, IsrEnter, IsrControl, IsrRead, IsrReadFull, IsrReadEmpty, IsrReadCrossed,
     IsrWrite, IsrWriteEnd, Tick, HostTakes, HostTypes, HostPauses, HostLeaves,
     Write, Read, Close, Ioctl

LEMMA EnableFrame ==
  [Next]_vars => \/ Store \/ IsrReadFull \/ IsrReadCrossed \/ IsrWriteEnd
                 \/ irq_enable' = irq_enable
  BY DEF Next, Started, Thread, Isr, Host, vars, tx, rx, wait, locals, irq, device,
     count, Goto, WLook, WCopy, WPublish, WWait, WTest, Mask, Load, RLook, RCopy, RPublish,
     RWait, RTest, CloseEnd, IsrEnter, IsrControl, IsrRead, IsrReadEmpty, IsrWrite, Tick, HostTakes,
     HostTypes, HostPauses, HostLeaves, Write, Read, Close, Ioctl

LEMMA EnableType == TypeOK /\ [Next]_vars => irq_enable' \subseteq {"RE", "WE"}
  <1> SUFFICES ASSUME TypeOK, [Next]_vars PROVE irq_enable' \subseteq {"RE", "WE"}
    OBVIOUS
  <1>1. CASE Store BY <1>1 DEF TypeOK, Store, Bit
  <1>2. CASE IsrReadFull BY <1>2 DEF TypeOK, IsrReadFull
  <1>3. CASE IsrReadCrossed BY <1>3 DEF TypeOK, IsrReadCrossed
  <1>4. CASE IsrWriteEnd BY <1>4 DEF TypeOK, IsrWriteEnd
  <1> QED BY <1>1, <1>2, <1>3, <1>4, EnableFrame DEF TypeOK

LEMMA IrqType == TypeOK /\ [Next]_vars => isr' \in {"idle", "control", "rx", "tx"}
  BY DEF TypeOK, Next, Started, Thread, Isr, Host, vars, tx, rx, wait, locals, irq,
     device, count, Goto, WLook, WCopy, WPublish, WWait, WTest, Mask, Load, Store, RLook,
     RCopy, RPublish, RWait, RTest, CloseEnd, IsrEnter, IsrControl, IsrRead, IsrReadFull, IsrReadEmpty, IsrReadCrossed,
     IsrWrite, IsrWriteEnd, Tick, HostTakes, HostTypes, HostPauses, HostLeaves,
     Write, Read, Close, Ioctl

LEMMA PieType == TypeOK /\ [Next]_vars => pie' \in BOOLEAN
  BY DEF TypeOK, Next, Started, Thread, Isr, Host, vars, tx, rx, wait, locals, irq,
     device, count, Goto, WLook, WCopy, WPublish, WWait, WTest, Mask, Load, Store, RLook,
     RCopy, RPublish, RWait, RTest, CloseEnd, IsrEnter, IsrControl, IsrRead, IsrReadFull, IsrReadEmpty, IsrReadCrossed,
     IsrWrite, IsrWriteEnd, Tick, HostTakes, HostTypes, HostPauses, HostLeaves,
     Write, Read, Close, Ioctl

LEMMA AvailType == TypeOK /\ [Next]_vars => avail' \in BOOLEAN
  <1>1. [Next]_vars => IsrRead \/ avail' \in {TRUE, FALSE} \/ avail' = avail
    BY DEF Next, Started, Thread, Isr, Host, vars, tx, rx, wait, locals, irq,
       device, count, Goto, WLook, WCopy, WPublish, WWait, WTest, Mask, Load, Store, RLook,
       RCopy, RPublish, RWait, RTest, CloseEnd, IsrEnter, IsrControl, IsrReadFull, IsrReadEmpty, IsrReadCrossed, IsrWrite,
       IsrWriteEnd, Tick, HostTakes, HostTypes, HostPauses, HostLeaves, Write, Read,
       Close, Ioctl
  <1>2. IsrRead => avail' \in BOOLEAN
    <2>1. (rxlevel > 1) \in BOOLEAN OBVIOUS
    <2> QED BY <2>1, Zenon DEF IsrRead
  <1> QED BY <1>1, <1>2 DEF TypeOK

LEMMA HostType == TypeOK /\ [Next]_vars =>
  host' \in {"here", "gone", "back"} /\ active' \in BOOLEAN /\ pause_irq' \in BOOLEAN
  BY DEF TypeOK, Next, Started, Thread, Isr, Host, vars, tx, rx, wait, locals, irq,
     device, count, Goto, WLook, WCopy, WPublish, WWait, WTest, Mask, Load, Store, RLook,
     RCopy, RPublish, RWait, RTest, CloseEnd, IsrEnter, IsrControl, IsrRead, IsrReadFull, IsrReadEmpty, IsrReadCrossed,
     IsrWrite, IsrWriteEnd, Tick, HostTakes, HostTypes, HostPauses, HostLeaves,
     Write, Read, Close, Ioctl

LEMMA FlagType == TypeOK /\ [Next]_vars => wi' \in BOOLEAN
  BY DEF TypeOK, WI, Next, Started, Thread, Isr, Host, vars, tx, rx, wait, locals,
     irq, device, count, Goto, WLook, WCopy, WPublish, WWait, WTest, Mask, Load, Store,
     RLook, RCopy, RPublish, RWait, RTest, CloseEnd, IsrEnter, IsrControl, IsrRead,
     IsrReadFull, IsrReadEmpty, IsrReadCrossed, IsrWrite, IsrWriteEnd, Tick, HostTakes, HostTypes, HostPauses,
     HostLeaves, Write, Read, Close, Ioctl

LEMMA WaitType == TypeOK /\ [Next]_vars =>
    host_inactive' \in 0 .. INT_MAX - 2 /\ timeout' \in 2 .. INT_MAX
  BY UartAssumption DEF TypeOK, Next, Started, Thread, Isr, Host, vars, tx, rx,
     wait, locals, irq, device, count, Goto, WLook, WCopy, WPublish, WWait, WTest, Mask,
     Load, Store, RLook, RCopy, RPublish, RWait, RTest, CloseEnd, IsrEnter, IsrControl,
     IsrRead, IsrReadFull, IsrReadEmpty, IsrReadCrossed, IsrWrite, IsrWriteEnd, Tick, HostTakes, HostTypes,
     HostPauses, HostLeaves, Write, Read, Close, Ioctl

LEMMA RxLevelType == TypeOK /\ [Next]_vars => typed' \in Nat /\ rxlevel' \in 0 .. Depth
  BY UartAssumption DEF TypeOK, Next, Started, Thread, Isr, Host, vars, tx, rx,
     wait, locals, irq, device, count, Goto, WLook, WCopy, WPublish, WWait, WTest, Mask,
     Load, Store, RLook, RCopy, RPublish, RWait, RTest, CloseEnd, IsrEnter, IsrControl,
     IsrRead, IsrReadFull, IsrReadEmpty, IsrReadCrossed, IsrWrite, IsrWriteEnd, Tick, HostTakes, HostTypes,
     HostPauses, HostLeaves, Write, Read, Close, Ioctl

LEMMA SpaceType == TypeOK /\ SpaceOK /\ [Next]_vars =>
  /\ space' \in 0 .. Depth /\ txlevel' \in 0 .. Depth /\ SpaceOK'
  BY UartAssumption DEF TypeOK, SpaceOK, Next, Started, Thread, Isr, Host, vars, tx,
     rx, wait, locals, irq, device, count, Goto, WLook, WCopy, WPublish, WWait, WTest,
     Mask, Load, Store, RLook, RCopy, RPublish, RWait, RTest, CloseEnd, IsrEnter,
     IsrControl, IsrRead, IsrReadFull, IsrReadEmpty, IsrReadCrossed, IsrWrite, IsrWriteEnd, Tick, HostTakes,
     HostTypes, HostPauses, HostLeaves, Write, Read, Close, Ioctl

-----------------------------------------------------------------------------
\* The parts of the invariant, one after the other.
LEMMA TxTypeStep == Inv /\ [Next]_vars =>
  tx_in' \in Slots /\ tx_out' \in Slots /\ tx_buf' \in [Slots -> Nat] /\ put' \in Nat /\ fed' \in Nat
  <1> SUFFICES ASSUME Inv, [Next]_vars
               PROVE  /\ tx_in' \in Slots /\ tx_out' \in Slots /\ tx_buf' \in [Slots -> Nat]
                      /\ put' \in Nat /\ fed' \in Nat
    OBVIOUS
  <1>1. CASE WLook BY <1>1 DEF Inv, TypeOK, WLook, tx, count
  <1>2. CASE WCopy
    <2>1. \A s \in Slots : s \in in .. in + n - 1 => put + 1 + (s - in) \in Nat
      BY DEF Inv, TypeOK, Slots
    <2> QED BY <1>2, <2>1 DEF Inv, TypeOK, WCopy, count
  <1>3. CASE WPublish
    <2>1. in = tx_in /\ n \in 1 .. L /\ in + n <= L /\ n + Used(tx_out, tx_in) <= L - 1
      BY <1>3, UartAssumption DEF Inv, TypeOK, TxOK, WPublish, Goto
    <2>2. (in + n) % L \in Slots BY <2>1, UsedPut DEF Inv, TypeOK
    <2> QED BY <1>3, <2>2 DEF Inv, TypeOK, WPublish
  <1>4. CASE IsrWrite
    <2>0. tx_out \in Slots /\ 1 \in 0 .. L - 1 BY UartAssumption DEF Inv, TypeOK
    <2>1. (tx_out + 1) % L \in Slots BY <2>0, Slot
    <2>2. tx_buf[tx_out] \in Nat BY DEF Inv, TypeOK
    <2> QED BY <1>4, <2>1, <2>2 DEF Inv, TypeOK, IsrWrite
  <1> QED BY <1>1, <1>2, <1>3, <1>4, TxFrame DEF Inv, TypeOK, tx

LEMMA RxTypeStep == Inv /\ [Next]_vars =>
  rx_in' \in Slots /\ rx_out' \in Slots /\ rx_buf' \in [Slots -> Nat] /\ got' \in Nat
  <1> SUFFICES ASSUME Inv, [Next]_vars
               PROVE  /\ rx_in' \in Slots /\ rx_out' \in Slots /\ rx_buf' \in [Slots -> Nat]
                      /\ got' \in Nat
    OBVIOUS
  <1>1. CASE RLook BY <1>1 DEF Inv, TypeOK, RLook, rx, count
  <1>2. CASE RCopy
    <2>1. out \in Nat /\ n \in Nat /\ n >= 1 /\ out + n <= L
      BY <1>2 DEF Inv, TypeOK, RxOK, RCopy, Goto, Slots
    <2>2. out + n - 1 \in Slots BY <2>1, UartAssumption DEF Slots
    <2> QED BY <1>2, <2>2 DEF Inv, TypeOK, RCopy, rx
  <1>3. CASE RPublish
    <2>1. out = rx_out /\ n \in 1 .. L /\ out + n <= L /\ n <= Used(rx_out, rx_in)
      BY <1>3, UartAssumption DEF Inv, TypeOK, RxOK, RPublish, Goto
    <2>2. (out + n) % L \in Slots BY <2>1, UsedTake DEF Inv, TypeOK
    <2> QED BY <1>3, <2>2 DEF Inv, TypeOK, RPublish, count
  <1>4. CASE IsrRead
    <2>0. rx_in \in Slots /\ 1 \in 0 .. L - 1 BY UartAssumption DEF Inv, TypeOK
    <2>1. (rx_in + 1) % L \in Slots BY <2>0, Slot
    <2>2. typed - rxlevel + 1 \in Nat BY UartAssumption DEF Inv, TypeOK, RxOK
    <2> QED BY <1>4, <2>1, <2>2 DEF Inv, TypeOK, IsrRead, count
  <1>5. CASE HostTypes BY <1>5 DEF Inv, TypeOK, HostTypes, rx
  <1>6. CASE IsrReadCrossed BY <1>6 DEF Inv, TypeOK, IsrReadCrossed, rx
  <1> QED BY <1>1, <1>2, <1>3, <1>4, <1>5, <1>6, RxFrame DEF Inv, TypeOK, rx

LEMMA CallTypeStep == Inv /\ [Next]_vars =>
  /\ call' \in {"none", "write", "read", "close"} /\ nonblock' \in BOOLEAN
  /\ left' \in Nat /\ moved' \in Nat /\ in' \in Slots /\ out' \in Slots /\ n' \in 0 .. L - 1
  /\ loaded' \subseteq {"RE", "WE"}
  <1> DEFINE Goal == /\ call \in {"none", "write", "read", "close"} /\ nonblock \in BOOLEAN
                     /\ left \in Nat /\ moved \in Nat
                     /\ in \in Slots /\ out \in Slots /\ n \in 0 .. L - 1
                     /\ loaded \subseteq {"RE", "WE"}
  <1> SUFFICES ASSUME Inv, [Next]_vars PROVE Goal'
    OBVIOUS
  <1>1. CASE WLook
    <2>1. FreeRun(tx_in, tx_out) \in 0 .. L - 1 BY FreeRunFits DEF Inv, TypeOK
    <2>2. n' \in 0 .. L - 1 BY <1>1, <2>1, UartAssumption DEF Inv, TypeOK, WLook, Least
    <2> QED BY <1>1, <2>2 DEF Inv, TypeOK, WLook
  <1>2. CASE RLook
    <2>1. HeldRun(rx_in, rx_out) \in 0 .. L - 1
      BY HeldRunFits, UsedBound, UartAssumption DEF Inv, TypeOK
    <2>2. n' \in 0 .. L - 1 BY <1>2, <2>1, UartAssumption DEF Inv, TypeOK, RLook, Least
    <2> QED BY <1>2, <2>2 DEF Inv, TypeOK, RLook
  <1>3. CASE WPublish
    <2>1. left - n \in Nat /\ moved + n \in Nat BY <1>3 DEF Inv, TypeOK, TxOK, WPublish, Goto
    <2> QED BY <1>3, <2>1 DEF Inv, TypeOK, WPublish
  <1>4. CASE RPublish
    <2>1. left - n \in Nat /\ moved + n \in Nat BY <1>4 DEF Inv, TypeOK, RxOK, RPublish, Goto
    <2> QED BY <1>4, <2>1 DEF Inv, TypeOK, RPublish
  <1>5. CASE /\ UNCHANGED <<in, out, n>>
             /\ UNCHANGED <<left, moved>> \/ (left' \in 1 .. 2 * L /\ moved' = 0)
             /\ loaded' \in {loaded, irq_enable}
             /\ UNCHANGED call \/ call' \in {"write", "read", "close"}
             /\ UNCHANGED nonblock \/ nonblock' \in BOOLEAN
    BY <1>5 DEF Inv, TypeOK
  <1> QED BY <1>1, <1>2, <1>3, <1>4, <1>5, CallFrame

LEMMA TypeStep == Inv /\ [Next]_vars => TypeOK'
  <1> SUFFICES ASSUME Inv, [Next]_vars PROVE TypeOK'
    OBVIOUS
  <1>1. TypeOK /\ SpaceOK BY DEF Inv
  <1> QED BY <1>1, TxTypeStep, RxTypeStep, CallTypeStep, AtType, EnableType, IrqType, PieType, AvailType, HostType,
             FlagType, WaitType, RxLevelType, SpaceType DEF TypeOK

LEMMA MaskStep == MaskOK /\ [Next]_vars => MaskOK'
  <1>1. MaskOK /\ [Next]_vars => (pie = FALSE <=> at \in {"load", "store"})'
    BY DEF MaskOK, Next, Started, Thread, Isr, Host, vars, tx, rx, wait, locals,
       irq, device, count, Goto, WLook, WCopy, WPublish, WWait, WTest, Mask, Load, Store,
       RLook, RCopy, RPublish, RWait, RTest, CloseEnd, IsrEnter, IsrControl, IsrRead,
       IsrReadFull, IsrReadEmpty, IsrReadCrossed, IsrWrite, IsrWriteEnd, Tick, HostTakes, HostTypes, HostPauses,
       HostLeaves, Write, Read, Close, Ioctl
  <1>2. MaskOK /\ [Next]_vars => (pie = FALSE => isr = "idle")'
    BY DEF MaskOK, Next, Started, Thread, Isr, Host, vars, tx, rx, wait, locals,
       irq, device, count, Goto, WLook, WCopy, WPublish, WWait, WTest, Mask, Load, Store,
       RLook, RCopy, RPublish, RWait, RTest, CloseEnd, IsrEnter, IsrControl, IsrRead,
       IsrReadFull, IsrReadEmpty, IsrReadCrossed, IsrWrite, IsrWriteEnd, Tick, HostTakes, HostTypes, HostPauses,
       HostLeaves, Write, Read, Close, Ioctl
  <1>3. MaskOK /\ [Next]_vars => (at = "store" => loaded = irq_enable)'
    BY DEF MaskOK, Next, Started, Thread, Isr, Host, vars, tx, rx, wait, locals,
       irq, device, count, Goto, WLook, WCopy, WPublish, WWait, WTest, Mask, Load, Store,
       RLook, RCopy, RPublish, RWait, RTest, CloseEnd, IsrEnter, IsrControl, IsrRead,
       IsrReadFull, IsrReadEmpty, IsrReadCrossed, IsrWrite, IsrWriteEnd, Tick, HostTakes, HostTypes, HostPauses,
       HostLeaves, Write, Read, Close, Ioctl
  <1> QED BY <1>1, <1>2, <1>3 DEF MaskOK

LEMMA CallStep == TypeOK /\ CallOK /\ RxOK /\ [Next]_vars => CallOK'
  BY DEF TypeOK, CallOK, RxOK, Writing, Reading, Kicking, Next, Started, Thread,
     Isr, Host, vars, tx, rx, wait, locals, irq, device, count, Goto, WLook, WCopy,
     WPublish, WWait, WTest, Mask, Load, Store, RLook, RCopy, RPublish, RWait, RTest, CloseEnd,
     IsrEnter, IsrControl, IsrRead, IsrReadFull, IsrReadEmpty, IsrReadCrossed, IsrWrite, IsrWriteEnd, Tick,
     HostTakes, HostTypes, HostPauses, HostLeaves, Write, Read, Close, Ioctl

\* A slot that holds a character is none of the free ones.
LEMMA UsedDisjoint == ASSUME NEW o \in Slots, NEW i \in Slots, NEW m \in 0 .. L, i + m <= L,
                             m + Used(o, i) <= L - 1, NEW k \in 1 .. Used(o, i)
                      PROVE  /\ (o + k - 1) % L \in Slots
                             /\ (o + k - 1) % L \notin i .. i + m - 1
  <1>0. k - 1 \in 0 .. L - 1 /\ o + (k - 1) = o + k - 1 BY UsedBound, UartAssumption DEF Slots
  <1>1. /\ (o + k - 1) % L \in Slots
        /\ (o + k - 1) % L = IF o + k - 1 < L THEN o + k - 1 ELSE o + k - 1 - L
    BY <1>0, Slot
  <1> QED BY <1>0, <1>1, UartAssumption DEF Slots, Used

LEMMA UsedNotFull == ASSUME NEW o \in Slots, NEW i \in Slots, (i + 1) % L # o
                     PROVE  1 + Used(o, i) <= L - 1
  <1>0. 1 \in 0 .. L - 1 BY UartAssumption
  <1>1. (i + 1) % L = IF i + 1 < L THEN i + 1 ELSE i + 1 - L BY <1>0, Slot
  <1> QED BY <1>1, UartAssumption DEF Slots, Used

LEMMA TxStep == Inv /\ [Next]_vars => TxOK'
  <1> SUFFICES ASSUME Inv, [Next]_vars PROVE TxOK'
    OBVIOUS
  <1> DEFINE u == Used(tx_out, tx_in)
  <1>0. /\ tx_in \in Slots /\ tx_out \in Slots /\ put \in Nat /\ fed \in Nat /\ u \in 0 .. L - 1
        /\ tx_buf \in [Slots -> Nat] /\ n \in 0 .. L - 1
        /\ left \in Nat /\ in \in Slots
    BY UsedBound DEF Inv, TypeOK
  <1>1. CASE WLook
    <2>1. UNCHANGED <<tx, put, fed>> BY <1>1 DEF WLook, count
    <2>2. at' = "w_copy" =>
            /\ in' = tx_in /\ n' >= 1 /\ n' <= left' /\ in' + n' <= L
            /\ n' + u <= L - 1
      <3> DEFINE f == FreeRun(tx_in, tx_out)
      <3>1. f \in 0 .. L - 1 /\ tx_in + f <= L /\ f + u <= L - 1 BY <1>0, FreeRunFits
      <3> HIDE DEF f, u
      <3>2. in' = tx_in /\ left' = left /\ n' = Least(f, left)
            /\ (at' = "w_copy" => left # 0 /\ f # 0)
        BY <1>1 DEF WLook, Goto, f
      <3> QED BY <3>1, <3>2, <1>0, UartAssumption DEF Least, Slots
    <2>3. at' # "w_publish" BY <1>1 DEF WLook, Goto
    <2> QED BY <2>1, <2>2, <2>3 DEF Inv, TxOK, tx
  <1>2. CASE WCopy
    <2>1. /\ at = "w_copy" /\ at' = "w_publish" /\ UNCHANGED <<tx_in, tx_out, put, fed, in, n, left>>
          /\ tx_buf' = [s \in Slots |-> IF s \in in .. in + n - 1 THEN put + 1 + (s - in) ELSE tx_buf[s]]
      BY <1>2 DEF WCopy, Goto, locals, count
    <2>2. in = tx_in /\ n >= 1 /\ n <= left /\ in + n <= L /\ n + u <= L - 1
      BY <2>1 DEF Inv, TxOK
    <2>3. ASSUME NEW k \in 1 .. u PROVE tx_buf'[(tx_out + k - 1) % L] = fed + k
      <3>1. n \in 0 .. L /\ tx_in + n <= L /\ n + u <= L - 1 BY <2>2, <1>0, UartAssumption
      <3>2. (tx_out + k - 1) % L \in Slots /\ (tx_out + k - 1) % L \notin tx_in .. tx_in + n - 1
        BY <3>1, <1>0, UsedDisjoint
      <3>3. tx_buf[(tx_out + k - 1) % L] = fed + k BY DEF Inv, TxOK
      <3> QED BY <2>1, <2>2, <3>2, <3>3
    <2>4. ASSUME NEW s \in in .. in + n - 1 PROVE tx_buf'[s] = put + 1 + (s - in)
      <3>1. s \in Slots BY <2>2, <1>0, UartAssumption DEF Slots
      <3> QED BY <3>1, <2>1
    <2> QED BY <2>1, <2>2, <2>3, <2>4 DEF Inv, TxOK
  <1>3. CASE WPublish
    <2>1. /\ at = "w_publish" /\ at' = "w_look" /\ UNCHANGED <<tx_out, tx_buf, fed>>
          /\ tx_in' = (in + n) % L /\ put' = put + n
      BY <1>3 DEF WPublish, Goto
    <2>2. /\ in = tx_in /\ n \in 1 .. L /\ in + n <= L /\ n + u <= L - 1
          /\ \A s \in in .. in + n - 1 : tx_buf[s] = put + 1 + (s - in)
      BY <2>1, <1>0, UartAssumption DEF Inv, TxOK
    <2>3. /\ Used(tx_out, tx_in') = u + n
          /\ \A k \in u + 1 .. u + n : (tx_out + k - 1) % L = in + (k - 1 - u)
      BY <2>1, <2>2, <1>0, UsedPut
    <2>4. put' = fed + (u + n)
      <3>1. put = fed + u BY DEF Inv, TxOK
      <3> HIDE DEF u
      <3> QED BY <3>1, <2>1, <1>0
    <2>5. ASSUME NEW k \in 1 .. u + n PROVE tx_buf[(tx_out + k - 1) % L] = fed + k
      <3>1. CASE k <= u BY <3>1, <1>0 DEF Inv, TxOK
      <3>2. CASE k > u
        <4>0. put = fed + u BY DEF Inv, TxOK
        <4> HIDE DEF u
        <4>1. k \in u + 1 .. u + n BY <3>2, <1>0
        <4>2. (tx_out + k - 1) % L = in + (k - 1 - u) BY <4>1, <2>3
        <4>3. in + (k - 1 - u) \in in .. in + n - 1 BY <4>1, <2>2, <1>0, UartAssumption DEF Slots
        <4>4. PICK s \in in .. in + n - 1 : s = in + (k - 1 - u) BY <4>3
        <4>5. tx_buf[s] = put + 1 + (s - in) BY <2>2
        <4> QED BY <4>0, <4>1, <4>2, <4>4, <4>5, <1>0, <2>2 DEF Slots
      <3> HIDE DEF u
      <3> QED BY <3>1, <3>2, <1>0, <2>2
    <2> QED BY <2>1, <2>3, <2>4, <2>5 DEF TxOK
  <1>4. CASE IsrWrite
    <2>1. /\ tx_out # tx_in /\ tx_out' = (tx_out + 1) % L /\ fed' = tx_buf[tx_out]
          /\ UNCHANGED <<tx_in, tx_buf, put, at, in, n, left>>
      BY <1>4 DEF IsrWrite, locals
    <2>2. 1 <= u /\ 1 \in 1 .. L /\ tx_out + 1 <= L BY <2>1, <1>0, UsedBound, UartAssumption DEF Slots
    <2>3. /\ Used((tx_out + 1) % L, tx_in) = u - 1
          /\ \A k \in 1 .. u - 1 : (((tx_out + 1) % L) + k - 1) % L = (tx_out + (k + 1) - 1) % L
      BY <2>2, <1>0, UsedTake
    <2>4. fed' = fed + 1
      <3>1. (tx_out + 1 - 1) % L = tx_out BY <1>0, ModSmall DEF Slots
      <3>2. 1 \in 1 .. u BY <2>2, <1>0
      <3>3. tx_buf[(tx_out + 1 - 1) % L] = fed + 1 BY <3>2 DEF Inv, TxOK
      <3> QED BY <3>1, <3>3, <2>1
    <2>5. ASSUME NEW k \in 1 .. u - 1 PROVE tx_buf[(tx_out' + k - 1) % L] = fed' + k
      <3>1. k + 1 \in 1 .. u BY <1>0
      <3>2. tx_buf[(tx_out + (k + 1) - 1) % L] = fed + (k + 1) BY <3>1 DEF Inv, TxOK
      <3>3. fed' + k = fed + (k + 1) BY <2>4, <1>0
      <3> QED BY <2>1, <2>3, <3>2, <3>3
    <2>6. put' = fed' + (u - 1)
      <3>1. put = fed + u BY DEF Inv, TxOK
      <3> HIDE DEF u
      <3> QED BY <3>1, <2>1, <2>4, <1>0
    <2>7. at \in {"w_copy", "w_publish"} => n + (u - 1) <= L - 1
      <3>1. at \in {"w_copy", "w_publish"} => n + u <= L - 1 BY DEF Inv, TxOK
      <3> HIDE DEF u
      <3> QED BY <3>1, <1>0, UartAssumption
    <2> QED BY <2>1, <2>3, <2>5, <2>6, <2>7 DEF Inv, TxOK
  <1>5. CASE /\ UNCHANGED <<tx, put, fed>>
             /\ at' \notin {"w_copy", "w_publish"} \/ UNCHANGED <<at, in, n, left>>
    BY <1>5 DEF Inv, TxOK, tx
  <1> QED BY <1>1, <1>2, <1>3, <1>4, <1>5, TxFrame

LEMMA RxStep == Inv /\ [Next]_vars => RxOK'
  <1> SUFFICES ASSUME Inv, [Next]_vars PROVE RxOK'
    OBVIOUS
  <1> DEFINE u == Used(RxStart, rx_in)
             v == Used(rx_out, rx_in)
  <1>0. /\ rx_in \in Slots /\ rx_out \in Slots /\ got \in Nat /\ typed \in Nat /\ rxlevel \in 0 .. Depth
        /\ rx_buf \in [Slots -> Nat] /\ n \in 0 .. L - 1
        /\ left \in Nat /\ out \in Slots /\ v \in 0 .. L - 1
    BY UsedBound DEF Inv, TypeOK
  <1>a. at \in {"r_copy", "r_publish"} => out = rx_out /\ n \in 1 .. L /\ rx_out + n <= L /\ n <= v
    BY <1>0, UartAssumption DEF Inv, RxOK
  <1>b. RxStart \in Slots /\ u = (IF at = "r_publish" THEN v - n ELSE v) /\ u \in 0 .. L - 1
    <2>1. CASE at = "r_publish"
      <3>1. (rx_out + n) % L \in Slots /\ Used((rx_out + n) % L, rx_in) = v - n
        BY <2>1, <1>0, <1>a, UsedTake
      <3>2. RxStart = (rx_out + n) % L BY <2>1, <1>a DEF RxStart
      <3> QED BY <3>1, <3>2, <2>1, UsedBound, <1>0
    <2>2. CASE at # "r_publish" BY <2>2, <1>0 DEF RxStart
    <2> QED BY <2>1, <2>2
  <1>c. /\ rxlevel <= typed /\ typed - rxlevel = got + u
        /\ \A k \in 1 .. u : rx_buf[(RxStart + k - 1) % L] = got + k
    BY DEF Inv, RxOK
  <1>1. CASE RLook
    <2>1. UNCHANGED <<rx, rxlevel, typed, got>> /\ at = "r_look" BY <1>1 DEF RLook, Goto, count, device
    <2>2. at' = "r_copy" =>
            /\ out' = rx_out /\ n' >= 1 /\ n' <= left' /\ out' + n' <= L
            /\ n' <= v
      <3> DEFINE h == HeldRun(rx_in, rx_out)
      <3>1. h \in 0 .. L /\ rx_out + h <= L /\ h <= v BY <1>0, HeldRunFits
      <3> HIDE DEF h, v
      <3>2. out' = rx_out /\ left' = left /\ n' = Least(h, left)
            /\ (at' = "r_copy" => left > 0 /\ h > 0)
        BY <1>1 DEF RLook, Goto, h
      <3> QED BY <3>1, <3>2, <1>0, UartAssumption DEF Least, Slots
    <2>3. at' # "r_publish" BY <1>1 DEF RLook, Goto
    <2>4. RxStart' = RxStart BY <2>1, <2>3 DEF RxStart, rx
    <2> QED BY <2>1, <2>2, <2>3, <2>4, <1>c DEF RxOK, rx
  <1>2. CASE RCopy
    <2>1. /\ at = "r_copy" /\ at' = "r_publish" /\ got' = rx_buf[out + n - 1]
          /\ UNCHANGED <<rx_in, rx_out, rx_buf, typed, rxlevel, out, n, left>>
      BY <1>2 DEF RCopy, Goto, locals, rx, device
    <2>2. RxStart = rx_out /\ u = v /\ RxStart' = (rx_out + n) % L
      BY <2>1, <1>a DEF RxStart
    <2>3. /\ (rx_out + n) % L \in Slots /\ Used((rx_out + n) % L, rx_in) = v - n
          /\ \A k \in 1 .. v - n : (((rx_out + n) % L) + k - 1) % L = (rx_out + (k + n) - 1) % L
      BY <2>1, <1>0, <1>a, UsedTake
    <2>4. got' = got + n
      <3>1. n \in 1 .. u BY <2>1, <2>2, <1>a, <1>0
      <3>2. rx_buf[(rx_out + n - 1) % L] = got + n BY <3>1, <2>2, <1>c
      <3>3. rx_out + n - 1 \in 0 .. L - 1 BY <2>1, <1>a, <1>0, UartAssumption DEF Slots
      <3>4. (rx_out + n - 1) % L = rx_out + n - 1 BY <3>3, ModSmall
      <3> QED BY <3>2, <3>4, <2>1, <1>a
    <2>5. typed' - rxlevel' = got' + (v - n)
      <3> HIDE DEF u, v
      <3> QED BY <2>1, <2>2, <2>4, <1>c, <1>0
    <2>6. ASSUME NEW k \in 1 .. v - n PROVE rx_buf[(((rx_out + n) % L) + k - 1) % L] = got' + k
      <3>1. k + n \in 1 .. u BY <2>1, <2>2, <1>a, <1>0
      <3>2. rx_buf[(rx_out + (k + n) - 1) % L] = got + (k + n) BY <3>1, <2>2, <1>c
      <3> HIDE DEF u, v
      <3> QED BY <3>2, <2>3, <2>4, <1>0
    <2>7. at \in {"r_copy", "r_publish"} BY <2>1
    <2>8. out = rx_out /\ n >= 1 /\ n <= left /\ out + n <= L /\ n <= v BY <2>7 DEF Inv, RxOK
    <2> QED BY <2>1, <2>2, <2>3, <2>5, <2>6, <2>8, <1>c DEF RxOK
  <1>3. CASE RPublish
    <2>1. /\ at = "r_publish" /\ at' = "r_look" /\ rx_out' = (out + n) % L
          /\ UNCHANGED <<rx_in, rx_buf, typed, rxlevel, got>>
      BY <1>3 DEF RPublish, Goto, count, device
    <2>2. RxStart' = RxStart BY <2>1 DEF RxStart
    <2> QED BY <2>1, <2>2, <1>c DEF RxOK
  <1>4. CASE IsrRead
    <2>1. /\ (rx_in + 1) % L # rx_out /\ rxlevel > 0 /\ rxlevel' = rxlevel - 1
          /\ rx_buf' = [rx_buf EXCEPT ![rx_in] = typed - rxlevel + 1]
          /\ rx_in' = (rx_in + 1) % L
          /\ UNCHANGED <<rx_out, at, out, n, left, typed, got>>
      BY <1>4 DEF IsrRead, locals, count
    <2>2. 1 + v <= L - 1 BY <2>1, <1>0, UsedNotFull
    <2>3. 1 \in 1 .. L /\ rx_in + 1 <= L /\ 1 + u <= L - 1
      BY <2>2, <1>0, <1>a, <1>b, UartAssumption DEF Slots
    <2>4. /\ Used(RxStart, (rx_in + 1) % L) = u + 1
          /\ \A k \in u + 1 .. u + 1 : (RxStart + k - 1) % L = rx_in + (k - 1 - u)
      BY <2>3, <1>0, <1>b, UsedPut
    <2>5. Used(rx_out, (rx_in + 1) % L) = v + 1 BY <2>2, <2>3, <1>0, UsedPut
    <2>6. RxStart' = RxStart BY <2>1 DEF RxStart
    <2>7. rxlevel' <= typed /\ typed - rxlevel' = got + (u + 1)
      <3> HIDE DEF u
      <3> QED BY <2>1, <1>b, <1>c, <1>0
    <2>8. ASSUME NEW k \in 1 .. u + 1 PROVE rx_buf'[(RxStart + k - 1) % L] = got + k
      <3>1. CASE k = u + 1
        <4> HIDE DEF u
        <4>0. k \in u + 1 .. u + 1 /\ k - 1 - u = 0 BY <3>1, <1>b
        <4>a. (RxStart + k - 1) % L = rx_in + (k - 1 - u) BY <4>0, <2>4
        <4>1. (RxStart + k - 1) % L = rx_in BY <4>0, <4>a, <1>0 DEF Slots
        <4>2. rx_buf'[rx_in] = typed - rxlevel + 1 BY <2>1, <1>0
        <4> QED BY <4>1, <4>2, <3>1, <1>b, <1>c, <1>0
      <3>2. CASE k \in 1 .. u
        <4>1. 1 \in 0 .. L BY UartAssumption
        <4>2. (RxStart + k - 1) % L \in Slots /\ (RxStart + k - 1) % L \notin rx_in .. rx_in + 1 - 1
          BY <4>1, <3>2, <2>3, <1>0, <1>b, UsedDisjoint
        <4>3. (RxStart + k - 1) % L # rx_in BY <4>2, <1>0 DEF Slots
        <4> QED BY <4>2, <4>3, <2>1, <1>0, <1>c, <3>2
      <3> HIDE DEF u
      <3> QED BY <3>1, <3>2, <1>b
    <2>9. at \in {"r_copy", "r_publish"} =>
            out = rx_out /\ n >= 1 /\ n <= left /\ out + n <= L /\ n <= v + 1
      <3>1. at \in {"r_copy", "r_publish"} =>
              out = rx_out /\ n >= 1 /\ n <= left /\ out + n <= L /\ n <= v
        BY DEF Inv, RxOK
      <3> HIDE DEF v
      <3> QED BY <3>1, <1>0
    <2> QED BY <2>1, <2>4, <2>5, <2>6, <2>7, <2>8, <2>9 DEF RxOK
  <1>5. CASE HostTypes \/ IsrReadCrossed
    <2>1. /\ rxlevel' = rxlevel + 1 /\ typed' = typed + 1
          /\ UNCHANGED <<rx_in, rx_out, rx_buf, at, out, n, left, got>>
      BY <1>5, <1>0 DEF HostTypes, IsrReadCrossed, rx, locals
    <2>2. RxStart' = RxStart BY <2>1 DEF RxStart
    <2>3. rxlevel' <= typed' /\ typed' - rxlevel' = typed - rxlevel BY <2>1, <1>c, <1>0
    <2> QED BY <2>1, <2>2, <2>3, <1>c DEF Inv, RxOK
  <1>6. CASE /\ UNCHANGED <<rx, rxlevel, typed, got>>
             /\ \/ at # "r_publish" /\ at' \notin {"r_copy", "r_publish"}
                \/ UNCHANGED <<at, out, n, left>>
    <2>1. RxStart' = RxStart BY <1>6 DEF RxStart, rx
    <2> QED BY <1>6, <2>1 DEF Inv, RxOK, rx
  <1> QED BY <1>1, <1>2, <1>3, <1>4, <1>5, <1>6, RxFrame

\* The level falls only by IsrRead, and outside the routine nothing else matters.
LEMMA HeldFrame ==
  [Next]_vars => \/ IsrRead \/ IsrControl \/ RPublish \/ IsrReadCrossed
                 \/ /\ UNCHANGED <<rx_in, rx_out>>
                    /\ isr' = "rx" => isr = "rx"
                    /\ rxlevel' \in {rxlevel, rxlevel + 1}
                    /\ pause_irq' \in {pause_irq, FALSE, pause_irq \/ rxlevel > 0}
  BY DEF Next, Started, Thread, Isr, Host, vars, tx, rx, wait, locals, irq, device,
       count, Goto, WLook, WCopy, WPublish, WWait, WTest, Mask, Load, Store, RLook,
       RCopy, RPublish, RWait, RTest, CloseEnd, IsrEnter, IsrControl, IsrRead,
       IsrReadFull, IsrReadEmpty, IsrReadCrossed, IsrWrite, IsrWriteEnd, Tick,
       HostTakes, HostTypes, HostPauses, HostLeaves, Write, Read, Close, Ioctl

LEMMA HeldStep == Inv /\ [Next]_vars => HeldOK'
  <1> SUFFICES ASSUME Inv, [Next]_vars PROVE HeldOK'
    OBVIOUS
  <1>0. /\ rx_in \in Slots /\ rx_out \in Slots /\ rxlevel \in 0 .. Depth /\ pause_irq \in BOOLEAN
        /\ pause_irq => rxlevel > 0
        /\ isr = "rx" => rxlevel > 0 \/ rx_in # rx_out
        /\ MaskOK
    BY DEF Inv, TypeOK, HeldOK
  <1>1. CASE IsrRead
    <2>1. 1 \in 0 .. L - 1 BY UartAssumption
    <2>2. (rx_in + 1) % L = IF rx_in + 1 < L THEN rx_in + 1 ELSE rx_in + 1 - L
      BY <1>0, <2>1, Slot
    <2>3. rx_in' # rx_out /\ rx_out' = rx_out /\ pause_irq' = FALSE
      BY <1>1 DEF IsrRead
    <2> QED BY <2>3 DEF HeldOK
  <1>2. CASE IsrControl
    <2>1. isr' = "rx" => rxlevel > 0
      <3>1. RI => rxlevel > 0 BY <1>0, UartAssumption DEF RI
      <3> QED BY <3>1, <1>2 DEF IsrControl
    <2>2. pause_irq' = pause_irq /\ rxlevel' = rxlevel BY <1>2 DEF IsrControl, device
    <2> QED BY <2>1, <2>2, <1>0 DEF HeldOK
  <1>3. CASE RPublish
    <2>1. isr' = "idle" /\ pause_irq' = pause_irq /\ rxlevel' = rxlevel
      BY <1>3 DEF RPublish, Goto, irq, device
    <2> QED BY <2>1, <1>0 DEF HeldOK
  <1>4. CASE IsrReadCrossed BY <1>4 DEF IsrReadCrossed, HeldOK
  <1>5. CASE /\ UNCHANGED <<rx_in, rx_out>>
             /\ isr' = "rx" => isr = "rx"
             /\ rxlevel' \in {rxlevel, rxlevel + 1}
             /\ pause_irq' \in {pause_irq, FALSE, pause_irq \/ rxlevel > 0}
    <2>1. rxlevel' >= rxlevel BY <1>5, <1>0, UartAssumption
    <2>2. rxlevel > 0 => rxlevel' > 0 BY <2>1, <1>5, <1>0, UartAssumption
    <2>3. pause_irq' => pause_irq \/ rxlevel > 0 BY <1>5
    <2> QED BY <2>2, <2>3, <1>5, <1>0 DEF HeldOK
  <1> QED BY <1>1, <1>2, <1>3, <1>4, <1>5, HeldFrame

LEMMA LostStep == Inv /\ [Next]_vars => NoLostInterrupt'
  <1> SUFFICES ASSUME Inv, [Next]_vars PROVE NoLostInterrupt'
    OBVIOUS
  <1> USE DEF Inv, NoLostInterrupt, CallOK, Writing, Reading, Kicking, tx, rx, locals, Goto
  <1>1. CASE WLook BY <1>1 DEF WLook
  <1>2. CASE WCopy BY <1>2 DEF WCopy
  <1>3. CASE WPublish BY <1>3 DEF WPublish
  <1>4. CASE WWait \/ WTest BY <1>4 DEF WWait, WTest
  <1>5. CASE Mask BY <1>5 DEF Mask
  <1>6. CASE Load BY <1>6 DEF Load
  <1>7. CASE Store BY <1>7 DEF Store, Bit, MaskOK
  <1>8. CASE RLook BY <1>8 DEF RLook
  <1>9. CASE RCopy BY <1>9 DEF RCopy
  <1>10. CASE RPublish BY <1>10 DEF RPublish, TypeOK, RxOK
  <1>11. CASE RWait \/ RTest BY <1>11 DEF RWait, RTest
  <1>12. CASE CloseEnd BY <1>12 DEF CloseEnd
  <1>13. CASE IsrEnter BY <1>13 DEF IsrEnter
  <1>14. CASE IsrControl BY <1>14 DEF IsrControl
  <1>15. CASE IsrRead
    <2>1. rx_in \in Slots /\ 1 \in 0 .. L - 1 BY UartAssumption DEF TypeOK
    <2>2. (rx_in + 1) % L # rx_out BY <1>15 DEF IsrRead
    <2> QED BY <1>15, <2>2 DEF IsrRead
  <1>16. CASE IsrReadFull
    <2>1. rx_in \in Slots /\ 1 \in 0 .. L - 1 BY UartAssumption DEF TypeOK
    <2>2. (rx_in + 1) % L = IF rx_in + 1 < L THEN rx_in + 1 ELSE rx_in + 1 - L BY <2>1, Slot
    <2>3. rx_in # rx_out BY <1>16, <2>1, <2>2, UartAssumption DEF IsrReadFull, Slots
    <2> QED BY <1>16, <2>3 DEF IsrReadFull
  <1>17. CASE IsrWrite BY <1>17 DEF IsrWrite
  <1>18. CASE IsrWriteEnd BY <1>18 DEF IsrWriteEnd
  <1>19. CASE Tick BY <1>19 DEF Tick
  <1>20. CASE HostTakes BY <1>20 DEF HostTakes
  <1>21. CASE HostTypes BY <1>21 DEF HostTypes
  <1>22. CASE HostPauses BY <1>22 DEF HostPauses
  <1>23. CASE HostLeaves BY <1>23 DEF HostLeaves
  <1>24. ASSUME NEW k \in 1 .. 2 * L, NEW nb \in BOOLEAN, Write(k, nb) PROVE NoLostInterrupt'
    BY <1>24 DEF Write
  <1>25. ASSUME NEW k \in 1 .. 2 * L, NEW nb \in BOOLEAN, Read(k, nb) PROVE NoLostInterrupt'
    BY <1>25 DEF Read
  <1>26. ASSUME NEW nb \in BOOLEAN, Close(nb) PROVE NoLostInterrupt'
    BY <1>26 DEF Close
  <1>27. ASSUME NEW t \in 1 .. INT_MAX, Ioctl(t) PROVE NoLostInterrupt'
    BY <1>27 DEF Ioctl
  <1>28. CASE UNCHANGED vars BY <1>28 DEF vars
  <1>29. CASE IsrReadEmpty BY <1>29 DEF IsrReadEmpty
  <1>30. CASE IsrReadCrossed BY <1>30, UartAssumption DEF IsrReadCrossed, HeldOK, TypeOK
  <1> QED
    BY <1>1, <1>2, <1>3, <1>4, <1>5, <1>6, <1>7, <1>8, <1>9, <1>10, <1>11, <1>12, <1>13,
       <1>14, <1>15, <1>16, <1>17, <1>18, <1>19, <1>20, <1>21, <1>22, <1>23, <1>24, <1>25,
       <1>26, <1>27, <1>28, <1>29, <1>30
    DEF Next, Started, Thread, Isr, Host

LEMMA Base == Init => Inv
  <1> SUFFICES ASSUME Init PROVE Inv
    OBVIOUS
  <1> USE UartAssumption
  <1>1. TypeOK
    <2>1. timeout \in 2 .. INT_MAX /\ host_inactive \in 0 .. INT_MAX - 2 BY DEF Init
    <2>2. tx_buf \in [Slots -> Nat] /\ rx_buf \in [Slots -> Nat] BY DEF Init
    <2>3. irq_enable \subseteq {"RE", "WE"} /\ loaded \subseteq {"RE", "WE"} BY DEF Init
    <2>4. /\ tx_in \in Slots /\ tx_out \in Slots /\ rx_in \in Slots /\ rx_out \in Slots
          /\ in \in Slots /\ out \in Slots /\ n \in 0 .. L - 1
          /\ space \in 0 .. Depth /\ txlevel \in 0 .. Depth /\ rxlevel \in 0 .. Depth
      BY DEF Init, Slots
    <2> QED BY <2>1, <2>2, <2>3, <2>4, Zenon DEF Init, TypeOK
  <1>2. MaskOK /\ CallOK /\ HeldOK /\ SpaceOK /\ NoLostInterrupt
    BY DEF Init, MaskOK, HeldOK, CallOK, Writing, Reading, Kicking, SpaceOK, NoLostInterrupt
  <1>3. Used(0, 0) = 0 BY DEF Used
  <1>4. TxOK BY <1>3 DEF Init, TxOK
  <1>5. RxOK BY <1>3 DEF Init, RxOK, RxStart
  <1> QED BY <1>1, <1>2, <1>4, <1>5 DEF Inv

LEMMA Step == Inv /\ [Next]_vars => Inv'
  <1>1. Inv => TypeOK /\ MaskOK /\ CallOK /\ RxOK /\ SpaceOK BY DEF Inv
  <1> QED BY <1>1, TypeStep, MaskStep, CallStep, TxStep, RxStep, HeldStep, SpaceType, LostStep DEF Inv

\* The invariant of the driver.
THEOREM Inductive == Spec => []Inv
  BY Base, Step, PTL DEF Spec

\* Types: the indices stay inside the rings and the FIFOs inside their depth.
THEOREM TypeCorrect == Spec => []TypeOK
  <1>1. Inv => TypeOK BY DEF Inv
  <1> QED BY <1>1, Inductive, PTL

\* The interrupt of a direction is never off while there is work for it that
\* no call is about to announce.
THEOREM InterruptKept == Spec => []NoLostInterrupt
  <1>1. Inv => NoLostInterrupt BY DEF Inv
  <1> QED BY <1>1, Inductive, PTL

\* The interrupt routine never overfills the device's FIFO.
THEOREM FifoNeverOverrun == Spec => []FifoFits
  <1>1. Inv => FifoFits BY UartAssumption DEF Inv, TypeOK, SpaceOK, FifoFits
  <1> QED BY <1>1, Inductive, PTL

-----------------------------------------------------------------------------
\* The rings implement CharPipe.  The pipe of a direction is a run of
\* consecutive numbers.
Run(a, m) == [k \in 1 .. m |-> a + k]

LEMMA RunSeq == ASSUME NEW a \in Nat, NEW m \in Nat
                PROVE  Run(a, m) \in Seq(Nat) /\ Len(Run(a, m)) = m
  <1>1. \A k \in 1 .. m : a + k \in Nat OBVIOUS
  <1>2. Run(a, m) \in [1 .. m -> Nat] BY <1>1 DEF Run
  <1>3. Run(a, m) \in Seq(Nat) BY <1>2
  <1> QED BY <1>2, <1>3 DEF Run

LEMMA RunAppend == ASSUME NEW a \in Nat, NEW m \in Nat, NEW j \in Nat
                   PROVE  Run(a, m) \o Run(a + m, j) = Run(a, m + j)
  <1> DEFINE s == Run(a, m)
             t == Run(a + m, j)
  <1>0. a + m \in Nat OBVIOUS
  <1>1. s \in Seq(Nat) /\ Len(s) = m BY RunSeq
  <1>3. t \in Seq(Nat) /\ Len(t) = j BY <1>0, RunSeq
  <1>4. m + j \in Nat /\ Run(a, m + j) \in Seq(Nat) /\ Len(Run(a, m + j)) = m + j BY RunSeq
  <1>5. \A k \in 1 .. m : s[k] = a + k BY DEF Run
  <1>6. \A k \in 1 .. j : t[k] = (a + m) + k BY DEF Run
  <1>7. \A k \in 1 .. m + j : Run(a, m + j)[k] = a + k BY DEF Run
  <1> HIDE DEF s, t
  <1>8. /\ s \o t \in Seq(Nat) /\ Len(s \o t) = m + j
        /\ \A k \in 1 .. m + j : (s \o t)[k] = IF k <= m THEN s[k] ELSE t[k - m]
    BY <1>1, <1>3, ConcatProperties
  <1>9. \A k \in 1 .. m + j : (s \o t)[k] = a + k BY <1>5, <1>6, <1>8
  <1>10. s \o t = Run(a, m + j) BY <1>4, <1>7, <1>8, <1>9, SeqEqual
  <1> QED BY <1>10 DEF s, t

LEMMA RunDrop == ASSUME NEW a \in Nat, NEW m \in Nat, NEW j \in 1 .. m
                 PROVE  SubSeq(Run(a, m), j + 1, Len(Run(a, m))) = Run(a + j, m - j)
  <1> DEFINE s == Run(a, m)
  <1>1. s \in Seq(Nat) /\ Len(s) = m BY RunSeq
  <1>2. \A k \in 1 .. m : s[k] = a + k BY DEF Run
  <1>3. /\ m - j \in Nat /\ a + j \in Nat
        /\ Run(a + j, m - j) \in Seq(Nat) /\ Len(Run(a + j, m - j)) = m - j
    <2>1. m - j \in Nat /\ a + j \in Nat OBVIOUS
    <2> QED BY <2>1, RunSeq
  <1>4. \A k \in 1 .. m - j : Run(a + j, m - j)[k] = (a + j) + k BY DEF Run
  <1> HIDE DEF s
  <1> DEFINE t == SubSeq(s, j + 1, m)
  <1>5. /\ t \in Seq(Nat) /\ Len(t) = m - j
        /\ \A k \in 1 .. m - j : t[k] = s[j + k]
    <2>1. \A i \in j + 1 .. m : s[i] \in Nat BY <1>2
    <2>2. m - (j + 1) + 1 = m - j /\ \A k \in 1 .. m - j : j + 1 + k - 1 = j + k OBVIOUS
    <2>3. j + 1 \in Int /\ m \in Int OBVIOUS
    <2>4. /\ t \in Seq(Nat) /\ Len(t) = IF j + 1 <= m THEN m - (j + 1) + 1 ELSE 0
          /\ \A k \in 1 .. m - (j + 1) + 1 : t[k] = s[j + 1 + k - 1]
      BY <2>1, <2>3, SubSeqProperties
    <2> HIDE DEF t
    <2> QED BY <2>2, <2>4
  <1>6. \A k \in 1 .. m - j : t[k] = (a + j) + k BY <1>2, <1>5
  <1> HIDE DEF t
  <1>7. t = Run(a + j, m - j) BY <1>3, <1>4, <1>5, <1>6, SeqEqual
  <1> QED BY <1>1, <1>7 DEF s, t

TxRun == /\ TxPipe = Run(fed, put - fed)
         /\ put - fed \in 0 .. L - 1 /\ put \in Nat /\ fed \in Nat

LEMMA TxIsRun == Inv => TxRun
  <1> SUFFICES ASSUME Inv PROVE TxRun
    OBVIOUS
  <1>1. /\ Used(tx_out, tx_in) \in 0 .. L - 1 /\ put = fed + Used(tx_out, tx_in)
        /\ put \in Nat /\ fed \in Nat
    BY UsedBound DEF Inv, TypeOK, TxOK
  <1>2. Used(tx_out, tx_in) = put - fed BY <1>1
  <1>3. \A k \in 1 .. Used(tx_out, tx_in) : tx_buf[(tx_out + k - 1) % L] = fed + k BY DEF Inv, TxOK
  <1> QED BY <1>1, <1>2, <1>3 DEF TxRun, TxPipe, Contents, Run

RxRun == /\ RxPipe = Run(got, (typed - rxlevel) - got)
         /\ (typed - rxlevel) - got \in 0 .. L - 1
         /\ typed - rxlevel \in Nat /\ got \in Nat

LEMMA RxIsRun == Inv => RxRun
  <1> SUFFICES ASSUME Inv PROVE RxRun
    OBVIOUS
  <1> DEFINE u == Used(RxStart, rx_in)
  <1>0. RxStart \in Slots
    <2>1. (out + n) % L \in Slots
      <3>1. out + n \in Nat BY UartAssumption DEF Inv, TypeOK, Slots
      <3> QED BY <3>1, UartAssumption DEF Slots
    <2> QED BY <2>1 DEF Inv, TypeOK, RxStart
  <1>1. /\ u \in 0 .. L - 1 /\ typed - rxlevel = got + u /\ rxlevel <= typed
        /\ typed \in Nat /\ rxlevel \in Nat /\ got \in Nat
    BY <1>0, UsedBound, UartAssumption DEF Inv, TypeOK, RxOK
  <1>2. u = (typed - rxlevel) - got BY <1>1
  <1>3. \A k \in 1 .. u : rx_buf[(RxStart + k - 1) % L] = got + k BY DEF Inv, RxOK
  <1> QED BY <1>1, <1>2, <1>3 DEF RxRun, RxPipe, Contents, Run

LEMMA ToHostInit == Init => ToHost!Init
  <1> SUFFICES ASSUME Init PROVE ToHost!Init
    OBVIOUS
  <1>1. Used(tx_out, tx_in) = 0 BY DEF Init, Used
  <1>2. TxPipe = <<>> BY <1>1 DEF TxPipe, Contents
  <1> QED BY <1>2 DEF Init, ToHost!Init

LEMMA ToHostStep == Inv /\ Inv' /\ [Next]_vars => [ToHost!Next]_(ToHost!pvars)
  <1> SUFFICES ASSUME Inv, Inv', [Next]_vars PROVE [ToHost!Next]_(ToHost!pvars)
    OBVIOUS
  <1>1. /\ TxPipe = Run(fed, put - fed) /\ put - fed \in 0 .. L - 1 /\ put \in Nat /\ fed \in Nat
        /\ TxPipe' = Run(fed', put' - fed') /\ put' - fed' \in 0 .. L - 1
    <2>1. TxRun BY TxIsRun
    <2>2. TxRun' BY TxIsRun, PTL
    <2> QED BY <2>1, <2>2 DEF TxRun
  <1>2. Len(TxPipe) = put - fed
    <2>1. put - fed \in Nat BY <1>1
    <2> QED BY <2>1, <1>1, RunSeq
  <1>3. CASE WPublish
    <2>1. put' = put + n /\ fed' = fed /\ n \in 1 .. L - 1 /\ n \in Nat
      BY <1>3, UartAssumption DEF Inv, TypeOK, TxOK, WPublish, Goto
    <2>2. fed + (put - fed) = put /\ put - fed \in Nat /\ (put - fed) + n = put' - fed'
      BY <2>1, <1>1
    <2>3. TxPipe \o [i \in 1 .. n |-> put + i] = TxPipe'
      <3>1. Run(fed, put - fed) \o Run(fed + (put - fed), n) = Run(fed, (put - fed) + n)
        BY <2>1, <2>2, <1>1, RunAppend
      <3>2. TxPipe \o Run(put, n) = TxPipe' BY <3>1, <2>1, <2>2, <1>1
      <3> QED BY <3>2 DEF Run
    <2>4. Len(TxPipe) + n <= L - 1 BY <2>1, <2>2, <1>1, <1>2
    <2>5. ToHost!Put(n) BY <2>1, <2>3, <2>4 DEF ToHost!Put
    <2> QED BY <2>1, <2>5 DEF ToHost!Next
  <1>4. CASE IsrWrite
    <2>1. put' = put /\ fed' = fed + 1
      <3>1. tx_out \in Slots /\ tx_in \in Slots /\ tx_out # tx_in
        BY <1>4 DEF Inv, TypeOK, IsrWrite
      <3>2. 1 \in 1 .. Used(tx_out, tx_in) BY <3>1, UsedBound, UartAssumption
      <3>3. tx_buf[(tx_out + 1 - 1) % L] = fed + 1 BY <3>2 DEF Inv, TxOK
      <3>4. (tx_out + 1 - 1) % L = tx_out BY <3>1, ModSmall DEF Slots
      <3> QED BY <3>3, <3>4, <1>4 DEF IsrWrite
    <2>2. 1 \in 1 .. put - fed /\ put - fed \in Nat /\ (put - fed) - 1 = put' - fed'
      BY <2>1, <1>1
    <2>3. SubSeq(TxPipe, 1 + 1, Len(TxPipe)) = TxPipe' BY <2>1, <2>2, <1>1, RunDrop
    <2>4. TxPipe[1] = fed + 1 BY <2>2, <1>1 DEF Run
    <2>5. ToHost!Take(1) BY <2>1, <2>2, <2>3, <2>4, <1>2 DEF ToHost!Take
    <2>6. 1 \in 1 .. L - 1 BY UartAssumption
    <2> QED BY <2>5, <2>6 DEF ToHost!Next
  <1>5. CASE UNCHANGED <<put, fed>> BY <1>5, <1>1 DEF ToHost!pvars
  <1>6. CASE WLook BY <1>6, <1>5 DEF WLook, count
  <1>7. CASE WCopy BY <1>7, <1>5 DEF WCopy, count
  <1> QED BY <1>3, <1>4, <1>5, <1>6, <1>7, TxFrame

\* printf's characters reach the host in order, once each: the transmit ring
\* with the write call and the interrupt routine implements CharPipe.
THEOREM OutInOrder == Spec => InOrderOut
  <1> DEFINE I == Inv
  <1>1. Spec => Init /\ [][Next]_vars /\ []I BY Inductive, PTL DEF Spec
  <1>2. Init => ToHost!Init BY ToHostInit
  <1>3. I /\ I' /\ [Next]_vars => [ToHost!Next]_(ToHost!pvars) BY ToHostStep
  <1> QED BY <1>1, <1>2, <1>3, PTL DEF InOrderOut, ToHost!Spec

LEMMA FromHostInit == Init => FromHost!Init
  <1> SUFFICES ASSUME Init PROVE FromHost!Init
    OBVIOUS
  <1>1. Used(RxStart, rx_in) = 0 BY DEF Init, Used, RxStart
  <1>2. RxPipe = <<>> BY <1>1 DEF RxPipe, Contents
  <1> QED BY <1>2 DEF Init, FromHost!Init

LEMMA FromHostStep == Inv /\ Inv' /\ [Next]_vars => [FromHost!Next]_(FromHost!pvars)
  <1> SUFFICES ASSUME Inv, Inv', [Next]_vars PROVE [FromHost!Next]_(FromHost!pvars)
    OBVIOUS
  <1> DEFINE came == typed - rxlevel
  <1>1. /\ RxPipe = Run(got, came - got) /\ came - got \in 0 .. L - 1 /\ came \in Nat /\ got \in Nat
        /\ RxPipe' = Run(got', came' - got') /\ came' - got' \in 0 .. L - 1
    <2>1. RxRun BY RxIsRun
    <2>2. RxRun' BY RxIsRun, PTL
    <2> QED BY <2>1, <2>2 DEF RxRun
  <1>2. Len(RxPipe) = came - got
    <2>1. came - got \in Nat BY <1>1
    <2> QED BY <2>1, <1>1, RunSeq
  <1>3. CASE IsrRead
    <2>1. came' = came + 1 /\ got' = got
      BY <1>3 DEF Inv, TypeOK, IsrRead, count
    <2> HIDE DEF came
    <2>2. 1 \in Nat /\ got + (came - got) = came /\ came - got \in Nat
          /\ (came - got) + 1 = came' - got'
      BY <2>1, <1>1
    <2>3. RxPipe \o [i \in 1 .. 1 |-> came + i] = RxPipe'
      <3>1. Run(got, came - got) \o Run(got + (came - got), 1) = Run(got, (came - got) + 1)
        BY <2>1, <2>2, <1>1, RunAppend
      <3>2. RxPipe \o Run(came, 1) = RxPipe' BY <3>1, <2>1, <2>2, <1>1
      <3> QED BY <3>2 DEF Run
    <2>4. Len(RxPipe) + 1 <= L - 1 BY <2>1, <2>2, <1>1, <1>2
    <2>5. FromHost!Put(1) BY <2>1, <2>3, <2>4 DEF FromHost!Put, came
    <2>6. 1 \in 1 .. L - 1 BY UartAssumption
    <2> QED BY <2>5, <2>6 DEF FromHost!Next
  <1>4. CASE RCopy
    <2>1. came' = came /\ at = "r_copy" /\ at' = "r_publish" /\ UNCHANGED <<rx, out, n>>
      BY <1>4 DEF RCopy, Goto, device, locals
    <2>2. out = rx_out /\ n \in 1 .. L - 1 /\ out + n <= L /\ n <= Used(rx_out, rx_in)
      BY <2>1, UartAssumption DEF Inv, TypeOK, RxOK
    <2>3. RxStart = rx_out /\ Used(rx_out, rx_in) \in 0 .. L - 1 /\ rx_out \in Slots
      BY <2>1, UsedBound DEF Inv, TypeOK, RxStart
    <2>4. came = got + Used(rx_out, rx_in) BY <2>3 DEF Inv, RxOK
    <2>5. got' = got + n
      <3>1. n \in 1 .. Used(rx_out, rx_in) BY <2>2, <2>3
      <3>2. rx_buf[(rx_out + n - 1) % L] = got + n BY <3>1, <2>3 DEF Inv, RxOK
      <3>3. rx_out + n - 1 \in 0 .. L - 1 BY <2>2, <2>3, UartAssumption DEF Slots
      <3>4. (rx_out + n - 1) % L = rx_out + n - 1 BY <3>3, ModSmall
      <3> QED BY <3>2, <3>4, <2>2, <1>4 DEF RCopy
    <2> HIDE DEF came
    <2>6. n \in 1 .. came - got /\ came - got \in Nat /\ (came - got) - n = came' - got'
      BY <2>1, <2>2, <2>3, <2>4, <2>5, <1>1
    <2>7. SubSeq(RxPipe, n + 1, Len(RxPipe)) = RxPipe' BY <2>5, <2>6, <1>1, RunDrop
    <2>8. RxPipe[n] = got + n BY <2>6, <1>1 DEF Run
    <2>9. FromHost!Take(n) BY <2>1, <2>5, <2>6, <2>7, <2>8, <1>2 DEF FromHost!Take, came
    <2> QED BY <2>2, <2>9 DEF FromHost!Next
  <1>5. CASE came' = came /\ got' = got BY <1>5, <1>1 DEF FromHost!pvars
  <1>6. CASE RLook BY <1>6, <1>5 DEF RLook, count, device
  <1>7. CASE RPublish BY <1>7, <1>5 DEF RPublish, count, device
  <1>8. CASE HostTypes \/ IsrReadCrossed
    <2>0. /\ rxlevel' = rxlevel + 1 /\ typed' = typed + 1 /\ got' = got
          /\ typed \in Nat /\ rxlevel \in Nat
      BY <1>8, UartAssumption DEF Inv, TypeOK, HostTypes, IsrReadCrossed
    <2>1. came' = came /\ got' = got BY <2>0
    <2> QED BY <2>1, <1>5
  <1> QED BY <1>3, <1>4, <1>5, <1>6, <1>7, <1>8, RxFrame

\* What is typed reaches read in order, once each: the receive ring with the
\* read call and the interrupt routine implements CharPipe.
THEOREM InInOrder == Spec => InOrderIn
  <1> DEFINE I == Inv
  <1>1. Spec => Init /\ [][Next]_vars /\ []I BY Inductive, PTL DEF Spec
  <1>2. Init => FromHost!Init BY FromHostInit
  <1>3. I /\ I' /\ [Next]_vars => [FromHost!Next]_(FromHost!pvars) BY FromHostStep
  <1> QED BY <1>1, <1>2, <1>3, PTL DEF InOrderIn, FromHost!Spec
=============================================================================
