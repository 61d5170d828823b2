------------------------------ MODULE JtagUart ------------------------------
(***************************************************************************)
(* The driver of the JTAG serial line, over which printf reaches a         *)
(* terminal on the host: altera_avalon_jtag_uart_write, _read, _ioctl and  *)
(* _close, called by the one thread of the program, and the interrupt      *)
(* routine and the timeout alarm, which share two rings and the interrupt  *)
(* enable word with it; and the device of fake_mario_jtag_uart_0.v, whose  *)
(* receive interrupt waits for a nearly full FIFO or a pause of the host.  *)
(*                                                                         *)
(* A character is its number in its direction, so a lost, repeated or      *)
(* overtaking one shows.  While the interrupt routine or the alarm runs    *)
(* the thread does not; the device and the host go on.                     *)
(***************************************************************************)
EXTENDS Integers, Sequences, FiniteSets

CONSTANTS
  L,          \* ALTERA_AVALON_JTAG_UART_BUF_LEN, 2048
  Depth,      \* JTAG_UART_0_READ_DEPTH and _WRITE_DEPTH, 64
  Threshold,  \* the 8 of fifo_AE and fifo_AF
  Clock,      \* TRUE: there is a system clock, so alt_alarm_start succeeds
  Timeout,    \* ALTERA_AVALON_JTAG_UART_DEFAULT_TIMEOUT, 10
  INT_MAX,    \* the code's INT_MAX
  Unplug,     \* TRUE: the host may go away, and come back once
  OutMax, InMax, \* bounds: characters written, and typed at the host
  Calls       \* the calls the program makes

ASSUME UartAssumption ==
  /\ L \in Nat /\ L > 1
  /\ Depth \in Nat /\ Depth > 0
  /\ Threshold \in 0 .. Depth - 1
  /\ Timeout \in Nat /\ Timeout >= 2 /\ INT_MAX \in Nat /\ INT_MAX > Timeout
  /\ {Clock, Unplug} \subseteq BOOLEAN
  /\ OutMax \in Nat /\ InMax \in Nat
  /\ Calls \subseteq {"write", "read", "close", "ioctl"}

Slots == 0 .. L - 1

VARIABLES
  tx_in, tx_out, tx_buf,   \* the transmit ring
  rx_in, rx_out, rx_buf,   \* the receive ring
  irq_enable,              \* the bits RE and WE, also in the device's control register
  host_inactive, timeout,
  at, call, nonblock,      \* where the thread is, in which call, with O_NONBLOCK or not
  left, moved,             \* count or space, and ptr - start
  in, out, n, loaded,      \* locals; loaded is the word of a read-modify-write
  pie,                     \* the processor takes interrupts
  isr, space, avail, wi,   \* the interrupt routine and its locals
  txlevel, rxlevel, pause_irq, active, host, \* FIFO levels, pause_irq, ac; the host
  put, fed, typed, got     \* history: characters published, given to the device,
                           \* typed at the host, returned by read

tx     == <<tx_in, tx_out, tx_buf>>
rx     == <<rx_in, rx_out, rx_buf>>
locals == <<call, nonblock, left, moved, in, out, n, loaded>>
irq    == <<isr, space, avail, wi>>
wait   == <<host_inactive, timeout>>
device == <<txlevel, rxlevel, pause_irq, active, host>>
count  == <<put, fed, typed, got>>
vars   == <<tx, rx, irq_enable, wait, at, locals, pie, irq, device, count>>

\* altera_avalon_jtag_uart_init: receive interrupts are on, and without a
\* clock the timeout is never reached.
Init ==
  /\ tx_in = 0 /\ tx_out = 0 /\ tx_buf = [s \in Slots |-> 0]
  /\ rx_in = 0 /\ rx_out = 0 /\ rx_buf = [s \in Slots |-> 0]
  /\ irq_enable = {"RE"}
  /\ host_inactive = 0
  /\ timeout = IF Clock THEN Timeout ELSE INT_MAX
  /\ at = "idle" /\ call = "none" /\ nonblock = FALSE
  /\ left = 0 /\ moved = 0 /\ in = 0 /\ out = 0 /\ n = 0 /\ loaded = {}
  /\ pie = TRUE
  /\ isr = "idle" /\ space = 0 /\ avail = FALSE /\ wi = FALSE
  /\ txlevel = 0 /\ rxlevel = 0 /\ pause_irq = FALSE /\ active = FALSE /\ host = "here"
  /\ put = 0 /\ fed = 0 /\ typed = 0 /\ got = 0

Least(a, b) == IF a < b THEN a ELSE b

\* Slip: the slot before tx_out is filled too, and a full ring looks empty.
FreeRun_all(i, o) ==
  IF i < o THEN o - i ELSE L - i

\* The run of free slots from tx_in on, and of received characters from
\* rx_out on, that does not wrap.
FreeRun(i, o) ==
  IF i < o THEN o - 1 - i ELSE IF o > 0 THEN L - i ELSE L - 1 - i
HeldRun(i, o) == IF i >= o THEN i - o ELSE L - o

Goto(from, to) ==
  /\ isr = "idle" /\ at = from /\ at' = to

-----------------------------------------------------------------------------
\* The calls.

Write(k, nb) ==
  /\ "write" \in Calls /\ put + k <= OutMax
  /\ Goto("idle", "w_look")
  /\ call' = "write" /\ nonblock' = nb /\ left' = k /\ moved' = 0
  /\ UNCHANGED <<tx, rx, irq_enable, wait, in, out, n, loaded, pie, irq, device, count>>

\* in and out are read; with no room left the interrupt is kicked.
WLook ==
  /\ Goto("w_look", IF left = 0 \/ FreeRun(tx_in, tx_out) = 0 THEN "mask" ELSE "w_copy")
  /\ in' = tx_in /\ out' = tx_out
  /\ n' = Least(FreeRun(tx_in, tx_out), left)
  /\ UNCHANGED <<tx, rx, irq_enable, wait, call, nonblock, left, moved, loaded, pie, irq, device, count>>

WCopy ==
  /\ Goto("w_copy", "w_publish")
  /\ tx_buf' = [s \in Slots |-> IF s \in in .. in + n - 1 THEN put + 1 + (s - in) ELSE tx_buf[s]]
  /\ UNCHANGED <<tx_in, tx_out, rx, irq_enable, wait, locals, pie, irq, device, count>>

WPublish ==
  /\ Goto("w_publish", "w_look")
  /\ tx_in' = (in + n) % L
  /\ put' = put + n
  /\ left' = left - n /\ moved' = moved + n
  /\ UNCHANGED <<tx_out, tx_buf, rx, irq_enable, wait, call, nonblock, in, out, n, loaded, pie, irq, device, fed, typed, got>>

\* alt_irq_disable_all, the read-modify-write of the enable word with its
\* copy into the device, alt_irq_enable_all.
Bit == IF call = "write" THEN "WE" ELSE "RE"

Mask ==
  /\ Goto("mask", "load")
  /\ pie' = FALSE
  /\ UNCHANGED <<tx, rx, irq_enable, wait, locals, irq, device, count>>

Load ==
  /\ Goto("load", "store")
  /\ loaded' = irq_enable
  /\ UNCHANGED <<tx, rx, irq_enable, wait, call, nonblock, left, moved, in, out, n, pie, irq, device, count>>

\* Slip: the word is set, not or-ed.
Store_set ==
  /\ Goto("store", IF call = "write" /\ left > 0 /\ ~nonblock THEN "w_wait" ELSE "idle")
  /\ irq_enable' = {Bit}
  /\ pie' = TRUE
  /\ UNCHANGED <<tx, rx, wait, locals, irq, device, count>>

\* A write that has characters left waits, unless it must not.
Store ==
  /\ Goto("store", IF call = "write" /\ left > 0 /\ ~nonblock THEN "w_wait" ELSE "idle")
  /\ irq_enable' = loaded \cup {Bit}
  /\ pie' = TRUE
  /\ UNCHANGED <<tx, rx, wait, locals, irq, device, count>>

\* Slip: only room ends the loop.
WWait_patient ==
  /\ out # tx_out
  /\ Goto("w_wait", "w_test")
  /\ UNCHANGED <<tx, rx, irq_enable, wait, locals, pie, irq, device, count>>

\* The loop on tx_out ends with room or without a host.
WWait ==
  /\ out # tx_out \/ host_inactive >= timeout
  /\ Goto("w_wait", "w_test")
  /\ UNCHANGED <<tx, rx, irq_enable, wait, locals, pie, irq, device, count>>

\* The second look: a host that has been away for a tick, and is not back by
\* now, ends the call.
WTest ==
  /\ Goto("w_test", IF host_inactive > 0 THEN "idle" ELSE "w_look")
  /\ UNCHANGED <<tx, rx, irq_enable, wait, locals, pie, irq, device, count>>

Read(k, nb) ==
  /\ "read" \in Calls
  /\ Goto("idle", "r_look")
  /\ call' = "read" /\ nonblock' = nb /\ left' = k /\ moved' = 0
  /\ UNCHANGED <<tx, rx, irq_enable, wait, in, out, n, loaded, pie, irq, device, count>>

\* Slip: a read that has read something does not enable receiving.
RLook_silent ==
  /\ Goto("r_look",
          IF left > 0 /\ HeldRun(rx_in, rx_out) > 0 THEN "r_copy"
          ELSE IF moved > 0 \/ nonblock THEN "idle" ELSE "r_wait")
  /\ in' = rx_in /\ out' = rx_out
  /\ n' = Least(HeldRun(rx_in, rx_out), left)
  /\ UNCHANGED <<tx, rx, irq_enable, wait, call, nonblock, left, moved, loaded, pie, irq, device, count>>

\* After the last copy, or with nothing to copy, the call ends if it has
\* read anything, and enables receiving.
RLook ==
  /\ Goto("r_look",
          IF left > 0 /\ HeldRun(rx_in, rx_out) > 0 THEN "r_copy"
          ELSE IF moved > 0 THEN "mask"
          ELSE IF nonblock THEN "idle" ELSE "r_wait")
  /\ in' = rx_in /\ out' = rx_out
  /\ n' = Least(HeldRun(rx_in, rx_out), left)
  /\ UNCHANGED <<tx, rx, irq_enable, wait, call, nonblock, left, moved, loaded, pie, irq, device, count>>

RCopy ==
  /\ Goto("r_copy", "r_publish")
  /\ got' = rx_buf[out + n - 1]
  /\ UNCHANGED <<tx, rx, irq_enable, wait, locals, pie, irq, device, put, fed, typed>>

RPublish ==
  /\ Goto("r_publish", "r_look")
  /\ rx_out' = (out + n) % L
  /\ left' = left - n /\ moved' = moved + n
  /\ UNCHANGED <<tx, rx_in, rx_buf, irq_enable, wait, call, nonblock, in, out, n, loaded, pie, irq, device, count>>

RWait ==
  /\ in # rx_in \/ host_inactive >= timeout
  /\ Goto("r_wait", "r_test")
  /\ UNCHANGED <<tx, rx, irq_enable, wait, locals, pie, irq, device, count>>

RTest ==
  /\ Goto("r_test", IF in = rx_in THEN "idle" ELSE "r_look")
  /\ UNCHANGED <<tx, rx, irq_enable, wait, locals, pie, irq, device, count>>

Close(nb) ==
  /\ "close" \in Calls
  /\ Goto("idle", IF tx_out # tx_in /\ host_inactive < timeout /\ ~nb THEN "close" ELSE "idle")
  /\ call' = "close" /\ nonblock' = nb
  /\ UNCHANGED <<tx, rx, irq_enable, wait, left, moved, in, out, n, loaded, pie, irq, device, count>>

CloseEnd ==
  /\ tx_out = tx_in \/ host_inactive >= timeout
  /\ Goto("close", "idle")
  /\ UNCHANGED <<tx, rx, irq_enable, wait, locals, pie, irq, device, count>>

\* TIOCSTIMEOUT; TIOCGCONNECTED changes nothing here.
Ioctl(t) ==
  /\ "ioctl" \in Calls /\ timeout # INT_MAX
  /\ Goto("idle", "idle")
  /\ timeout' = IF t >= 2 /\ t < INT_MAX THEN t ELSE INT_MAX - 1
  /\ UNCHANGED <<tx, rx, irq_enable, host_inactive, locals, pie, irq, device, count>>

-----------------------------------------------------------------------------
\* altera_avalon_jtag_uart_irq.

\* ipen_AF and ipen_AE.
RI == "RE" \in irq_enable /\ (pause_irq \/ Depth - rxlevel <= Threshold)
WI == "WE" \in irq_enable /\ txlevel <= Threshold

IsrEnter ==
  /\ isr = "idle" /\ pie /\ (RI \/ WI)
  /\ isr' = "control"
  /\ UNCHANGED <<tx, rx, irq_enable, wait, at, locals, pie, space, avail, wi, device, count>>

\* Slip: the room is taken to be the whole FIFO.
IsrControl_empty ==
  /\ isr = "control"
  /\ isr' = IF RI THEN "rx" ELSE IF WI THEN "tx" ELSE "idle"
  /\ wi' = WI /\ space' = Depth /\ avail' = TRUE
  /\ UNCHANGED <<tx, rx, irq_enable, wait, at, locals, pie, device, count>>

IsrControl ==
  /\ isr = "control"
  /\ isr' = IF RI THEN "rx" ELSE IF WI THEN "tx" ELSE "idle"
  /\ wi' = WI /\ space' = Depth - txlevel /\ avail' = TRUE
  /\ UNCHANGED <<tx, rx, irq_enable, wait, at, locals, pie, device, count>>

\* A read of the data register takes pause_irq back.
\* Slip: a full ring is filled on.
IsrRead_full ==
  /\ isr = "rx" /\ rxlevel > 0
  /\ rx_buf' = [rx_buf EXCEPT ![rx_in] = typed - rxlevel + 1]
  /\ rx_in' = (rx_in + 1) % L
  /\ rxlevel' = rxlevel - 1
  /\ avail' = (rxlevel > 1)
  /\ pause_irq' = FALSE
  /\ UNCHANGED <<tx, rx_out, irq_enable, wait, at, locals, pie, isr, space, wi, txlevel, active, host, count>>

IsrRead ==
  /\ isr = "rx" /\ (rx_in + 1) % L # rx_out /\ rxlevel > 0
  /\ rx_buf' = [rx_buf EXCEPT ![rx_in] = typed - rxlevel + 1]
  /\ rx_in' = (rx_in + 1) % L
  /\ rxlevel' = rxlevel - 1
  /\ avail' = (rxlevel > 1)
  /\ pause_irq' = FALSE
  /\ UNCHANGED <<tx, rx_out, irq_enable, wait, at, locals, pie, isr, space, wi, txlevel, active, host, count>>

\* The ring is full, and the last word read tells whether there is more; then
\* receiving is disabled.
IsrReadFull ==
  /\ isr = "rx" /\ (rx_in + 1) % L = rx_out
  /\ irq_enable' = IF avail THEN irq_enable \ {"RE"} ELSE irq_enable
  /\ isr' = IF wi THEN "tx" ELSE "control"
  /\ UNCHANGED <<tx, rx, wait, at, locals, pie, space, avail, wi, device, count>>

\* There was room, but nothing to read.
IsrReadEmpty ==
  /\ isr = "rx" /\ (rx_in + 1) % L # rx_out /\ rxlevel = 0
  /\ isr' = IF wi THEN "tx" ELSE "control"
  /\ avail' = FALSE /\ pause_irq' = FALSE
  /\ UNCHANGED <<tx, rx, irq_enable, wait, at, locals, pie, space, wi, txlevel, rxlevel, active, host, count>>

\* rvalid is of one clock and rfifo_used of the next: a character that arrives
\* between them makes a word without a character and with more to come.
IsrReadCrossed ==
  /\ host # "gone" /\ typed < InMax
  /\ isr = "rx" /\ (rx_in + 1) % L # rx_out /\ rxlevel = 0
  /\ rxlevel' = 1 /\ typed' = typed + 1 /\ active' = TRUE
  /\ irq_enable' = irq_enable \ {"RE"}
  /\ isr' = IF wi THEN "tx" ELSE "control"
  /\ avail' = TRUE /\ pause_irq' = FALSE
  /\ UNCHANGED <<tx, rx, wait, at, locals, pie, space, wi, txlevel, host, put, fed, got>>

IsrWrite ==
  /\ isr = "tx" /\ space > 0 /\ tx_out # tx_in
  /\ fed' = tx_buf[tx_out]
  /\ tx_out' = (tx_out + 1) % L
  /\ space' = space - 1
  /\ txlevel' = txlevel + 1
  /\ UNCHANGED <<tx_in, tx_buf, rx, irq_enable, wait, at, locals, pie, isr, avail, wi, rxlevel, pause_irq, active, host, put, typed, got>>

\* Slip: the interrupt is turned off whenever the loop ends.
IsrWriteEnd_off ==
  /\ isr = "tx" /\ (space = 0 \/ tx_out = tx_in)
  /\ irq_enable' = irq_enable \ {"WE"}
  /\ isr' = "control"
  /\ UNCHANGED <<tx, rx, wait, at, locals, pie, space, avail, wi, device, count>>

\* With room left in the device there was nothing more to send.
IsrWriteEnd ==
  /\ isr = "tx" /\ (space = 0 \/ tx_out = tx_in)
  /\ irq_enable' = IF space > 0 THEN irq_enable \ {"WE"} ELSE irq_enable
  /\ isr' = "control"
  /\ UNCHANGED <<tx, rx, wait, at, locals, pie, space, avail, wi, device, count>>

Isr ==
  \/ IsrEnter \/ IsrControl \/ IsrRead \/ IsrReadFull \/ IsrReadEmpty \/ IsrReadCrossed
  \/ IsrWrite \/ IsrWriteEnd

\* altera_avalon_jtag_uart_timeout, the callback of the alarm.
Tick ==
  /\ Clock /\ pie /\ isr = "idle"
  /\ active' = FALSE
  /\ host_inactive' = IF active THEN 0
                      ELSE IF host_inactive < INT_MAX - 2 THEN host_inactive + 1
                      ELSE host_inactive
  /\ UNCHANGED <<tx, rx, irq_enable, timeout, at, locals, pie, irq, txlevel, rxlevel, pause_irq, host, count>>

-----------------------------------------------------------------------------
\* The device's other side.  What the host sends is activity, what it takes
\* is not.

HostTakes ==
  /\ host # "gone" /\ txlevel > 0
  /\ txlevel' = txlevel - 1
  /\ UNCHANGED <<tx, rx, irq_enable, wait, at, locals, pie, irq, rxlevel, pause_irq, active, host, count>>

HostTypes ==
  /\ host # "gone" /\ typed < InMax /\ rxlevel < Depth
  /\ rxlevel' = rxlevel + 1 /\ typed' = typed + 1 /\ active' = TRUE
  /\ UNCHANGED <<tx, rx, irq_enable, wait, at, locals, pie, irq, txlevel, pause_irq, host, put, fed, got>>

\* t_pause: the host polls, and has nothing to send.
HostPauses ==
  /\ host # "gone"
  /\ active' = TRUE /\ pause_irq' = (pause_irq \/ rxlevel > 0)
  /\ UNCHANGED <<tx, rx, irq_enable, wait, at, locals, pie, irq, txlevel, rxlevel, host, count>>

HostLeaves ==
  /\ Unplug /\ host \in {"here", "gone"}
  /\ host' = IF host = "here" THEN "gone" ELSE "back"
  /\ UNCHANGED <<tx, rx, irq_enable, wait, at, locals, pie, irq, txlevel, rxlevel, pause_irq, active, count>>

-----------------------------------------------------------------------------
Started ==
  \/ \E k \in 1 .. 2 * L, nb \in BOOLEAN : Write(k, nb) \/ Read(k, nb)
  \/ \E nb \in BOOLEAN : Close(nb)
  \/ \E t \in 1 .. INT_MAX : Ioctl(t)

Thread ==
  \/ WLook \/ WCopy \/ WPublish \/ WWait \/ WTest \/ Mask \/ Load \/ Store
  \/ RLook \/ RCopy \/ RPublish \/ RWait \/ RTest \/ CloseEnd

Host == HostTakes \/ HostTypes \/ HostPauses \/ HostLeaves

Next == Started \/ Thread \/ Isr \/ Tick \/ Host

\* The processor runs, a pending interrupt is taken whenever interrupts are
\* back on, the clock ticks, and a terminal that is there reads, and polls
\* over and over.  Nothing makes the program call, or the host type or leave.
Fairness ==
  /\ WF_vars(Thread) /\ WF_vars(Isr) /\ SF_vars(IsrEnter)
  /\ WF_vars(Tick) /\ WF_vars(HostTakes) /\ WF_vars(HostPauses)

Spec == Init /\ [][Next]_vars /\ Fairness

-----------------------------------------------------------------------------
\* The two directions as pipes.  A character that the reader has copied is
\* out of its pipe before rx_out says so.
Used(o, i) == IF i >= o THEN i - o ELSE i - o + L
Contents(buf, o, i) == [k \in 1 .. Used(o, i) |-> buf[(o + k - 1) % L]]

RxStart == IF at = "r_publish" THEN (out + n) % L ELSE rx_out

TxPipe == Contents(tx_buf, tx_out, tx_in)
RxPipe == Contents(rx_buf, RxStart, rx_in)

ToHost   == INSTANCE CharPipe WITH Room <- L - 1, pipe <- TxPipe, put <- put, seen <- fed
FromHost == INSTANCE CharPipe WITH Room <- L - 1, pipe <- RxPipe, put <- typed - rxlevel, seen <- got

TypeOK ==
  /\ tx_in \in Slots /\ tx_out \in Slots /\ rx_in \in Slots /\ rx_out \in Slots
  /\ tx_buf \in [Slots -> Nat] /\ rx_buf \in [Slots -> Nat]
  /\ irq_enable \subseteq {"RE", "WE"} /\ loaded \subseteq {"RE", "WE"}
  /\ host_inactive \in 0 .. INT_MAX - 2 /\ timeout \in 2 .. INT_MAX
  /\ at \in {"idle", "w_look", "w_copy", "w_publish", "w_wait", "w_test", "mask", "load", "store",
             "r_look", "r_copy", "r_publish", "r_wait", "r_test", "close"}
  /\ call \in {"none", "write", "read", "close"}
  /\ isr \in {"idle", "control", "rx", "tx"}
  /\ nonblock \in BOOLEAN /\ pie \in BOOLEAN /\ avail \in BOOLEAN /\ wi \in BOOLEAN
  /\ active \in BOOLEAN /\ pause_irq \in BOOLEAN
  /\ left \in Nat /\ moved \in Nat
  /\ put \in Nat /\ fed \in Nat /\ typed \in Nat /\ got \in Nat
  /\ in \in Slots /\ out \in Slots /\ n \in 0 .. L - 1
  /\ space \in 0 .. Depth /\ txlevel \in 0 .. Depth /\ rxlevel \in 0 .. Depth
  /\ host \in {"here", "gone", "back"}

\* Characters reach the host in the order printf wrote them, none lost in the
\* ring and none sent twice, however the interrupt routine interleaves with
\* altera_avalon_jtag_uart_write.
InOrderOut == ToHost!Spec

\* What is typed reaches read in order, although the ring it fills is emptied
\* by memcpy while the interrupt routine goes on filling it.
InOrderIn == FromHost!Spec

\* The interrupt of a direction is off only while its ring has what makes the
\* next call turn it on, nothing to send or something to read, or while a call
\* is on its way to do so: otherwise the line would stay silent for good.
NoLostInterrupt ==
  /\ "WE" \notin irq_enable =>
       \/ tx_in = tx_out
       \/ call = "write" /\ at \in {"w_look", "w_copy", "w_publish", "mask", "load", "store"}
  /\ "RE" \notin irq_enable =>
       \/ rx_in # rx_out
       \/ call = "read" /\ moved > 0
          /\ at \in {"r_look", "r_copy", "r_publish", "mask", "load", "store"}

\* The device never gets more than its FIFO holds, although the room the
\* interrupt routine counts on was read before the first character it sends.
FifoFits == txlevel + (IF isr = "tx" THEN space ELSE 0) <= Depth

\* What write has accepted is given to the device in the end, unless the
\* host stays away.
AllSent ==
  <>[](host # "gone") => \A k \in 1 .. OutMax : (put >= k) ~> (fed >= k)

\* A write or close comes back: the host reads, or the alarm finds it gone.
CallsEnd == (at # "idle" /\ call \in {"write", "close"}) ~> (at = "idle")

\* A read that waits gets what is typed, however little it is, while the
\* terminal is there: the FIFO is not nearly full, pause_irq was taken back by
\* the last read of the data register, and receiving may have been off.
ReadsEnd ==
  <>[](host # "gone") => ((at = "r_wait" /\ typed > got) ~> (at = "idle"))
=============================================================================
