------------------------------- MODULE Audio -------------------------------
(***************************************************************************)
(* The sound: I2C_Protocol.v, which shifts the words of a table into the   *)
(* audio codec; Audio_Top of Top.v, which chooses the words and then plays *)
(* a ROM; and the codec at both its ports, as far as the two rely on it.   *)
(*                                                                         *)
(* Edge is a rising edge of clk and Bclk one of BCLK, which is far slower. *)
(* What happens at an edge of SCLK or of finish_flag, two registers that   *)
(* are used as clocks, happens in the step that moves them.                *)
(***************************************************************************)
EXTENDS Integers, Sequences

CONSTANTS
  HALF,  \* the last value of the counter with SCLK high (9999 in the code)
  LAST,  \* the value after which it would begin again (19999) ...
  WRAP,  \* ... were it wider: its 14 bits end at 2^14
  LOW,   \* SDIN moves in the high phase when the counter is above this (3000)
  SONG   \* the last address of the ROM (214198)

ASSUME AudioAssumption ==
  /\ {HALF, LAST, WRAP, LOW, SONG} \subseteq Nat \ {0}
  /\ LOW < HALF - 1 /\ HALF + 2 < LAST /\ HALF + 2 < WRAP

VARIABLES
  reset,  \* KEY0 is up
  SW0,
  counter, tick_counter, SCLK, serial_data, start_condition, out, finish_flag, ACK,
  word, MUX_input, counting_state, ignition, read_enable,  \* word: the counter of Audio_Top
  ROM_output_mux_counter, DAC_LR_CLK_counter, DAC_LR_CLK, read_counter, ROM_out,
  codec,  \* its control port: a transfer is open, its bits, the line pulled down
  received,  \* the words that the codec has taken
  torn,      \* KEY0 has torn a bit of them
  dac     \* its sound port: the frame it takes

i2c    == <<counter, tick_counter, SCLK, serial_data, start_condition, out, finish_flag, ACK>>
select == <<word, MUX_input, counting_state, ignition, read_enable>>
sound  == <<ROM_output_mux_counter, DAC_LR_CLK_counter, DAC_LR_CLK, read_counter, dac>>
vars   == <<reset, SW0, i2c, select, sound, ROM_out, codec, received, torn>>

Bit(w, n) == (w \div 2^n) % 2

\* The words by their number: the register's address in 7 bits and 9 bits of data.
Table == [n \in 0 .. 8 |-> << \h1201, \h0460, \h0C00, \h0812, \h0A00,
                              \h102F, \h0E23, \h0660, \h1E00 >>[n + 1]]
DEVICE == \h34

-----------------------------------------------------------------------------
(* The codec's control port.                                               *)

\* The line: driven, or pulled down by the codec, or up.
SDIN == CASE out = 1 -> serial_data
          [] out = 0 /\ codec.pulls -> 0
          [] OTHER -> 1

Closed == [open |-> FALSE, n |-> 0, bits |-> 0, pulls |-> FALSE]

\* Data that moves while SCLK is high starts or ends a transfer.
Conditioned(c, old, new) ==
  CASE old = 1 /\ new = 0 -> [Closed EXCEPT !.open = TRUE]
    [] old = 0 /\ new = 1 -> Closed
    [] OTHER -> c

\* A bit; the ninth of each byte is the codec's own.
Sampled(c, bit) ==
  IF ~c.open \/ c.n = 27 THEN c
  ELSE [c EXCEPT !.n = @ + 1, !.bits = IF c.n % 9 = 8 THEN @ ELSE 2 * @ + bit]

\* SCLK falls: a byte is acknowledged, an unknown device ignored.
Fallen(c) ==
  IF c.open /\ c.n = 8 /\ c.bits # DEVICE THEN Closed
  ELSE [c EXCEPT !.pulls = c.open /\ c.n % 9 = 8]

\* Data that moves together with a rising SCLK may be seen on either side of it.
Heard(old, new) ==
  CASE SCLK = 1 /\ SCLK' = 1 -> {Conditioned(codec, old, new)}
    [] SCLK = 0 /\ SCLK' = 1 -> {Sampled(codec, new),
                                 Conditioned(Sampled(codec, old), old, new)}
    [] SCLK = 1 /\ SCLK' = 0 -> {Fallen(codec)}
    [] OTHER -> {codec}

\* KEY0 raises SCLK at the edge after a fall, at which the next bit comes out:
\* the codec may be clocked with the one before it, or see the data move.
Torn == reset = 0 /\ SCLK = 0 /\ counter = HALF + 2

Codec ==
  /\ torn' = (torn \/ Torn)
  /\ \/ /\ ~torn'
        /\ codec' \in Heard(SDIN, CASE out' = 1 -> serial_data'
                                    [] out' = 0 /\ codec.pulls -> 0
                                    [] OTHER -> 1)
        /\ received' = IF codec'.n = 27 /\ codec.n = 26
                       THEN Append(received, codec'.bits % 2^16) ELSE received
     \/ \* bound: what it makes of the line then is not followed (ACK only lights LEDs)
        /\ torn' /\ codec' = Closed /\ received' = <<>>

-----------------------------------------------------------------------------
(* I2C_Protocol.                                                           *)

ClockGeneration ==
  CASE reset = 0 -> counter' = 0 /\ SCLK' = 1
    [] reset = 1 /\ start_condition = 1 /\ ignition = 1 ->
         /\ counter' = IF counter = LAST THEN 0 ELSE (counter + 1) % WRAP
         /\ SCLK' = IF counter <= HALF THEN 1
                    ELSE IF counter = LAST THEN SCLK
                    ELSE IF tick_counter = 29 THEN 1 ELSE 0
    [] reset = 1 /\ ignition = 0 -> counter' = 0 /\ UNCHANGED SCLK
    [] OTHER -> SCLK' = 1 /\ UNCHANGED counter

Ticks == IF tick_counter = 28 THEN 0 ELSE tick_counter + 1

TickCounter ==
  tick_counter' = IF ~(SCLK = 1 /\ SCLK' = 0) THEN tick_counter
                  ELSE IF reset = 0 THEN 0 ELSE Ticks

AckTick == tick_counter \in {9, 18, 27}

\* A slip: the second byte's bits are one off.
DataBit_off(t) == CASE t \in 1 .. 8 -> Bit(DEVICE, 8 - t)
                    [] t \in 10 .. 17 -> Bit(MUX_input, 25 - t)
                    [] OTHER -> Bit(MUX_input, 27 - t)

\* The bit that a tick pushes: the device's address, MUX_input from its top.
DataBit(t) == CASE t \in 1 .. 8 -> Bit(DEVICE, 8 - t)
                [] t \in 10 .. 17 -> Bit(MUX_input, 25 - t)
                [] OTHER -> Bit(MUX_input, 26 - t)

SerialData ==
  CASE tick_counter = 0 ->
         /\ ACK' = {} /\ finish_flag' = 0 /\ start_condition' = 1
         /\ serial_data' = IF counter > LOW THEN 0 ELSE 1
    [] AckTick ->
         /\ ACK' = IF SDIN = 0 THEN ACK \cup {tick_counter \div 9} ELSE ACK \ {tick_counter \div 9}
         /\ UNCHANGED <<finish_flag, start_condition, serial_data>>
    [] tick_counter = 28 ->
         /\ finish_flag' = 1
         /\ serial_data' = IF counter > LOW /\ SCLK = 1 THEN 1 ELSE 0
         /\ UNCHANGED <<ACK, start_condition>>
    [] OTHER -> serial_data' = DataBit(tick_counter)
                /\ UNCHANGED <<ACK, finish_flag, start_condition>>

I2C_Protocol ==
  /\ ClockGeneration /\ TickCounter /\ SerialData
  /\ out' = IF AckTick THEN 0 ELSE 1

-----------------------------------------------------------------------------
(* Audio_Top.                                                              *)

\* A slip: the count of the words, not of the words that are done.
AllSent_early == word = 7
AllSent == word = 8

Pulses ==
  CASE reset = 0 -> counting_state' = 0 /\ read_enable' = 0 /\ UNCHANGED ignition
    [] reset = 1 /\ counting_state = 0 ->
         /\ ignition' = 1 /\ read_enable' = 0
         /\ counting_state' = IF AllSent THEN 1 ELSE 0
    [] OTHER -> read_enable' = 1 /\ ignition' = 0 /\ UNCHANGED counting_state

Words ==
  /\ MUX_input' = IF SCLK = 0 /\ SCLK' = 1 /\ word \in DOMAIN Table THEN Table[word] ELSE MUX_input
  /\ word' = IF finish_flag = 0 /\ finish_flag' = 1 THEN (word + 1) % 16 ELSE word

Edge ==
  /\ I2C_Protocol /\ Pulses /\ Words /\ Codec
  /\ ROM_out' = IF read_enable = 1 THEN read_counter ELSE ROM_out
  /\ UNCHANGED <<reset, SW0, sound>>

-----------------------------------------------------------------------------
(* The sound.  A word of the ROM is named by its address, a bit of it by   *)
(* the word and its place.                                                 *)

NO_SOUND == -1

DAC_DATA == IF SW0 = 1 THEN <<ROM_out, 15 - ROM_output_mux_counter>> ELSE <<NO_SOUND, 0>>

\* The codec, set to DSP mode by word 6, takes the 32 bits from the first BCLK
\* after DAC_LR_CLK has risen.  clean: KEY0 has stopped none of them; then the
\* bits are kept.  before: the word of the clean frame just before.
Starts == DAC_LR_CLK = 1 /\ dac.lr = 0
Whole  == dac.n = 32
WholeWord == IF Whole /\ dac.clean THEN dac.bits[1][1] ELSE NO_SOUND

Dac ==
  dac' = CASE Starts ->
                [lr |-> 1, n |-> 1, clean |-> read_enable = 1, before |-> WholeWord,
                 bits |-> IF read_enable = 1 THEN <<DAC_DATA>> ELSE <<>>]
           [] ~Starts /\ dac.n \in 1 .. 31 ->
                LET clean == dac.clean /\ read_enable = 1
                IN  [dac EXCEPT !.lr = DAC_LR_CLK, !.n = @ + 1, !.clean = clean,
                                !.bits = IF clean THEN Append(@, DAC_DATA) ELSE <<>>]
           [] OTHER -> [dac EXCEPT !.lr = DAC_LR_CLK, !.n = 0, !.clean = FALSE, !.bits = <<>>]

\* Slips: the pulse a bit too early, and at a count that 5 bits do not reach.
LastBit_early == DAC_LR_CLK_counter = 30
LastBit_32    == DAC_LR_CLK_counter = 32
LastBit == DAC_LR_CLK_counter = 31

Bclk ==
  /\ read_enable = 1 => ROM_out = read_counter  \* clk is far faster than BCLK
  /\ Dac
  /\ IF read_enable = 1
     THEN /\ ROM_output_mux_counter' = (ROM_output_mux_counter + 1) % 16
          /\ DAC_LR_CLK_counter' = (DAC_LR_CLK_counter + 1) % 32
          /\ DAC_LR_CLK' = IF LastBit THEN 1 ELSE 0
     ELSE UNCHANGED <<ROM_output_mux_counter, DAC_LR_CLK_counter, DAC_LR_CLK>>
  /\ read_counter' = IF DAC_LR_CLK = 0 /\ DAC_LR_CLK' = 1 /\ read_enable = 1
                     THEN IF read_counter = SONG THEN 0 ELSE read_counter + 1
                     ELSE read_counter
  /\ UNCHANGED <<reset, SW0, i2c, select, ROM_out, codec, received, torn>>

-----------------------------------------------------------------------------
\* KEY0 is a button that nothing synchronises: it may move before any edge.
Press   == reset = 1 /\ reset' = 0
           /\ UNCHANGED <<SW0, i2c, select, sound, ROM_out, codec, received, torn>>
Release == reset = 0 /\ reset' = 1
           /\ UNCHANGED <<SW0, i2c, select, sound, ROM_out, codec, received, torn>>

\* Every register is 0 when the board is switched on.
Init ==
  /\ reset \in {0, 1} /\ SW0 \in {0, 1}
  /\ counter = 0 /\ tick_counter = 0 /\ SCLK = 0 /\ serial_data = 0
  /\ start_condition = 0 /\ out = 0 /\ finish_flag = 0 /\ ACK = {}
  /\ word = 0 /\ MUX_input = 0 /\ counting_state = 0 /\ ignition = 0 /\ read_enable = 0
  /\ ROM_output_mux_counter = 0 /\ DAC_LR_CLK_counter = 0 /\ DAC_LR_CLK = 0
  /\ read_counter = 0 /\ ROM_out = 0
  /\ codec = Closed /\ received = <<>> /\ torn = FALSE
  /\ dac = [lr |-> 0, n |-> 0, clean |-> FALSE, before |-> NO_SOUND, bits |-> <<>>]

Next == Edge \/ Bclk \/ Press \/ Release

\* Both clocks run.
Spec == Init /\ [][Next]_vars /\ WF_vars(Edge) /\ WF_vars(Bclk)

-----------------------------------------------------------------------------
(* Properties.                                                             *)

\* The codec takes the words of the table in their order, each once and whole,
\* and never the ninth, which would reset it; it takes all eight before the
\* ROM is read.  KEY0 resets the bit clock and not the count of the ticks, and
\* does no harm in the middle of a word, except at the one edge of Torn.
SetUpInOrder ==
  ~torn =>
    /\ Len(received) <= 8 /\ \A n \in 1 .. Len(received) : received[n] = Table[n - 1]
    /\ read_enable = 1 => Len(received) = 8

\* Operating_Sequence.txt, step 5 of programming a register: "initiate a stop
\* condition by pulling SDIN to high while SCLK is high".  When the words are
\* through and the ROM is read, every transfer has been stopped.
Stopped == read_enable = 1 => ~codec.open

\* The music starts: once nobody touches KEY0, frames are heard whole for ever.
MusicPlays == <>[](reset = 1) => []<>(Whole /\ dac.clean)

\* A frame that KEY0 does not stop is one word of the ROM from its top bit,
\* once for the left and once for the right, and frames in a row are words in
\* a row: the four counters that make it are never reset and stay in step.
WordsWhole ==
  Whole /\ dac.clean /\ SW0 = 1 =>
    LET w == WholeWord
    IN  /\ dac.bits = [n \in 1 .. 32 |-> <<w, 15 - ((n - 1) % 16)>>]
        /\ dac.before # NO_SOUND => w = (dac.before + 1) % (SONG + 1)
=============================================================================
