----------------------------- MODULE AudioProofs -----------------------------
(***************************************************************************)
(* Why a frame that KEY0 does not stop is one word of the ROM, and frames  *)
(* in a row words in a row, however long the song is and whatever the      *)
(* buttons and the set-up of the codec do: the four counters of the sound  *)
(* only ever move together, so what they agree on is never lost.           *)
(*                                                                         *)
(* And why the codec is set up with the eight words in their order, each   *)
(* once and whole, as long as KEY0 tears no bit, and for every clock that  *)
(* the divider can make: the ticks count the falls of SCLK and are not     *)
(* reset, and after each the codec has exactly the bits put out.           *)
(***************************************************************************)
EXTENDS Audio, SequenceTheorems, TLAPS

Addresses == 0 .. SONG

NextWord(w) == IF w = SONG THEN 0 ELSE w + 1

\* The bits kept are the first n of word w, for either channel from the top.
BitsOf(w, n) ==
  /\ dac.bits \in Seq(Int \X Int) /\ Len(dac.bits) = n
  /\ \A k \in 1 .. n : dac.bits[k] = <<w, 15 - ((k - 1) % 16)>>

\* The word of the clean frame before, if there was one.
After(w) == dac.before = NO_SOUND \/ (dac.before \in Addresses /\ w = NextWord(dac.before))

\* The bit counter, the frame counter and the pulse of DAC_LR_CLK.
InStep ==
  /\ ROM_output_mux_counter \in 0 .. 15 /\ DAC_LR_CLK_counter \in 0 .. 31
  /\ DAC_LR_CLK \in {0, 1} /\ read_counter \in Addresses
  /\ ROM_output_mux_counter = DAC_LR_CLK_counter % 16
  /\ DAC_LR_CLK = 1 => DAC_LR_CLK_counter = 0

\* In a frame the counter is at the bit that comes next ...
Playing ==
  dac.clean /\ dac.n \in 1 .. 31 =>
    /\ DAC_LR_CLK_counter = dac.n /\ DAC_LR_CLK = 0
    /\ SW0 = 1 => BitsOf(read_counter, dac.n) /\ After(read_counter)

\* ... and after it the pulse of the next one is up.
Played ==
  dac.clean /\ dac.n = 32 =>
    /\ DAC_LR_CLK = 1 /\ dac.lr = 0
    /\ SW0 = 1 => \E w \in Addresses :
                     BitsOf(w, 32) /\ After(w) /\ read_counter = NextWord(w)

Inv ==
  /\ dac = [lr |-> dac.lr, n |-> dac.n, clean |-> dac.clean,
            before |-> dac.before, bits |-> dac.bits]
  /\ dac.n \in 0 .. 32 /\ dac.clean \in BOOLEAN
  /\ InStep /\ Playing /\ Played

-----------------------------------------------------------------------------
\* The first bit kept names the word.
LEMMA FirstBit == ASSUME NEW w, BitsOf(w, 32) PROVE dac.bits[1][1] = w
<1>1. \A k \in 1 .. 32 : dac.bits[k] = <<w, 15 - ((k - 1) % 16)>> BY DEF BitsOf
<1> DEFINE b == dac.bits
<1> HIDE DEF b
<1>2. \A k \in 1 .. 32 : b[k] = <<w, 15 - ((k - 1) % 16)>> BY <1>1 DEF b
<1>3. \A k \in 1 .. 32 : b[k][1] = w BY <1>2
<1>4. 1 \in 1 .. 32 OBVIOUS
<1> QED BY <1>3, <1>4 DEF b

LEMMA Base == Init => Inv
<1> SUFFICES ASSUME Init PROVE Inv OBVIOUS
<1>1. SONG \in Nat BY AudioAssumption
<1>2. dac = [lr |-> 0, n |-> 0, clean |-> FALSE, before |-> NO_SOUND, bits |-> <<>>]
  BY DEF Init
<1>3. dac.lr = 0 /\ dac.n = 0 /\ dac.clean = FALSE BY <1>2
<1>4. InStep BY <1>1 DEF Init, InStep, Addresses
<1> QED BY <1>2, <1>3, <1>4 DEF Inv, Playing, Played

LEMMA QuietStep ==
  ASSUME Inv, Edge \/ Press \/ Release \/ UNCHANGED vars PROVE Inv'
<1>1. UNCHANGED <<SW0, sound>> BY DEF Edge, Press, Release, vars
<1> QED BY <1>1 DEF sound, Inv, InStep, Playing, Played, BitsOf, After

-----------------------------------------------------------------------------
\* The counters at an edge of BCLK.
LEMMA CountersStep ==
  ASSUME InStep, Bclk
  PROVE  /\ InStep'
         /\ SW0' = SW0
         /\ read_enable = 1 =>
              /\ ROM_out = read_counter
              /\ DAC_LR_CLK_counter' = IF DAC_LR_CLK_counter = 31 THEN 0
                                       ELSE DAC_LR_CLK_counter + 1
              /\ DAC_LR_CLK' = IF DAC_LR_CLK_counter = 31 THEN 1 ELSE 0
              /\ read_counter' = IF DAC_LR_CLK_counter = 31 /\ DAC_LR_CLK = 0
                                 THEN NextWord(read_counter) ELSE read_counter
<1>1. SONG \in Nat BY AudioAssumption
<1>2. CASE read_enable = 1
  <2>1. /\ ROM_output_mux_counter' = (ROM_output_mux_counter + 1) % 16
        /\ DAC_LR_CLK_counter' = (DAC_LR_CLK_counter + 1) % 32
        /\ DAC_LR_CLK' = IF DAC_LR_CLK_counter = 31 THEN 1 ELSE 0
        /\ SW0' = SW0 /\ ROM_out = read_counter
    BY <1>2 DEF Bclk, LastBit
  <2>2. read_counter' = IF DAC_LR_CLK_counter = 31 /\ DAC_LR_CLK = 0
                        THEN NextWord(read_counter) ELSE read_counter
    BY <1>2, <2>1 DEF Bclk, NextWord
  <2>3. DAC_LR_CLK_counter' = IF DAC_LR_CLK_counter = 31 THEN 0 ELSE DAC_LR_CLK_counter + 1
    BY <2>1 DEF InStep
  <2>4. ROM_output_mux_counter' = DAC_LR_CLK_counter' % 16
    BY <2>1, <2>3 DEF InStep
  <2>5. read_counter' \in Addresses BY <2>2, <1>1 DEF InStep, Addresses, NextWord
  <2>6. InStep' BY <2>1, <2>3, <2>4, <2>5 DEF InStep
  <2> QED BY <2>1, <2>2, <2>3, <2>6
<1>3. CASE read_enable # 1
  BY <1>3 DEF Bclk, InStep
<1> QED BY <1>2, <1>3

\* A frame begins with the pulse: with the top bit of the word that is up.
LEMMA Begins ==
  ASSUME Inv, Bclk, Starts PROVE Playing' /\ dac'.n = 1
<1>1. dac' = [lr |-> 1, n |-> 1, clean |-> read_enable = 1, before |-> WholeWord,
              bits |-> IF read_enable = 1 THEN <<DAC_DATA>> ELSE <<>>]
  BY DEF Bclk, Dac
<1>2. /\ dac'.n = 1 /\ dac'.before = WholeWord
      /\ dac'.bits = IF read_enable = 1 THEN <<DAC_DATA>> ELSE <<>>
  BY <1>1
<1>3. dac'.clean <=> read_enable = 1 BY <1>1, Zenon
<1> SUFFICES ASSUME dac'.clean
             PROVE  /\ DAC_LR_CLK_counter' = 1 /\ DAC_LR_CLK' = 0
                    /\ SW0' = 1 => BitsOf(read_counter, 1)' /\ After(read_counter)'
  BY <1>2 DEF Playing
<1>4. read_enable = 1 /\ DAC_LR_CLK = 1 BY <1>3 DEF Starts
<1>5. DAC_LR_CLK_counter = 0 /\ ROM_output_mux_counter = 0 /\ InStep BY <1>4 DEF Inv, InStep
<1>6. /\ DAC_LR_CLK_counter' = 1 /\ DAC_LR_CLK' = 0 /\ read_counter' = read_counter
      /\ ROM_out = read_counter /\ SW0' = SW0
  BY <1>4, <1>5, CountersStep
<1>7. ASSUME SW0 = 1 PROVE BitsOf(read_counter, 1)' /\ After(read_counter)'
  <2>1. dac'.bits = <<<<read_counter, 15>>>>
    BY <1>2, <1>4, <1>5, <1>6, <1>7 DEF DAC_DATA
  <2>2. read_counter \in Int BY <1>5 DEF InStep, Addresses
  <2>3. BitsOf(read_counter, 1)'
    <3>1. <<read_counter, 15>> \in Int \X Int BY <2>2
    <3>2. dac'.bits \in Seq(Int \X Int) /\ Len(dac'.bits) = 1 BY <2>1, <3>1
    <3>3. dac'.bits[1] = <<read_counter, 15>> BY <2>1
    <3>4. 15 - ((1 - 1) % 16) = 15 OBVIOUS
    <3>5. \A k \in 1 .. 1 : dac'.bits[k] = <<read_counter, 15 - ((k - 1) % 16)>>
      BY <3>3, <3>4
    <3> QED BY <3>2, <3>5, <1>6 DEF BitsOf
  <2>4. After(read_counter)'
    <3>1. CASE Whole /\ dac.clean
      <4>1. PICK w \in Addresses : BitsOf(w, 32) /\ read_counter = NextWord(w)
        BY <3>1, <1>7 DEF Inv, Played, Whole
      <4>2. dac.bits[1][1] = w BY <4>1, FirstBit
      <4>3. WholeWord = w BY <3>1, <4>2 DEF WholeWord
      <4> QED BY <4>1, <4>3, <1>2, <1>6 DEF After
    <3>2. CASE ~(Whole /\ dac.clean)
      BY <3>2, <1>2 DEF WholeWord, After
    <3> QED BY <3>1, <3>2
  <2> QED BY <2>3, <2>4
<1> QED BY <1>6, <1>7

\* A frame goes on: the next bit of the same word.
LEMMA GoesOnFrame ==
  ASSUME Inv, Bclk, ~Starts, dac.n \in 1 .. 31
  PROVE  Playing' /\ Played' /\ dac'.n \in 0 .. 32
<1> DEFINE clean == dac.clean /\ read_enable = 1
<1>1. dac' = [dac EXCEPT !.lr = DAC_LR_CLK, !.n = @ + 1, !.clean = clean,
                         !.bits = IF clean THEN Append(@, DAC_DATA) ELSE <<>>]
  BY DEF Bclk, Dac
<1>2. /\ dac'.n = dac.n + 1 /\ dac'.lr = DAC_LR_CLK /\ dac'.before = dac.before
      /\ dac'.bits = IF clean THEN Append(dac.bits, DAC_DATA) ELSE <<>>
  <2>1. dac = [lr |-> dac.lr, n |-> dac.n, clean |-> dac.clean,
               before |-> dac.before, bits |-> dac.bits]
    BY DEF Inv
  <2> HIDE DEF clean
  <2> QED BY <1>1, <2>1
<1>3. dac'.clean <=> clean
  <2>1. dac = [lr |-> dac.lr, n |-> dac.n, clean |-> dac.clean,
               before |-> dac.before, bits |-> dac.bits]
    BY DEF Inv
  <2> HIDE DEF clean
  <2>2. dac'.clean = clean BY <1>1, <2>1
  <2> QED BY <2>2
<1>a. \A n \in 1 .. 31 : n + 1 \in 0 .. 32 /\ (n # 31 => n + 1 \in 1 .. 31) OBVIOUS
<1>b. dac'.n \in 0 .. 32 /\ (dac.n # 31 => dac'.n \in 1 .. 31) BY <1>a, <1>2
<1>4. dac'.n \in 0 .. 32 BY <1>b
<1>5. CASE ~clean BY <1>5, <1>3, <1>4 DEF Playing, Played
<1>6. CASE clean
  <2>1. read_enable = 1 /\ InStep /\ dac.clean BY <1>6 DEF Inv
  <2>2. /\ DAC_LR_CLK_counter = dac.n /\ DAC_LR_CLK = 0
        /\ SW0 = 1 => BitsOf(read_counter, dac.n) /\ After(read_counter)
    BY <2>1 DEF Inv, Playing
  <2>3. /\ ROM_out = read_counter /\ SW0' = SW0
        /\ DAC_LR_CLK_counter' = IF dac.n = 31 THEN 0 ELSE dac.n + 1
        /\ DAC_LR_CLK' = IF dac.n = 31 THEN 1 ELSE 0
        /\ read_counter' = IF dac.n = 31 THEN NextWord(read_counter) ELSE read_counter
    BY <2>1, <2>2, CountersStep
  <2>4. read_counter \in Addresses /\ ROM_output_mux_counter = dac.n % 16
    BY <2>1, <2>2 DEF InStep
  <2>5. ASSUME SW0 = 1
        PROVE  /\ dac'.bits \in Seq(Int \X Int) /\ Len(dac'.bits) = dac.n + 1
               /\ \A k \in 1 .. dac.n + 1 :
                    dac'.bits[k] = <<read_counter, 15 - ((k - 1) % 16)>>
    <3>1. DAC_DATA = <<read_counter, 15 - (dac.n % 16)>>
      BY <2>3, <2>4, <2>5 DEF DAC_DATA
    <3>2. BitsOf(read_counter, dac.n) BY <2>2, <2>5
    <3> DEFINE s == dac.bits
               d == DAC_DATA
    <3>3. s \in Seq(Int \X Int) /\ Len(s) = dac.n
          /\ \A k \in 1 .. dac.n : s[k] = <<read_counter, 15 - ((k - 1) % 16)>>
      BY <3>2 DEF BitsOf
    <3>4. d \in Int \X Int
      <4>1. read_counter \in Int BY <2>4 DEF Addresses
      <4>2. 15 - (dac.n % 16) \in Int OBVIOUS
      <4> QED BY <3>1, <4>1, <4>2
    <3>5. dac'.bits = Append(s, d) BY <1>2, <1>6
    <3> HIDE DEF s, d
    <3>6. /\ Append(s, d) \in Seq(Int \X Int) /\ Len(Append(s, d)) = Len(s) + 1
          /\ \A i \in 1 .. Len(s) : Append(s, d)[i] = s[i]
          /\ Append(s, d)[Len(s) + 1] = d
      BY <3>3, <3>4, AppendProperties
    <3>7. Append(s, d)[dac.n + 1] = <<read_counter, 15 - (((dac.n + 1) - 1) % 16)>>
      <4>1. (dac.n + 1) - 1 = dac.n OBVIOUS
      <4> QED BY <4>1, <3>1, <3>3, <3>6 DEF d
    <3>8. ASSUME NEW k \in 1 .. dac.n + 1
          PROVE  Append(s, d)[k] = <<read_counter, 15 - ((k - 1) % 16)>>
      <4>1. CASE k = dac.n + 1 BY <4>1, <3>7
      <4>2. CASE k \in 1 .. dac.n BY <4>2, <3>3, <3>6
      <4>3. \A n \in 1 .. 31 : \A j \in 1 .. n + 1 : j = n + 1 \/ j \in 1 .. n OBVIOUS
      <4> QED BY <4>1, <4>2, <4>3
    <3> QED BY <3>3, <3>5, <3>6, <3>8
  <2>6. ASSUME SW0 = 1 PROVE dac'.before = NO_SOUND
          \/ (dac'.before \in Addresses /\ read_counter = NextWord(dac'.before))
    BY <1>2, <2>2, <2>6 DEF After
  <2>7. CASE dac.n = 31
    <3>1. dac'.n = 32 BY <1>2, <2>7
    <3>2. Playing' BY <3>1 DEF Playing
    <3>3. DAC_LR_CLK' = 1 /\ dac'.lr = 0 /\ read_counter' = NextWord(read_counter)
      BY <1>2, <2>2, <2>3, <2>7
    <3>4. ASSUME SW0' = 1
          PROVE  \E w \in Addresses :
                    BitsOf(w, 32)' /\ After(w)' /\ read_counter' = NextWord(w)
      <4>1. SW0 = 1 BY <3>4, <2>3
      <4> DEFINE w == read_counter
      <4>2. dac.n + 1 = 32 BY <2>7
      <4>3. /\ dac'.bits \in Seq(Int \X Int) /\ Len(dac'.bits) = 32
            /\ \A k \in 1 .. 32 : dac'.bits[k] = <<w, 15 - ((k - 1) % 16)>>
        BY <4>1, <4>2, <2>5
      <4>4. dac'.before = NO_SOUND \/ (dac'.before \in Addresses /\ w = NextWord(dac'.before))
        BY <4>1, <2>6
      <4>5. w \in Addresses /\ read_counter' = NextWord(w) BY <2>4, <3>3
      <4> HIDE DEF w
      <4> QED BY <4>3, <4>4, <4>5 DEF BitsOf, After
    <3>5. Played' BY <3>3, <3>4 DEF Played
    <3> QED BY <3>2, <3>5, <1>4
  <2>8. CASE dac.n # 31
    <3>1. dac'.n \in 1 .. 31 /\ dac'.n = dac.n + 1 BY <1>2, <1>b, <2>8
    <3>2. Played' BY <3>1 DEF Played
    <3>3. DAC_LR_CLK_counter' = dac'.n /\ DAC_LR_CLK' = 0 /\ read_counter' = read_counter
      BY <2>3, <2>8, <3>1
    <3>4. ASSUME SW0' = 1 PROVE BitsOf(read_counter, dac.n)' /\ After(read_counter)'
      BY <3>4, <2>3, <2>5, <2>6, <3>1, <3>3 DEF BitsOf, After
    <3> QED BY <3>2, <3>3, <3>4, <1>4 DEF Playing
  <2> QED BY <2>7, <2>8, <1>4
<1> QED BY <1>5, <1>6

LEMMA BclkStep == ASSUME Inv, Bclk PROVE Inv'
<1>1. InStep' BY CountersStep DEF Inv
<1>2. /\ dac' = [lr |-> dac'.lr, n |-> dac'.n, clean |-> dac'.clean,
                 before |-> dac'.before, bits |-> dac'.bits]
      /\ dac'.clean \in BOOLEAN
  BY DEF Bclk, Dac, Inv
<1>3. CASE Starts
  <2>1. Playing' /\ dac'.n = 1 BY <1>3, Begins
  <2>2. Played' BY <2>1 DEF Played
  <2> QED BY <1>1, <1>2, <2>1, <2>2 DEF Inv
<1>4. CASE ~Starts /\ dac.n \in 1 .. 31 BY <1>1, <1>2, <1>4, GoesOnFrame DEF Inv
<1>5. CASE ~Starts /\ dac.n \notin 1 .. 31
  <2>1. dac' = [dac EXCEPT !.lr = DAC_LR_CLK, !.n = 0, !.clean = FALSE, !.bits = <<>>]
    BY <1>5 DEF Bclk, Dac
  <2>2. dac'.n = 0 BY <2>1 DEF Inv
  <2>3. Playing' /\ Played' BY <2>2 DEF Playing, Played
  <2> QED BY <1>1, <1>2, <2>2, <2>3 DEF Inv
<1> QED BY <1>3, <1>4, <1>5

LEMMA Step == ASSUME Inv, [Next]_vars PROVE Inv'
  BY QuietStep, BclkStep DEF Next

-----------------------------------------------------------------------------
\* The wrap of read_counter is the remainder.
LEMMA NextIsRemainder ==
  ASSUME NEW w \in Addresses PROVE NextWord(w) = (w + 1) % (SONG + 1)
<1>1. SONG \in Nat \ {0} BY AudioAssumption
<1> DEFINE m == SONG + 1
<1>2. m \in Nat \ {0} BY <1>1
<1>3. m % m = 0 BY <1>2
<1>4. \A v \in 0 .. m - 1 : v % m = v BY <1>2
<1> QED BY <1>1, <1>3, <1>4 DEF Addresses, NextWord

LEMMA WholeIsWord == ASSUME Inv PROVE WordsWhole
<1> SUFFICES ASSUME Whole, dac.clean, SW0 = 1
             PROVE  /\ dac.bits = [n \in 1 .. 32 |-> <<WholeWord, 15 - ((n - 1) % 16)>>]
                    /\ dac.before # NO_SOUND => WholeWord = (dac.before + 1) % (SONG + 1)
  BY DEF WordsWhole
<1>1. PICK w \in Addresses : BitsOf(w, 32) /\ After(w) BY DEF Inv, Played, Whole
<1>2. WholeWord = w
  <2>1. dac.bits[1][1] = w BY <1>1, FirstBit
  <2> QED BY <2>1 DEF WholeWord
<1>3. dac.bits = [n \in 1 .. 32 |-> <<w, 15 - ((n - 1) % 16)>>]
  <2>1. dac.bits \in [1 .. 32 -> Int \X Int] BY <1>1, SeqDef, LenProperties DEF BitsOf
  <2>2. dac.bits = [n \in 1 .. 32 |-> dac.bits[n]] BY <2>1
  <2> QED BY <2>2, <1>1 DEF BitsOf
<1>4. dac.before # NO_SOUND => w = (dac.before + 1) % (SONG + 1)
  BY <1>1, NextIsRemainder DEF After
<1> QED BY <1>2, <1>3, <1>4

\* WordsWhole of Top.v, for a song of every length and at every point where
\* KEY0 stops the sound or starts it again.
THEOREM FramesAreWords == Spec => []WordsWhole
<1>1. Init => Inv BY Base
<1>2. Inv /\ [Next]_vars => Inv' BY Step
<1>3. Inv => WordsWhole BY WholeIsWord
<1> QED BY <1>1, <1>2, <1>3, PTL DEF Spec

-----------------------------------------------------------------------------
(* The set-up of the codec, word by word.                                  *)

\* The 24 bits of a transfer, and what its first n bits amount to, the codec's
\* own, every ninth, not among them.
Framed(w)    == DEVICE * 65536 + w
Pushed(n)    == n - n \div 9
Pow(n)       == 2^n
Prefix(n, w) == Framed(w) \div Pow(24 - Pushed(n))

\* The edge after a fall of SCLK, at which the next bit is put out.
Fell == SCLK = 0 /\ counter = HALF + 2

\* No bit has been torn and none is torn now: KEY0 is up at the edge after a fall.
Untorn == ~torn /\ ~Torn

\* The registers, and what SCLK and its counter say of each other.
Clocked ==
  /\ reset \in {0, 1} /\ SCLK \in {0, 1} /\ counter \in 0 .. WRAP - 1
  /\ tick_counter \in 0 .. 28 /\ word \in 0 .. 8
  /\ ignition \in {0, 1} /\ start_condition \in {0, 1} /\ counting_state \in {0, 1}
  /\ out \in {0, 1} /\ finish_flag \in {0, 1}
  /\ SCLK = 1 => counter <= HALF + 1
  /\ SCLK = 0 => counter = 0 \/ counter >= HALF + 2
  /\ ignition = 1 => start_condition = 1
  /\ start_condition = 0 => tick_counter = 0
  /\ SCLK = 1 => MUX_input = Table[word]

\* The codec before a transfer, at the start of one, and after n of its bits.
Idle           == codec = Closed
Takes(c, n, b) ==
  c.open /\ c = [open |-> c.open, n |-> n, bits |-> b, pulls |-> c.pulls]
Open           == Takes(codec, 0, 0) /\ ~codec.pulls

\* tick_counter = 0: SDIN goes down when SCLK is up.
Starting ==
  tick_counter = 0 =>
    /\ SCLK = 0 => Idle /\ (counter > HALF + 2 => out = 1 /\ serial_data = 0)
    /\ SCLK = 1 =>
         /\ out = 1 /\ serial_data \in {0, 1} /\ finish_flag = 0
         /\ serial_data = 1 => Idle
         /\ serial_data = 0 => Open \/ (Idle /\ counter = 0)
         /\ counter >= LOW + 2 => serial_data = 0
    /\ word < 8

\* In between: bit by bit, taken when SCLK rises.
Shifting ==
  tick_counter \in 1 .. 27 =>
    /\ word < 8 /\ MUX_input = Table[word] /\ finish_flag = 0
    /\ LET n == tick_counter - (1 - SCLK)
       IN  Takes(codec, n, Prefix(n, Table[word])) /\ (codec.pulls <=> AckTick)
    /\ ~Fell => IF AckTick THEN out = 0
                ELSE out = 1 /\ serial_data = DataBit(tick_counter)

\* tick_counter = 28: SDIN goes up when SCLK is up, the word is done.
Ending ==
  tick_counter = 28 =>
    /\ finish_flag = 0 <=> Fell
    /\ finish_flag = 0 => word < 8
    /\ SCLK = 0 => codec.n = 27 /\ (~Fell => out = 1 /\ serial_data = 0)
    /\ SCLK = 1 => /\ out = 1 /\ serial_data \in {0, 1} /\ codec.n \in {0, 27}
                   /\ serial_data = 1 => Idle
                   /\ counter >= LOW + 2 => serial_data = 1

\* After the last word the clock runs for a few edges more, or again after a
\* reset, and never to a fall.
Sent ==
  /\ word = 8 => /\ tick_counter = 28 /\ finish_flag = 1
                 /\ SCLK = 1 => /\ counter <= 2
                                /\ ignition = 1 => counter <= 1
                                /\ ignition = 1 /\ counting_state = 0 => counter = 0
  /\ word < 8 => counting_state = 0 /\ read_enable # 1

Done == IF (tick_counter = 27 /\ SCLK = 1) \/ (tick_counter = 28 /\ finish_flag = 0)
        THEN word + 1 ELSE word

Received ==
  /\ received \in Seq(Int) /\ Len(received) = Done
  /\ \A n \in 1 .. Done : received[n] = Table[n - 1]

SetUp == Clocked /\ Starting /\ Shifting /\ Ending /\ Sent /\ Received

\* What the powers of two come to.
LEMMA Powers ==
  /\ Pow(0) = 1 /\ Pow(1) = 2 /\ Pow(2) = 4 /\ Pow(3) = 8
  /\ Pow(4) = 16 /\ Pow(5) = 32 /\ Pow(6) = 64 /\ Pow(7) = 128
  /\ Pow(8) = 256 /\ Pow(9) = 512 /\ Pow(10) = 1024 /\ Pow(11) = 2048
  /\ Pow(12) = 4096 /\ Pow(13) = 8192 /\ Pow(14) = 16384 /\ Pow(15) = 32768
  /\ Pow(16) = 65536 /\ Pow(17) = 131072 /\ Pow(18) = 262144 /\ Pow(19) = 524288
  /\ Pow(20) = 1048576 /\ Pow(21) = 2097152 /\ Pow(22) = 4194304 /\ Pow(23) = 8388608
  /\ Pow(24) = 16777216
BY DEF Pow

\* A bit by its power of two.
LEMMA BitIs == ASSUME NEW v, NEW n PROVE Bit(v, n) = (v \div Pow(n)) % 2
BY DEF Bit, Pow

\* The quotient, from what is left over.
LEMMA Quotient ==
  ASSUME NEW m \in Nat \ {0}, NEW a \in Nat, NEW s \in Nat, s < m
  PROVE  (m * a + s) \div m = a
OBVIOUS

\* Half a quotient is the quotient by twice as much.
LEMMA Halving ==
  ASSUME NEW f \in Nat, NEW p \in Nat \ {0}
  PROVE  f \div p = 2 * (f \div (2 * p)) + ((f \div p) % 2)
<1> DEFINE q == f \div p
           a == q \div 2
           b == q % 2
           r == f - p * q
<1>1. q \in Nat /\ r \in Nat /\ r < p /\ f = p * q + r OBVIOUS
<1> HIDE DEF r
<1>2. a \in Nat /\ b \in {0, 1} /\ q = 2 * a + b BY <1>1
<1> HIDE DEF q, a, b
<1>3. p * q = (2 * p) * a + p * b BY <1>2
<1>4. p * b \in {0, p} BY <1>2
<1>5. p * b + r \in Nat /\ p * b + r < 2 * p BY <1>1, <1>4
<1>6. f = (2 * p) * a + (p * b + r)
  <2> DEFINE x == p * q
             y == (2 * p) * a
             z == p * b
  <2>1. x = y + z /\ f = x + r BY <1>1, <1>3
  <2>2. x \in Int /\ y \in Int /\ z \in Int /\ r \in Int BY <1>1, <1>2
  <2> HIDE DEF x, y, z
  <2>3. f = y + (z + r) BY <2>1, <2>2
  <2> QED BY <2>3 DEF y, z
<1>7. 2 * p \in Nat \ {0} OBVIOUS
<1>8. f \div (2 * p) = a BY <1>2, <1>5, <1>6, <1>7, Quotient
<1> QED BY <1>2, <1>8 DEF q, b

\* Each power is twice the one before.
LEMMA Doubles ==
  ASSUME NEW k \in 0 .. 23 PROVE Pow(k) \in Nat \ {0} /\ Pow(k + 1) = 2 * Pow(k)
<1>1. CASE k \in 0 .. 7 BY <1>1, Powers
<1>2. CASE k \in 8 .. 15 BY <1>2, Powers
<1>3. CASE k \in 16 .. 23 BY <1>3, Powers
<1> QED BY <1>1, <1>2, <1>3

\* A bit less is twice as much and the bit.
LEMMA Halved ==
  ASSUME NEW f \in Nat, NEW k \in 0 .. 23
  PROVE  f \div Pow(k) = 2 * (f \div Pow(k + 1)) + Bit(f, k) /\ Bit(f, k) \in {0, 1}
<1>1. Pow(k) \in Nat \ {0} /\ Pow(k + 1) = 2 * Pow(k) BY Doubles
<1>2. f \div Pow(k) = 2 * (f \div Pow(k + 1)) + ((f \div Pow(k)) % 2) BY <1>1, Halving
<1>3. f \div Pow(k) \in Nat BY <1>1
<1>4. (f \div Pow(k)) % 2 \in {0, 1} BY <1>3
<1> QED BY <1>2, <1>4, BitIs

\* The words have 16 bits.
LEMMA TableWords == ASSUME NEW n \in 0 .. 8 PROVE Table[n] \in Nat /\ Table[n] <= 65535
<1> DEFINE T == << \h1201, \h0460, \h0C00, \h0812, \h0A00, \h102F, \h0E23, \h0660, \h1E00 >>
           i == n + 1
<1>1. Table[n] = T[i] BY DEF Table
<1>2. /\ T[1] = 4609 /\ T[2] = 1120 /\ T[3] = 3072 /\ T[4] = 2066 /\ T[5] = 2560
      /\ T[6] = 4143 /\ T[7] = 3619 /\ T[8] = 1632 /\ T[9] = 7680
  OBVIOUS
<1>3. i \in {1, 2, 3, 4, 5, 6, 7, 8, 9} OBVIOUS
<1> HIDE DEF T, i
<1>4. T[i] \in {4609, 1120, 3072, 2066, 2560, 4143, 3619, 1632, 7680}
  BY <1>2, <1>3
<1>5. \A x \in {4609, 1120, 3072, 2066, 2560, 4143, 3619, 1632, 7680} : x \in Nat /\ x <= 65535
  OBVIOUS
<1> QED BY <1>1, <1>4, <1>5

\* The device's address is above the word.
LEMMA DeviceBits ==
  ASSUME NEW w \in Nat, w <= 65535, NEW n \in 0 .. 7
  PROVE  Bit(Framed(w), 16 + n) = Bit(DEVICE, n)
<1>1. Framed(w) = 3407872 + w BY DEF Framed, DEVICE
<1>2. /\ ((3407872 + w) \div 65536) % 2 = 0 /\ ((3407872 + w) \div 131072) % 2 = 0
      /\ ((3407872 + w) \div 262144) % 2 = 1 /\ ((3407872 + w) \div 524288) % 2 = 0
      /\ ((3407872 + w) \div 1048576) % 2 = 1 /\ ((3407872 + w) \div 2097152) % 2 = 1
      /\ ((3407872 + w) \div 4194304) % 2 = 0 /\ ((3407872 + w) \div 8388608) % 2 = 0
  OBVIOUS
<1>3. /\ (52 \div 1) % 2 = 0 /\ (52 \div 2) % 2 = 0 /\ (52 \div 4) % 2 = 1
      /\ (52 \div 8) % 2 = 0 /\ (52 \div 16) % 2 = 1 /\ (52 \div 32) % 2 = 1
      /\ (52 \div 64) % 2 = 0 /\ (52 \div 128) % 2 = 0
  OBVIOUS
<1>4. n \in {0, 1, 2, 3, 4, 5, 6, 7} OBVIOUS
<1>5. Bit(3407872 + w, 16 + n) = Bit(52, n)
  BY <1>2, <1>3, <1>4, BitIs, Powers
<1> QED BY <1>1, <1>5 DEF DEVICE

\* The low 16 bits are the word's.
LEMMA WordBits ==
  ASSUME NEW w \in Nat, w <= 65535, NEW n \in 0 .. 15
  PROVE  Bit(Framed(w), n) = Bit(w, n)
<1>1. Framed(w) = 3407872 + w BY DEF Framed, DEVICE
<1> DEFINE f == 3407872 + w
<1>2. /\ (f \div 1) % 2 = (w \div 1) % 2 /\ (f \div 2) % 2 = (w \div 2) % 2
      /\ (f \div 4) % 2 = (w \div 4) % 2 /\ (f \div 8) % 2 = (w \div 8) % 2
      /\ (f \div 16) % 2 = (w \div 16) % 2 /\ (f \div 32) % 2 = (w \div 32) % 2
      /\ (f \div 64) % 2 = (w \div 64) % 2 /\ (f \div 128) % 2 = (w \div 128) % 2
  OBVIOUS
<1>3. /\ (f \div 256) % 2 = (w \div 256) % 2 /\ (f \div 512) % 2 = (w \div 512) % 2
      /\ (f \div 1024) % 2 = (w \div 1024) % 2 /\ (f \div 2048) % 2 = (w \div 2048) % 2
      /\ (f \div 4096) % 2 = (w \div 4096) % 2 /\ (f \div 8192) % 2 = (w \div 8192) % 2
      /\ (f \div 16384) % 2 = (w \div 16384) % 2 /\ (f \div 32768) % 2 = (w \div 32768) % 2
  OBVIOUS
<1> HIDE DEF f
<1>4. n \in {0, 1, 2, 3, 4, 5, 6, 7} \/ n \in {8, 9, 10, 11, 12, 13, 14, 15} OBVIOUS
<1>5. CASE n \in {0, 1, 2, 3, 4, 5, 6, 7}
  <2>1. Bit(f, n) = Bit(w, n) BY <1>2, <1>5, BitIs, Powers
  <2> QED BY <1>1, <2>1 DEF f
<1>6. CASE n \in {8, 9, 10, 11, 12, 13, 14, 15}
  <2>1. Bit(f, n) = Bit(w, n) BY <1>3, <1>6, BitIs, Powers
  <2> QED BY <1>1, <2>1 DEF f
<1> QED BY <1>4, <1>5, <1>6

\* What a tick pushes is the bit whose turn it is.
LEMMA BitsPushed ==
  ASSUME NEW w \in Nat, w <= 65535, MUX_input = w, NEW t \in 1 .. 26, t # 9, t # 18
  PROVE  DataBit(t) = Bit(Framed(w), 24 - Pushed(t))
<1>2. CASE t \in 1 .. 8
  <2>1. DataBit(t) = Bit(DEVICE, 8 - t) BY <1>2 DEF DataBit
  <2>2. Pushed(t) = t /\ 8 - t \in 0 .. 7 /\ 16 + (8 - t) = 24 - t BY <1>2 DEF Pushed
  <2> QED BY <2>1, <2>2, DeviceBits
<1>3. CASE t \in 10 .. 17
  <2>1. DataBit(t) = Bit(w, 25 - t) BY <1>3 DEF DataBit
  <2>2. Pushed(t) = t - 1 /\ 25 - t \in 0 .. 15 /\ 24 - (t - 1) = 25 - t
    BY <1>3 DEF Pushed
  <2> QED BY <2>1, <2>2, WordBits
<1>4. CASE t \in 19 .. 26
  <2>1. DataBit(t) = Bit(w, 26 - t) BY <1>4 DEF DataBit
  <2>2. Pushed(t) = t - 2 /\ 26 - t \in 0 .. 15 /\ 24 - (t - 2) = 26 - t
    BY <1>4 DEF Pushed
  <2> QED BY <2>1, <2>2, WordBits
<1> QED BY <1>2, <1>3, <1>4

\* The bits so far grow by the one of the tick, or by none.
LEMMA Grows ==
  ASSUME NEW w \in Nat, w <= 65535, NEW t \in 1 .. 27
  PROVE  /\ t \notin {9, 18, 27} =>
              /\ Prefix(t, w) = 2 * Prefix(t - 1, w) + Bit(Framed(w), 24 - Pushed(t))
              /\ Bit(Framed(w), 24 - Pushed(t)) \in {0, 1}
         /\ t \in {9, 18, 27} => Prefix(t, w) = Prefix(t - 1, w)
<1>1. Framed(w) \in Nat BY DEF Framed, DEVICE
<1>2. t \in {9, 18, 27} => Pushed(t) = Pushed(t - 1) BY DEF Pushed
<1>3. t \notin {9, 18, 27} =>
        24 - Pushed(t) \in 0 .. 23 /\ 24 - Pushed(t - 1) = (24 - Pushed(t)) + 1
  BY DEF Pushed
<1>4. ASSUME t \notin {9, 18, 27}
      PROVE  /\ Prefix(t, w) = 2 * Prefix(t - 1, w) + Bit(Framed(w), 24 - Pushed(t))
             /\ Bit(Framed(w), 24 - Pushed(t)) \in {0, 1}
  BY <1>1, <1>3, <1>4, Halved DEF Prefix
<1> QED BY <1>2, <1>4 DEF Prefix

\* Nothing yet, the device, the word.
LEMMA PrefixEnds ==
  ASSUME NEW w \in Nat, w <= 65535
  PROVE  Prefix(0, w) = 0 /\ Prefix(8, w) = DEVICE /\ Prefix(27, w) % 2^16 = w
<1>1. Framed(w) = 3407872 + w BY DEF Framed, DEVICE
<1>2. Pushed(0) = 0 /\ Pushed(8) = 8 /\ Pushed(27) = 24 BY DEF Pushed
<1>3. /\ Prefix(0, w) = (3407872 + w) \div 16777216 /\ Prefix(8, w) = (3407872 + w) \div 65536
      /\ Prefix(27, w) = (3407872 + w) \div 1
  BY <1>1, <1>2, Powers DEF Prefix
<1>4. 2^16 = 65536 OBVIOUS
<1>5. (3407872 + w) \div 16777216 = 0 /\ (3407872 + w) \div 65536 = 52 OBVIOUS
<1>6. ((3407872 + w) \div 1) % 65536 = w OBVIOUS
<1> QED BY <1>3, <1>4, <1>5, <1>6 DEF DEVICE

-----------------------------------------------------------------------------
\* The four kinds of an edge of clk: SCLK stays up, falls, rises, stays down.
High ==
  /\ SCLK = 1 /\ SCLK' = 1 /\ tick_counter' = tick_counter
  /\ counter' = 0 \/ (ignition = 1 /\ counter <= HALF /\ counter' = counter + 1)
Falls ==
  /\ SCLK = 1 /\ SCLK' = 0 /\ tick_counter' = Ticks
  /\ counter = HALF + 1 /\ counter' = HALF + 2 /\ reset = 1
Rises ==
  /\ SCLK = 0 /\ SCLK' = 1 /\ tick_counter' = tick_counter /\ ~Fell
  /\ counter' = 0 \/ (ignition = 1 /\ counter = 0 /\ counter' = 1)
Low ==
  /\ SCLK = 0 /\ SCLK' = 0 /\ tick_counter' = tick_counter
  /\ counter' = 0 \/ (counter >= HALF + 2 /\ counter' = counter + 1)

\* The line after the edge, as the codec sees it.
Line == CASE out' = 1 -> serial_data'
          [] out' = 0 /\ codec.pulls -> 0
          [] OTHER -> 1

\* The constants one by one, as the steps below need them.
LEMMA Constants ==
  /\ HALF \in Nat /\ LAST \in Nat /\ WRAP \in Nat \ {0} /\ LOW \in Nat /\ LOW >= 1
  /\ LOW + 2 <= HALF /\ HALF + 2 < LAST /\ HALF + 2 < WRAP
BY AudioAssumption

\* There are no others.
LEMMA Kinds ==
  ASSUME Clocked, Untorn, Edge
  PROVE  High \/ Falls \/ Rises \/ Low
<1>1. ClockGeneration /\ TickCounter BY DEF Edge, I2C_Protocol
<1>2. /\ tick_counter \in 0 .. 28 /\ counter \in Nat /\ counter <= WRAP - 1
      /\ SCLK \in {0, 1} /\ reset \in {0, 1} /\ ignition \in {0, 1}
      /\ ignition = 1 => start_condition = 1
      /\ SCLK = 1 => counter <= HALF + 1
      /\ SCLK = 0 => counter = 0 \/ counter >= HALF + 2
      /\ Fell /\ reset = 0 => FALSE
  BY Constants DEF Clocked, Untorn, Torn, Fell
<1>3. tick_counter' = IF ~(SCLK = 1 /\ SCLK' = 0) THEN tick_counter
                      ELSE IF reset = 0 THEN 0 ELSE Ticks
  BY <1>1 DEF TickCounter
<1>4. CASE reset = 0
  <2>1. counter' = 0 /\ SCLK' = 1 BY <1>1, <1>4 DEF ClockGeneration
  <2> QED BY <1>2, <1>3, <1>4, <2>1 DEF High, Rises
<1>5. CASE reset = 1 /\ ignition = 0
  <2>1. counter' = 0 /\ SCLK' = SCLK BY <1>1, <1>5 DEF ClockGeneration
  <2> QED BY <1>2, <1>3, <2>1 DEF High, Low
<1>6. CASE reset = 1 /\ ignition = 1
  <2>1. /\ counter' = IF counter = LAST THEN 0 ELSE (counter + 1) % WRAP
        /\ SCLK' = IF counter <= HALF THEN 1
                   ELSE IF counter = LAST THEN SCLK
                   ELSE IF tick_counter = 29 THEN 1 ELSE 0
    BY <1>1, <1>2, <1>6 DEF ClockGeneration
  <2>2. (counter + 1) % WRAP = IF counter = WRAP - 1 THEN 0 ELSE counter + 1
    <3> DEFINE m == WRAP
    <3>1. m \in Nat \ {0} /\ counter \in Nat /\ counter <= m - 1 BY <1>2, Constants
    <3> HIDE DEF m
    <3>2. m % m = 0 BY <3>1
    <3>3. \A v \in 0 .. m - 1 : v % m = v BY <3>1
    <3>4. (counter + 1) % m = IF counter = m - 1 THEN 0 ELSE counter + 1
      BY <3>1, <3>2, <3>3
    <3> QED BY <3>4 DEF m
  <2>3. CASE counter <= HALF
    <3>1. counter' = counter + 1 /\ SCLK' = 1 BY <2>1, <2>2, <2>3, <1>2, Constants
    <3>2. CASE SCLK = 1 BY <3>1, <3>2, <1>3, <1>6, <2>3 DEF High
    <3>3. CASE SCLK = 0
      <4>1. counter = 0 /\ ~Fell BY <3>3, <2>3, <1>2, Constants DEF Fell
      <4> QED BY <3>1, <3>3, <4>1, <1>3, <1>6 DEF Rises
    <3> QED BY <3>2, <3>3, <1>2
  <2>4. CASE ~(counter <= HALF) /\ SCLK = 1
    <3>1. counter = HALF + 1 /\ counter # LAST /\ counter # WRAP - 1
      BY <2>4, <1>2, Constants
    <3>2. counter' = HALF + 2 /\ SCLK' = 0 BY <3>1, <2>1, <2>2, <2>4, <1>2, Constants
    <3> QED BY <3>1, <3>2, <2>4, <1>3, <1>6 DEF Falls
  <2>5. CASE ~(counter <= HALF) /\ SCLK = 0
    <3>1. counter >= HALF + 2 /\ SCLK' = 0 BY <2>5, <2>1, <1>2, Constants
    <3>2. counter' = 0 \/ counter' = counter + 1 BY <2>1, <2>2
    <3> QED BY <3>1, <3>2, <2>5, <1>3 DEF Low
  <2> QED BY <2>3, <2>4, <2>5, <1>2
<1> QED BY <1>2, <1>4, <1>5, <1>6

\* The bit clock has just fallen after a fall, and only then.
LEMMA FellNext ==
  ASSUME Clocked, Untorn, Edge
  PROVE  /\ Falls => Fell' /\ ~Fell
         /\ High \/ Rises \/ Low => ~Fell'
         /\ High => ~Fell
BY Constants DEF Clocked, Falls, High, Rises, Low, Fell

\* What the three cases of SerialData amount to.
LEMMA Driven ==
  ASSUME Clocked, Untorn, Edge
  PROVE  /\ tick_counter = 0 =>
              /\ finish_flag' = 0 /\ out' = 1
              /\ serial_data' = IF counter > LOW THEN 0 ELSE 1
         /\ tick_counter \in 1 .. 27 =>
              /\ finish_flag' = finish_flag
              /\ IF AckTick THEN out' = 0
                 ELSE out' = 1 /\ serial_data' = DataBit(tick_counter)
         /\ tick_counter = 28 =>
              /\ finish_flag' = 1 /\ out' = 1
              /\ serial_data' = IF counter > LOW /\ SCLK = 1 THEN 1 ELSE 0
         /\ start_condition' = 1
         /\ out' \in {0, 1} /\ finish_flag' \in {0, 1}
<1>1. SerialData /\ out' = IF AckTick THEN 0 ELSE 1 BY DEF Edge, I2C_Protocol
<1>2. /\ tick_counter \in 0 .. 28 /\ start_condition \in {0, 1} /\ finish_flag \in {0, 1}
      /\ start_condition = 0 => tick_counter = 0
  BY DEF Clocked
<1>3. AckTick <=> tick_counter \in {9, 18, 27} BY DEF AckTick
<1>4. CASE tick_counter = 0
  <2>1. ~AckTick /\ tick_counter # 28 BY <1>3, <1>4
  <2>2. /\ finish_flag' = 0 /\ start_condition' = 1
        /\ serial_data' = IF counter > LOW THEN 0 ELSE 1
    BY <1>1, <1>4, <2>1 DEF SerialData
  <2> QED BY <1>1, <1>3, <1>4, <2>1, <2>2
<1>5. CASE tick_counter = 28
  <2>1. ~AckTick BY <1>3, <1>5
  <2>2. /\ finish_flag' = 1 /\ start_condition' = start_condition
        /\ serial_data' = IF counter > LOW /\ SCLK = 1 THEN 1 ELSE 0
    BY <1>1, <1>5, <2>1 DEF SerialData
  <2> QED BY <1>1, <1>2, <1>5, <2>1, <2>2
<1>6. CASE tick_counter \in 1 .. 27
  <2>1. tick_counter # 0 /\ tick_counter # 28 BY <1>6
  <2>2. CASE AckTick
    <3>1. finish_flag' = finish_flag /\ start_condition' = start_condition /\ out' = 0
      BY <1>1, <2>1, <2>2 DEF SerialData
    <3> QED BY <1>2, <2>1, <2>2, <3>1
  <2>3. CASE ~AckTick
    <3>1. /\ finish_flag' = finish_flag /\ start_condition' = start_condition /\ out' = 1
          /\ serial_data' = DataBit(tick_counter)
      BY <1>1, <2>1, <2>3 DEF SerialData
    <3> QED BY <1>2, <2>1, <2>3, <3>1
  <2> QED BY <2>2, <2>3
<1> QED BY <1>2, <1>4, <1>5, <1>6

\* The word and what of it is on its way to the next.
LEMMA Chosen ==
  ASSUME Clocked, Ending, Untorn, Edge
  PROVE  /\ word' = IF tick_counter = 28 /\ Fell THEN word + 1 ELSE word
         /\ tick_counter = 28 /\ Fell => word < 8 /\ SCLK = 0 /\ Low
         /\ ~Rises => MUX_input' = MUX_input
         /\ Rises => MUX_input' = Table[word]
         /\ tick_counter \in 1 .. 27 => word' = word
<1>1. Words BY DEF Edge
<1>2. word \in 0 .. 8 /\ finish_flag \in {0, 1} /\ tick_counter \in 0 .. 28 /\ SCLK \in {0, 1}
  BY DEF Clocked
<1>3. MUX_input' = IF SCLK = 0 /\ SCLK' = 1 /\ word \in DOMAIN Table
                   THEN Table[word] ELSE MUX_input
  BY <1>1 DEF Words
<1>4. DOMAIN Table = 0 .. 8 BY DEF Table
<1>5. High \/ Falls \/ Rises \/ Low BY Kinds
<1>6. tick_counter = 28 => (finish_flag = 0 <=> Fell) /\ (finish_flag = 0 => word < 8)
  BY DEF Ending
<1>7. tick_counter = 28 /\ Fell => Low
  <2>1. Fell => SCLK = 0 BY DEF Fell
  <2> QED BY <1>5, <2>1 DEF High, Falls, Rises
<1>8. word' = IF finish_flag = 0 /\ finish_flag' = 1 THEN (word + 1) % 16 ELSE word
  BY <1>1 DEF Words
<1>9. finish_flag = 0 /\ finish_flag' = 1 <=> tick_counter = 28 /\ Fell
  BY <1>2, <1>6, Driven
<1>10. word < 8 => (word + 1) % 16 = word + 1 BY <1>2
<1> QED BY <1>2, <1>3, <1>4, <1>5, <1>6, <1>7, <1>8, <1>9, <1>10 DEF High, Falls, Rises, Low, Fell

\* The registers keep their ranges at every edge of clk.
LEMMA ClockedStep == ASSUME Clocked, Ending, Untorn, Edge PROVE Clocked'
<1>1. /\ reset \in {0, 1} /\ SCLK \in {0, 1} /\ counter \in Nat /\ counter <= WRAP - 1
      /\ tick_counter \in 0 .. 28 /\ word \in 0 .. 8
      /\ ignition \in {0, 1} /\ start_condition \in {0, 1} /\ counting_state \in {0, 1}
      /\ SCLK = 1 => counter <= HALF + 1
      /\ SCLK = 0 => counter = 0 \/ counter >= HALF + 2
      /\ SCLK = 1 => MUX_input = Table[word]
  BY Constants DEF Clocked
<1>2. ClockGeneration /\ Pulses /\ reset' = reset BY DEF Edge, I2C_Protocol
<1>3. High \/ Falls \/ Rises \/ Low BY Kinds
<1>4. ignition' \in {0, 1} /\ counting_state' \in {0, 1}
  BY <1>1, <1>2 DEF Pulses
<1>5. counter' \in 0 .. WRAP - 1
  <2>1. CASE counter' = 0 BY <2>1, Constants
  <2>2. CASE counter' # 0 /\ SCLK' = 1
    BY <2>2, <1>1, <1>3, Constants DEF High, Falls, Rises, Low
  <2>3. CASE counter' # 0 /\ SCLK' = 0 /\ SCLK = 1
    BY <2>3, <1>1, <1>3, Constants DEF High, Falls, Rises, Low
  <2>4. CASE counter' # 0 /\ SCLK' = 0 /\ SCLK = 0
    <3>1. counter' = counter + 1 /\ counter >= HALF + 2
      BY <2>4, <1>3 DEF High, Falls, Rises, Low
    <3>2. counter' = IF counter = LAST THEN 0 ELSE (counter + 1) % WRAP
      BY <1>1, <1>2, <2>4 DEF ClockGeneration
    <3>3. counter' = (counter + 1) % WRAP BY <3>2, <2>4
    <3> QED BY <3>3, <1>1, Constants
  <2> QED BY <2>1, <2>2, <2>3, <2>4, <1>3 DEF High, Falls, Rises, Low
<1>6. SCLK' \in {0, 1} BY <1>3 DEF High, Falls, Rises, Low
<1>7. tick_counter' \in 0 .. 28
  <2>1. tick_counter' = tick_counter \/ tick_counter' = Ticks
    BY <1>3 DEF High, Falls, Rises, Low
  <2> QED BY <1>1, <2>1 DEF Ticks
<1>8. word' \in 0 .. 8 BY <1>1, Chosen
<1>9. SCLK' = 1 => counter' <= HALF + 1
  BY <1>1, <1>3, Constants DEF High, Falls, Rises, Low
<1>10. SCLK' = 0 => counter' = 0 \/ counter' >= HALF + 2
  BY <1>1, <1>3, Constants DEF High, Falls, Rises, Low
<1>11. SCLK' = 1 => MUX_input' = Table[word']
  <2> SUFFICES ASSUME SCLK' = 1 PROVE MUX_input' = Table[word'] OBVIOUS
  <2>1. High \/ Rises BY <1>3 DEF Falls, Low
  <2>2. ~Low BY DEF Low
  <2>3. word' = word BY <2>2, Chosen
  <2>4. CASE Rises BY <2>3, <2>4, Chosen
  <2>5. CASE High
    <3>1. ~Rises /\ SCLK = 1 BY <2>5 DEF High, Rises
    <3> QED BY <3>1, <2>3, <1>1, Chosen
  <2> QED BY <2>1, <2>4, <2>5
<1> QED BY <1>2, <1>1, <1>4, <1>5, <1>6, <1>7, <1>8, <1>9, <1>10, <1>11, Driven DEF Clocked

\* The eighth word is the last: the clock stops before it falls again.
LEMMA SentStep == ASSUME Clocked, Ending, Sent, Untorn, Edge PROVE Sent'
<1>1. Pulses /\ ClockGeneration BY DEF Edge, I2C_Protocol
<1>2. word \in 0 .. 8 /\ reset \in {0, 1} /\ SCLK \in {0, 1} /\ ignition \in {0, 1}
      /\ counter \in Nat /\ counting_state \in {0, 1}
  BY DEF Clocked
<1>3. High \/ Falls \/ Rises \/ Low BY Kinds
<1>4. ASSUME word' < 8 PROVE counting_state' = 0 /\ read_enable' # 1
  <2>1. word < 8 BY <1>2, <1>4, Chosen
  <2>2. counting_state = 0 /\ word # 8 BY <1>2, <2>1 DEF Sent
  <2> QED BY <1>1, <1>2, <2>2 DEF Pulses, AllSent
<1>5. CASE word' = 8 /\ word < 8
  <2>1. tick_counter = 28 /\ Low BY <1>2, <1>5, Chosen
  <2>2. finish_flag' = 1 /\ tick_counter' = 28 /\ SCLK' = 0 BY <2>1, Driven DEF Low
  <2> QED BY <1>5, <2>2 DEF Sent
<1>6. CASE word = 8
  <2>1. /\ tick_counter = 28 /\ finish_flag = 1
        /\ SCLK = 1 => /\ counter <= 2
                       /\ ignition = 1 => counter <= 1
                       /\ ignition = 1 /\ counting_state = 0 => counter = 0
    BY <1>6 DEF Sent
  <2>2. ~Fell BY <2>1 DEF Ending
  <2>3. word' = 8 /\ finish_flag' = 1 BY <1>6, <2>1, <2>2, Chosen, Driven
  <2>4. ~Falls BY <2>1, Constants DEF Falls
  <2>5. tick_counter' = 28 BY <2>1, <2>4, <1>3 DEF High, Rises, Low
  <2>6. CASE Low BY <2>3, <2>5, <2>6 DEF Low, Sent
  <2>7. CASE counter' = 0 BY <2>3, <2>5, <2>7 DEF Sent
  <2>8. CASE counter' # 0 /\ (High \/ Rises)
    <3>1. ignition = 1 /\ reset = 1 /\ counter' = counter + 1 /\ counter <= 1
          /\ (counting_state = 0 => counter = 0)
      BY <1>1, <1>2, <2>1, <2>8 DEF High, Rises, ClockGeneration
    <3>2. CASE counting_state = 0
      <4>1. counting_state' = 1 BY <1>1, <1>6, <3>1, <3>2 DEF Pulses, AllSent
      <4>2. counter' = 1 BY <3>1, <3>2
      <4> QED BY <2>3, <2>5, <4>1, <4>2 DEF Sent
    <3>3. CASE counting_state = 1
      <4>1. ignition' = 0 BY <1>1, <3>1, <3>3 DEF Pulses
      <4>2. counter' <= 2 BY <1>2, <3>1
      <4> QED BY <2>3, <2>5, <4>1, <4>2 DEF Sent
    <3> QED BY <3>2, <3>3, <1>2
  <2> QED BY <2>4, <2>6, <2>7, <2>8, <1>3
<1>7. CASE word' < 8 BY <1>4, <1>7 DEF Sent
<1>8. word' \in 0 .. 8 BY ClockedStep DEF Clocked
<1> QED BY <1>2, <1>5, <1>6, <1>7, <1>8

-----------------------------------------------------------------------------
\* What the codec makes of the edge.
LEMMA CodecEdge ==
  ASSUME Untorn, Edge
  PROVE  /\ High => codec' = Conditioned(codec, SDIN, Line)
         /\ Falls => codec' = Fallen(codec)
         /\ Rises => codec' \in {Sampled(codec, Line),
                                 Conditioned(Sampled(codec, SDIN), SDIN, Line)}
         /\ Low => codec' = codec
<1>1. codec' \in Heard(SDIN, Line) BY Zenon DEF Edge, Codec, Line, Untorn
<1>2. High => codec' = Conditioned(codec, SDIN, Line) BY <1>1 DEF Heard, High
<1>3. Falls => codec' = Fallen(codec) BY <1>1 DEF Heard, Falls
<1>4. Rises => codec' \in {Sampled(codec, Line),
                           Conditioned(Sampled(codec, SDIN), SDIN, Line)}
  BY <1>1 DEF Heard, Rises
<1>5. Low => codec' = codec BY <1>1 DEF Heard, Low
<1> QED BY <1>2, <1>3, <1>4, <1>5

\* The line, driven or pulled down, before the edge and after it.
LEMMA Lines ==
  /\ out = 1 => SDIN = serial_data
  /\ out' = 1 => Line = serial_data'
  /\ out = 0 /\ codec.pulls => SDIN = 0
  /\ out' = 0 /\ codec.pulls => Line = 0
BY DEF SDIN, Line

\* A line that stays where it is conditions nothing.
LEMMA Steady == ASSUME NEW c, NEW x PROVE Conditioned(c, x, x) = c
BY DEF Conditioned

\* What is left of the codec's record when some of its fields change.
LEMMA Taken ==
  ASSUME NEW c, NEW n, NEW b, Takes(c, n, b), NEW x, NEW y
  PROVE  /\ Takes([c EXCEPT !.n = x, !.bits = y], x, y)
         /\ [c EXCEPT !.n = x, !.bits = y].pulls = c.pulls
<1> DEFINE d == [c EXCEPT !.n = x, !.bits = y]
<1>1. c = [open |-> c.open, n |-> n, bits |-> b, pulls |-> c.pulls] BY DEF Takes
<1>2. d.open = c.open /\ d.n = x /\ d.bits = y /\ d.pulls = c.pulls BY <1>1
<1>3. ASSUME NEW e, e = d
      PROVE  e = [open |-> e.open, n |-> e.n, bits |-> e.bits, pulls |-> e.pulls]
  BY <1>1, <1>3
<1> HIDE DEF d
<1>4. d = [open |-> d.open, n |-> d.n, bits |-> d.bits, pulls |-> d.pulls] BY <1>3
<1>5. d = [open |-> d.open, n |-> x, bits |-> y, pulls |-> d.pulls] BY <1>2, <1>4
<1>6. c.open BY DEF Takes
<1>7. d.open BY <1>2, <1>6
<1>8. Takes(d, x, y) BY <1>5, <1>7 DEF Takes
<1> QED BY <1>2, <1>8 DEF d

LEMMA Pulled ==
  ASSUME NEW c, NEW n, NEW b, Takes(c, n, b), NEW q
  PROVE  Takes([c EXCEPT !.pulls = q], n, b) /\ [c EXCEPT !.pulls = q].pulls = q
<1> DEFINE d == [c EXCEPT !.pulls = q]
<1>1. c = [open |-> c.open, n |-> n, bits |-> b, pulls |-> c.pulls] BY DEF Takes
<1>2. d.open = c.open /\ d.n = n /\ d.bits = b /\ d.pulls = q BY <1>1
<1>3. d = [open |-> d.open, n |-> d.n, bits |-> d.bits, pulls |-> d.pulls] BY <1>1
<1> HIDE DEF d
<1>4. d = [open |-> d.open, n |-> n, bits |-> b, pulls |-> d.pulls] BY <1>2, <1>3
<1>5. c.open BY DEF Takes
<1>6. d.open BY <1>2, <1>5
<1>7. Takes(d, n, b) BY <1>4, <1>6 DEF Takes
<1> QED BY <1>2, <1>7 DEF d

LEMMA Started ==
  LET d == [Closed EXCEPT !.open = TRUE] IN Takes(d, 0, 0) /\ ~d.pulls
<1> DEFINE d == [Closed EXCEPT !.open = TRUE]
<1>1. d.open = TRUE /\ d.n = 0 /\ d.bits = 0 /\ d.pulls = FALSE BY DEF Closed
<1>2. ASSUME NEW e, e = d
      PROVE  e = [open |-> e.open, n |-> e.n, bits |-> e.bits, pulls |-> e.pulls]
  BY <1>2 DEF Closed
<1>3. d = [open |-> d.open, n |-> d.n, bits |-> d.bits, pulls |-> d.pulls] BY <1>2
<1> HIDE DEF d
<1>4. d = [open |-> d.open, n |-> 0, bits |-> 0, pulls |-> d.pulls] BY <1>1, <1>3
<1>5. d.open /\ ~d.pulls BY <1>1
<1>6. Takes(d, 0, 0) BY <1>4, <1>5 DEF Takes
<1> QED BY <1>5, <1>6 DEF d

\* SDIN that falls while SCLK is up opens a transfer, SDIN that rises closes it.
LEMMA Conditions ==
  ASSUME NEW c
  PROVE  /\ Takes(Conditioned(c, 1, 0), 0, 0) /\ ~Conditioned(c, 1, 0).pulls
         /\ Conditioned(c, 0, 1) = Closed
<1> DEFINE d == [Closed EXCEPT !.open = TRUE]
<1>1. Takes(d, 0, 0) /\ ~d.pulls BY Started
<1>2. /\ Conditioned(c, 1, 0) = CASE 1 = 1 /\ 0 = 0 -> d
                                  [] 1 = 0 /\ 0 = 1 -> Closed
                                  [] OTHER -> c
      /\ Conditioned(c, 0, 1) = CASE 0 = 1 /\ 1 = 0 -> d
                                  [] 0 = 0 /\ 1 = 1 -> Closed
                                  [] OTHER -> c
  BY DEF Conditioned
<1> HIDE DEF d
<1>3. 1 # 0 OBVIOUS
<1>4. Conditioned(c, 1, 0) = d /\ Conditioned(c, 0, 1) = Closed BY <1>2, <1>3
<1> QED BY <1>1, <1>4

\* A codec that waits for a transfer ignores the clock.
LEMMA Closes ==
  Fallen(Closed) = Closed /\ \A x : Sampled(Closed, x) = Closed
BY DEF Fallen, Sampled, Closed

\* A rise of SCLK takes a bit, but for the ninth of a byte.
LEMMA Samples ==
  ASSUME NEW c, NEW n \in 0 .. 26, NEW b, Takes(c, n, b), NEW x
  PROVE  Takes(Sampled(c, x), n + 1, IF n \in {8, 17, 26} THEN b ELSE 2 * b + x)
         /\ Sampled(c, x).pulls = c.pulls
<1> DEFINE d == IF n \in {8, 17, 26} THEN b ELSE 2 * b + x
<1>1. n % 9 = 8 <=> n \in {8, 17, 26} OBVIOUS
<1>2. c.open /\ c.n = n /\ c.bits = b BY DEF Takes
<1>3. n # 27 OBVIOUS
<1>4. Sampled(c, x) = [c EXCEPT !.n = c.n + 1,
                                !.bits = IF c.n % 9 = 8 THEN c.bits ELSE 2 * c.bits + x]
  BY <1>2, <1>3 DEF Sampled
<1>5. Sampled(c, x) = [c EXCEPT !.n = n + 1, !.bits = d] BY <1>1, <1>2, <1>4
<1> HIDE DEF d
<1>6. Takes([c EXCEPT !.n = n + 1, !.bits = d], n + 1, d)
      /\ [c EXCEPT !.n = n + 1, !.bits = d].pulls = c.pulls
  BY Taken
<1> QED BY <1>5, <1>6 DEF d

\* A fall after the eighth bit of a byte pulls the line down.
LEMMA Acknowledges ==
  ASSUME NEW c, NEW n \in 0 .. 27, NEW b, Takes(c, n, b), n = 8 => b = DEVICE
  PROVE  Takes(Fallen(c), n, b) /\ (Fallen(c).pulls <=> n \in {8, 17, 26})
<1> DEFINE q == c.open /\ c.n % 9 = 8
<1>1. n % 9 = 8 <=> n \in {8, 17, 26} OBVIOUS
<1>2. c.open /\ c.n = n /\ c.bits = b BY DEF Takes
<1>3. q <=> n \in {8, 17, 26} BY <1>1, <1>2
<1>4. Fallen(c) = [c EXCEPT !.pulls = q] BY <1>2 DEF Fallen
<1> HIDE DEF q
<1>5. Takes([c EXCEPT !.pulls = q], n, b) /\ [c EXCEPT !.pulls = q].pulls = q BY Pulled
<1>6. Takes(Fallen(c), n, b) /\ Fallen(c).pulls = q BY <1>4, <1>5
<1> QED BY <1>3, <1>6

-----------------------------------------------------------------------------
\* The start of a transfer: SDIN goes down once, while SCLK is up.
LEMMA StartingStep ==
  ASSUME Clocked, Starting, Ending, Sent, tick_counter = 0, Untorn, Edge
  PROVE  Starting' /\ Shifting' /\ Ending' /\ codec'.n = 0
<1>1. /\ counter \in Nat /\ SCLK \in {0, 1} /\ word \in 0 .. 8
      /\ SCLK = 1 => MUX_input = Table[word]
      /\ SCLK = 0 => counter = 0 \/ counter >= HALF + 2
  BY DEF Clocked
<1>2. /\ finish_flag' = 0 /\ out' = 1 /\ serial_data' = IF counter > LOW THEN 0 ELSE 1
      /\ word' = word
  BY Driven, Chosen
<1>3. Line = serial_data' BY <1>2, Lines
<1>4. word < 8 BY DEF Starting
<1>5. Closed.n = 0 /\ \A c : Takes(c, 0, 0) => c.n = 0 BY DEF Closed, Takes
<1>6. CASE High
  <2>1. /\ out = 1 /\ serial_data \in {0, 1}
        /\ serial_data = 1 => Idle
        /\ serial_data = 0 => Open \/ (Idle /\ counter = 0)
    BY <1>6 DEF High, Starting
  <2>2. codec' = Conditioned(codec, serial_data, serial_data') BY <1>3, <1>6, <2>1, CodecEdge, Lines
  <2>3. serial_data' = 1 => Idle'
    <3> SUFFICES ASSUME serial_data' = 1 PROVE Idle' OBVIOUS
    <3>1. CASE serial_data = 1 BY <3>1, <2>1, <2>2, Steady DEF Idle
    <3>2. CASE serial_data = 0 BY <3>2, <2>2, Conditions DEF Idle
    <3> QED BY <3>1, <3>2, <2>1
  <2>4. serial_data' = 0 => Open'
    <3> SUFFICES ASSUME serial_data' = 0 PROVE Open' OBVIOUS
    <3>1. CASE serial_data = 1
      BY <3>1, <2>2, Conditions DEF Open
    <3>2. CASE serial_data = 0
      <4>1. counter # 0 BY <1>2, Constants
      <4>2. codec' = codec /\ Open BY <3>2, <4>1, <2>1, <2>2, Steady
      <4> QED BY <4>2 DEF Open
    <3> QED BY <3>1, <3>2, <2>1
  <2>5. SCLK' = 1 /\ tick_counter' = 0 BY <1>6 DEF High
  <2>6. counter' >= LOW + 2 => serial_data' = 0
    BY <1>1, <1>2, <1>6, Constants DEF High
  <2>7. serial_data' \in {0, 1} BY <1>2
  <2>8. Starting' BY <1>2, <1>4, <2>3, <2>4, <2>5, <2>6, <2>7 DEF Starting
  <2>9. codec'.n = 0 BY <1>5, <2>3, <2>4, <2>7 DEF Idle, Open
  <2> QED BY <2>5, <2>8, <2>9 DEF Shifting, Ending
<1>7. CASE Falls
  <2>1. counter = HALF + 1 /\ SCLK = 1 /\ SCLK' = 0 /\ tick_counter' = 1
    BY <1>7 DEF Falls, Ticks
  <2>2. Open BY <2>1, Constants DEF Starting
  <2>3. codec' = Fallen(codec) BY <1>7, CodecEdge
  <2>4. 0 \in 0 .. 27 /\ 0 # 8 /\ 0 \notin {8, 17, 26} OBVIOUS
  <2>5. Takes(codec', 0, 0) /\ ~codec'.pulls
    BY <2>2, <2>3, <2>4, Acknowledges DEF Open
  <2>6. Prefix(0, Table[word]) = 0 BY <1>1, TableWords, PrefixEnds
  <2>7. ~Rises BY <2>1 DEF Rises
  <2>8. MUX_input' = Table[word] BY <1>1, <2>1, <2>7, Chosen
  <2>9. ~AckTick' BY <2>1 DEF AckTick
  <2>10. Fell' BY <1>7, FellNext
  <2>11. tick_counter' - (1 - SCLK') = 0 BY <2>1
  <2>12. Shifting' BY <1>2, <1>4, <2>5, <2>6, <2>8, <2>9, <2>10, <2>11 DEF Shifting
  <2>13. codec'.n = 0 BY <1>5, <2>5
  <2> QED BY <2>1, <2>12, <2>13 DEF Starting, Ending
<1>8. CASE Rises
  <2>1. SCLK = 0 /\ SCLK' = 1 /\ tick_counter' = 0 /\ ~Fell BY <1>8 DEF Rises
  <2>2. Idle /\ (counter > HALF + 2 => out = 1 /\ serial_data = 0)
    BY <2>1 DEF Starting
  <2>3. \A x : Sampled(codec, x) = Closed BY <2>2, Closes DEF Idle
  <2>4. codec' = Closed \/ codec' = Conditioned(Closed, SDIN, Line)
    BY <1>8, <2>3, CodecEdge
  <2>5. Idle'
    <3>1. CASE serial_data' = 0
      <4>1. counter > HALF + 2
        <5>1. counter > LOW BY <3>1, <1>2
        <5> QED BY <1>1, <2>1, <5>1, Constants DEF Fell
      <4>2. SDIN = 0 BY <2>2, <4>1, Lines
      <4> QED BY <3>1, <1>3, <2>4, <4>2, Steady DEF Idle
    <3>2. CASE serial_data' = 1
      <4>1. SDIN = 0 \/ Conditioned(Closed, SDIN, Line) = Closed
        BY <3>2, <1>3 DEF Conditioned
      <4> QED BY <3>2, <1>3, <2>4, <4>1, Conditions DEF Idle
    <3> QED BY <3>1, <3>2, <1>2
  <2>6. serial_data' = 0 => counter' = 0 BY <1>1, <1>2, <1>8, Constants DEF Rises
  <2>7. ~(counter' >= LOW + 2) BY <1>8, Constants DEF Rises
  <2>8. serial_data' \in {0, 1} BY <1>2
  <2>9. Starting' BY <1>2, <1>4, <2>1, <2>5, <2>6, <2>7, <2>8 DEF Starting
  <2>10. codec'.n = 0 BY <1>5, <2>5 DEF Idle
  <2> QED BY <2>1, <2>9, <2>10 DEF Shifting, Ending
<1>9. CASE Low
  <2>1. SCLK = 0 /\ SCLK' = 0 /\ tick_counter' = 0 BY <1>9 DEF Low
  <2>2. Idle /\ codec' = codec BY <1>9, <2>1, CodecEdge DEF Starting
  <2>3. counter' > HALF + 2 => serial_data' = 0
    BY <1>1, <1>2, <1>9, Constants DEF Low
  <2>4. Idle' BY <2>2 DEF Idle
  <2>5. Starting' BY <1>2, <1>4, <2>1, <2>3, <2>4 DEF Starting
  <2>6. codec'.n = 0 BY <1>5, <2>4 DEF Idle
  <2> QED BY <2>1, <2>5, <2>6 DEF Shifting, Ending
<1> QED BY <1>6, <1>7, <1>8, <1>9, Kinds

\* The bits: each is put out after a fall of SCLK and taken when it rises.
LEMMA ShiftingStep ==
  ASSUME Clocked, Shifting, Ending, tick_counter \in 1 .. 27, Untorn, Edge
  PROVE  /\ Starting' /\ Shifting' /\ Ending'
         /\ codec.n = tick_counter - (1 - SCLK)
         /\ IF Rises THEN Takes(codec', tick_counter, Prefix(tick_counter, Table[word]))
            ELSE codec'.n = codec.n
<1> DEFINE t == tick_counter
           w == Table[word]
<1>1. /\ SCLK \in {0, 1} /\ word \in 0 .. 8 /\ word < 8 /\ MUX_input = w /\ finish_flag = 0
      /\ Takes(codec, t - (1 - SCLK), Prefix(t - (1 - SCLK), w)) /\ (codec.pulls <=> AckTick)
      /\ ~Fell => IF AckTick THEN out = 0 ELSE out = 1 /\ serial_data = DataBit(t)
  BY DEF Clocked, Shifting
<1>2. w \in Nat /\ w <= 65535 BY <1>1, TableWords
<1>3. /\ finish_flag' = 0 /\ word' = word
      /\ IF AckTick THEN out' = 0 ELSE out' = 1 /\ serial_data' = DataBit(t)
  BY <1>1, Driven, Chosen
<1>4. AckTick <=> t \in {9, 18, 27} BY DEF AckTick
<1>5. MUX_input' = w BY <1>1, Chosen
<1>6. \A c, n, b : Takes(c, n, b) => c.n = n BY DEF Takes
<1>7. codec.n = t - (1 - SCLK) BY <1>1, <1>6
<1>8. ASSUME tick_counter' = t
      PROVE  (AckTick' <=> AckTick) /\ DataBit(tick_counter)' = DataBit(t)
  BY <1>1, <1>5, <1>8 DEF AckTick, DataBit, Bit
<1>9. ASSUME tick_counter' = t,
             Takes(codec', t - (1 - SCLK'), Prefix(t - (1 - SCLK'), w)), codec'.pulls <=> AckTick
      PROVE  Starting' /\ Shifting' /\ Ending'
  <2>1. Shifting' BY <1>1, <1>3, <1>5, <1>8, <1>9 DEF Shifting
  <2>2. tick_counter' # 0 /\ tick_counter' # 28 BY <1>9
  <2> QED BY <2>1, <2>2 DEF Starting, Ending
<1>10. CASE High
  <2>1. SCLK = 1 /\ SCLK' = 1 /\ tick_counter' = t /\ ~Fell /\ ~Rises
    BY <1>10, FellNext DEF High, Rises
  <2>2. SDIN = Line BY <1>1, <1>3, <2>1, Lines
  <2>3. codec' = codec BY <1>10, <2>2, CodecEdge, Steady
  <2> QED BY <1>1, <1>7, <1>9, <2>1, <2>3
<1>11. CASE Falls
  <2>1. SCLK = 1 /\ SCLK' = 0 /\ tick_counter' = t + 1 /\ ~Rises
    BY <1>11 DEF Falls, Ticks, Rises
  <2>2. Takes(codec, t, Prefix(t, w))
    <3>1. t - (1 - SCLK) = t BY <2>1
    <3> QED BY <1>1, <3>1
  <2>3. codec' = Fallen(codec) BY <1>11, CodecEdge
  <2>4. t = 8 => Prefix(t, w) = DEVICE BY <1>2, PrefixEnds
  <2>5. t \in 0 .. 27 OBVIOUS
  <2>6. Takes(codec', t, Prefix(t, w)) /\ (codec'.pulls <=> t \in {8, 17, 26})
    BY <2>2, <2>3, <2>4, <2>5, Acknowledges
  <2>7. codec'.n = t /\ codec.n = t BY <1>6, <2>2, <2>6
  <2>8. Fell' BY <1>11, FellNext
  <2>9. CASE t = 27
    <3>1. tick_counter' = 28 BY <2>1, <2>9
    <3>2. Ending' BY <1>1, <1>3, <2>1, <2>7, <2>8, <2>9, <3>1 DEF Ending
    <3> QED BY <1>7, <2>1, <2>7, <3>1, <3>2 DEF Starting, Shifting
  <2>10. CASE t # 27
    <3>1. tick_counter' \in 1 .. 27 /\ tick_counter' - (1 - SCLK') = t BY <2>1, <2>10
    <3>2. AckTick' <=> t \in {8, 17, 26} BY <2>1 DEF AckTick
    <3>3. Shifting' BY <1>1, <1>3, <1>5, <2>6, <2>8, <3>1, <3>2 DEF Shifting
    <3>4. tick_counter' # 0 /\ tick_counter' # 28 BY <3>1
    <3> QED BY <1>7, <2>1, <2>7, <3>3, <3>4 DEF Starting, Ending
  <2> QED BY <2>9, <2>10
<1>12. CASE Rises
  <2>1. SCLK = 0 /\ SCLK' = 1 /\ tick_counter' = t /\ ~Fell BY <1>12 DEF Rises
  <2>2. t - (1 - SCLK) = t - 1 /\ t - (1 - SCLK') = t /\ (t - 1) + 1 = t /\ t - 1 \in 0 .. 26
    BY <2>1
  <2>3. Takes(codec, t - 1, Prefix(t - 1, w)) BY <1>1, <2>2
  <2>4. SDIN = Line /\ (~AckTick => Line = DataBit(t)) BY <1>1, <1>3, <2>1, Lines
  <2>5. codec' = Sampled(codec, Line) BY <1>12, <2>4, CodecEdge, Steady
  <2>6. t - 1 \in {8, 17, 26} <=> AckTick BY <1>4
  <2>7. Takes(codec', t, IF AckTick THEN Prefix(t - 1, w) ELSE 2 * Prefix(t - 1, w) + Line)
        /\ codec'.pulls = codec.pulls
    BY <2>2, <2>3, <2>5, <2>6, Samples
  <2>8. Prefix(t, w) = IF AckTick THEN Prefix(t - 1, w) ELSE 2 * Prefix(t - 1, w) + Line
    <3>1. CASE AckTick BY <3>1, <1>2, <1>4, Grows
    <3>2. CASE ~AckTick
      <4>1. t \in 1 .. 26 /\ t # 9 /\ t # 18 /\ t \notin {9, 18, 27} BY <3>2, <1>4
      <4>2. Line = Bit(Framed(w), 24 - Pushed(t)) BY <3>2, <4>1, <1>1, <1>2, <2>4, BitsPushed
      <4>3. Prefix(t, w) = 2 * Prefix(t - 1, w) + Bit(Framed(w), 24 - Pushed(t))
        BY <4>1, <1>2, Grows
      <4> QED BY <3>2, <4>2, <4>3
    <3> QED BY <3>1, <3>2
  <2>9. Takes(codec', t, Prefix(t, w)) /\ (codec'.pulls <=> AckTick)
    BY <1>1, <2>7, <2>8
  <2> QED BY <1>7, <1>9, <1>12, <2>1, <2>2, <2>9
<1>13. CASE Low
  <2>1. SCLK = 0 /\ SCLK' = 0 /\ tick_counter' = t /\ ~Rises BY <1>13 DEF Low, Rises
  <2>2. codec' = codec BY <1>13, CodecEdge
  <2> QED BY <1>1, <1>7, <1>9, <2>1, <2>2
<1> QED BY <1>10, <1>11, <1>12, <1>13, Kinds

\* The end: SDIN goes up once, while SCLK is up, after the last bit of the word.
LEMMA EndingStep ==
  ASSUME Clocked, Ending, Sent, tick_counter = 28, Untorn, Edge
  PROVE  /\ Starting' /\ Shifting' /\ Ending'
         /\ codec.n \in {0, 27} /\ codec'.n \in {0, 27}
<1>1. /\ counter \in Nat /\ SCLK \in {0, 1} /\ word \in 0 .. 8 /\ finish_flag \in {0, 1}
      /\ SCLK = 0 => counter = 0 \/ counter >= HALF + 2
  BY DEF Clocked
<1>2. /\ finish_flag' = 1 /\ out' = 1
      /\ serial_data' = IF counter > LOW /\ SCLK = 1 THEN 1 ELSE 0
  BY Driven
<1>3. Line = serial_data' /\ serial_data' \in {0, 1} BY <1>2, Lines
<1>4. /\ finish_flag = 0 <=> Fell
      /\ finish_flag = 0 => word < 8
      /\ SCLK = 0 => codec.n = 27 /\ (~Fell => out = 1 /\ serial_data = 0)
      /\ SCLK = 1 => /\ out = 1 /\ serial_data \in {0, 1} /\ codec.n \in {0, 27}
                     /\ serial_data = 1 => Idle
                     /\ counter >= LOW + 2 => serial_data = 1
  BY DEF Ending
<1>5. codec.n \in {0, 27} BY <1>1, <1>4
<1>6. Closed.n = 0 /\ \A c : Takes(c, 0, 0) => c.n = 0 BY DEF Closed, Takes
<1>7. CASE High
  <2>1. SCLK = 1 /\ SCLK' = 1 /\ tick_counter' = 28 BY <1>7 DEF High
  <2>2. codec' = Conditioned(codec, serial_data, serial_data')
    BY <1>3, <1>4, <1>7, <2>1, CodecEdge, Lines
  <2>3. serial_data' = 1 => Idle'
    <3> SUFFICES ASSUME serial_data' = 1 PROVE Idle' OBVIOUS
    <3>1. CASE serial_data = 1 BY <3>1, <1>4, <2>1, <2>2, Steady DEF Idle
    <3>2. CASE serial_data = 0 BY <3>2, <2>2, Conditions DEF Idle
    <3> QED BY <3>1, <3>2, <1>4, <2>1
  <2>4. codec'.n \in {0, 27}
    <3>1. CASE serial_data' = 1 BY <3>1, <2>3, <1>6 DEF Idle
    <3>2. CASE serial_data' = 0 /\ serial_data = 1 BY <3>2, <2>2, <1>6, Conditions
    <3>3. CASE serial_data' = 0 /\ serial_data = 0 BY <3>3, <2>2, <1>5, Steady
    <3> QED BY <3>1, <3>2, <3>3, <1>3, <1>4, <2>1
  <2>5. counter' >= LOW + 2 => serial_data' = 1
    BY <1>1, <1>2, <1>7, Constants DEF High
  <2>6. ~Fell' BY <2>1 DEF Fell
  <2>7. Ending' BY <1>2, <1>3, <2>1, <2>3, <2>4, <2>5, <2>6 DEF Ending
  <2> QED BY <1>5, <2>1, <2>4, <2>7 DEF Starting, Shifting
<1>8. CASE Falls
  <2>1. counter = HALF + 1 /\ SCLK = 1 /\ SCLK' = 0 /\ tick_counter' = 0 /\ counter' = HALF + 2
    BY <1>8 DEF Falls, Ticks
  <2>2. Idle BY <1>4, <2>1, Constants
  <2>3. codec' = Closed BY <1>8, <2>2, CodecEdge, Closes DEF Idle
  <2>4. word # 8 BY <2>1, Constants DEF Sent
  <2>5. ~Fell BY <1>8, FellNext
  <2>6. word' < 8 BY <1>1, <2>4, <2>5, Chosen
  <2>7. Starting' BY <2>1, <2>3, <2>6, Constants DEF Starting, Idle
  <2> QED BY <1>5, <1>6, <2>1, <2>3, <2>7 DEF Shifting, Ending
<1>9. CASE Rises
  <2>1. SCLK = 0 /\ SCLK' = 1 /\ tick_counter' = 28 /\ ~Fell BY <1>9 DEF Rises
  <2>2. out = 1 /\ serial_data = 0 /\ serial_data' = 0 /\ codec.n = 27
    BY <1>2, <1>4, <2>1
  <2>3. SDIN = 0 /\ Line = 0 BY <1>3, <2>2, Lines
  <2>4. \A x : Sampled(codec, x) = codec BY <2>2 DEF Sampled
  <2>5. codec' = codec BY <1>9, <2>3, <2>4, CodecEdge, Steady
  <2>6. ~(counter' >= LOW + 2) /\ ~Fell' BY <1>9, Constants DEF Rises, Fell
  <2>7. Ending' BY <1>2, <2>1, <2>2, <2>5, <2>6 DEF Ending
  <2> QED BY <1>5, <2>1, <2>5, <2>7 DEF Starting, Shifting
<1>10. CASE Low
  <2>1. SCLK = 0 /\ SCLK' = 0 /\ tick_counter' = 28 BY <1>10 DEF Low
  <2>2. codec' = codec /\ codec.n = 27 BY <1>4, <1>10, <2>1, CodecEdge
  <2>3. ~Fell' BY <1>10, FellNext
  <2>4. serial_data' = 0 BY <1>2, <2>1
  <2>5. Ending' BY <1>2, <2>1, <2>2, <2>3, <2>4 DEF Ending
  <2> QED BY <1>5, <2>1, <2>2, <2>5 DEF Starting, Shifting
<1> QED BY <1>7, <1>8, <1>9, <1>10, Kinds

-----------------------------------------------------------------------------
\* What has been received stays, or grows by the word that is on its way.
LEMMA Keeps ==
  ASSUME Received, Done' = Done, received' = received PROVE Received'
BY DEF Received

LEMMA Gains ==
  ASSUME Received, Done \in Nat, Done' = Done + 1, received' = Append(received, Table[Done]),
         Table[Done] \in Int
  PROVE  Received'
<1> DEFINE s == received
           x == Table[Done]
           d == Done
<1>1. s \in Seq(Int) /\ Len(s) = d /\ \A n \in 1 .. d : s[n] = Table[n - 1] BY DEF Received
<1>2. x \in Int /\ d \in Nat /\ x = Table[d] OBVIOUS
<1>3. received' = Append(s, x) /\ Done' = d + 1 OBVIOUS
<1> HIDE DEF s, x, d
<1>4. /\ Append(s, x) \in Seq(Int) /\ Len(Append(s, x)) = d + 1
      /\ \A i \in 1 .. d : Append(s, x)[i] = s[i]
      /\ Append(s, x)[d + 1] = x
  BY <1>1, <1>2, AppendProperties
<1>5. ASSUME NEW n \in 1 .. d + 1 PROVE Append(s, x)[n] = Table[n - 1]
  <2>1. CASE n = d + 1
    <3>1. n - 1 = d BY <2>1, <1>2
    <3> QED BY <2>1, <3>1, <1>2, <1>4
  <2>2. CASE n # d + 1
    <3>1. n \in 1 .. d BY <2>2, <1>2
    <3> QED BY <3>1, <1>1, <1>4
  <2> QED BY <2>1, <2>2
<1> QED BY <1>3, <1>4, <1>5 DEF Received

LEMMA ReceivedStep == ASSUME SetUp, Untorn, Edge PROVE Received'
<1>1. /\ tick_counter \in 0 .. 28 /\ SCLK \in {0, 1} /\ word \in 0 .. 8
      /\ finish_flag \in {0, 1} /\ Clocked /\ Starting /\ Shifting /\ Ending /\ Sent /\ Received
  BY DEF SetUp, Clocked
<1>2. received' = IF codec'.n = 27 /\ codec.n = 26
                  THEN Append(received, codec'.bits % 2^16) ELSE received
  BY Zenon DEF Edge, Codec, Untorn
<1>3. High \/ Falls \/ Rises \/ Low BY <1>1, Kinds
<1>4. CASE tick_counter = 0
  <2>1. codec'.n = 0 BY <1>1, <1>4, StartingStep
  <2>2. received' = received BY <1>2, <2>1
  <2>3. word' = word /\ tick_counter' \in {0, 1}
    BY <1>1, <1>3, <1>4, Chosen DEF High, Falls, Rises, Low, Ticks
  <2>4. Done' = Done BY <1>4, <2>3 DEF Done
  <2> QED BY <1>1, <2>2, <2>4, Keeps
<1>5. CASE tick_counter \in 1 .. 27
  <2>1. /\ codec.n = tick_counter - (1 - SCLK) /\ word' = word
        /\ word < 8 /\ finish_flag' = 0
        /\ IF Rises THEN Takes(codec', tick_counter, Prefix(tick_counter, Table[word]))
           ELSE codec'.n = codec.n
    BY <1>1, <1>5, ShiftingStep, Chosen, Driven DEF Shifting
  <2>2. CASE Rises /\ tick_counter = 27
    <3>1. codec'.n = 27 /\ codec'.bits = Prefix(27, Table[word]) /\ SCLK = 0 /\ SCLK' = 1
          /\ tick_counter' = 27
      BY <2>1, <2>2 DEF Takes, Rises
    <3>2. codec.n = 26 BY <2>1, <2>2, <3>1
    <3>3. Table[word] \in Nat /\ Prefix(27, Table[word]) % 2^16 = Table[word]
      BY <1>1, TableWords, PrefixEnds
    <3>4. received' = Append(received, Table[word]) BY <1>2, <3>1, <3>2, <3>3
    <3>5. Done = word /\ Done' = word + 1 BY <2>1, <2>2, <3>1 DEF Done
    <3>6. word \in Nat /\ Table[word] \in Int BY <1>1, <3>3
    <3> QED BY <1>1, <3>4, <3>5, <3>6, Gains
  <2>3. CASE Rises /\ tick_counter # 27
    <3>1. codec'.n = tick_counter /\ tick_counter' = tick_counter
      BY <2>1, <2>3 DEF Takes, Rises
    <3>2. received' = received BY <1>2, <2>3, <3>1
    <3>3. Done' = Done BY <1>5, <2>1, <2>3, <3>1 DEF Done
    <3> QED BY <1>1, <3>2, <3>3, Keeps
  <2>4. CASE ~Rises
    <3>1. received' = received BY <1>2, <2>1, <2>4
    <3>2. Done' = Done
      BY <1>3, <1>5, <2>1, <2>4 DEF Done, High, Falls, Low, Ticks
    <3> QED BY <1>1, <3>1, <3>2, Keeps
  <2> QED BY <2>2, <2>3, <2>4
<1>6. CASE tick_counter = 28
  <2>1. codec.n \in {0, 27} BY <1>1, <1>6, EndingStep
  <2>2. received' = received BY <1>2, <2>1
  <2>3. /\ finish_flag' = 1 /\ (finish_flag = 0 <=> Fell)
        /\ word' = IF Fell THEN word + 1 ELSE word
    BY <1>1, <1>6, Chosen, Driven DEF Ending
  <2>4. tick_counter' \in {0, 28}
    BY <1>3, <1>6 DEF High, Falls, Rises, Low, Ticks
  <2>5. Done = IF finish_flag = 0 THEN word + 1 ELSE word BY <1>6 DEF Done
  <2>6. Done' = word' BY <2>3, <2>4 DEF Done
  <2>7. Done' = Done BY <1>1, <2>3, <2>5, <2>6
  <2> QED BY <1>1, <2>2, <2>7, Keeps
<1> QED BY <1>1, <1>4, <1>5, <1>6

LEMMA SetUpEdge == ASSUME SetUp, Untorn, Edge PROVE SetUp'
<1>1. tick_counter \in 0 .. 28 /\ Clocked /\ Starting /\ Shifting /\ Ending /\ Sent
  BY DEF SetUp, Clocked
<1>2. Starting' /\ Shifting' /\ Ending'
  <2>1. CASE tick_counter = 0 BY <2>1, <1>1, StartingStep
  <2>2. CASE tick_counter \in 1 .. 27 BY <2>2, <1>1, ShiftingStep
  <2>3. CASE tick_counter = 28 BY <2>3, <1>1, EndingStep
  <2> QED BY <2>1, <2>2, <2>3, <1>1
<1> QED BY <1>1, <1>2, ClockedStep, SentStep, ReceivedStep DEF SetUp

\* A step that leaves a bit torn, or leaves it whole.
LEMMA SetUpStep == ASSUME ~torn => SetUp, [Next]_vars PROVE ~torn' => SetUp'
<1> SUFFICES ASSUME ~torn' PROVE SetUp' OBVIOUS
<1>1. CASE Edge
  <2>1. torn' = (torn \/ Torn) BY <1>1 DEF Edge, Codec
  <2>2. Untorn BY <2>1 DEF Untorn
  <2>3. SetUp BY <2>2 DEF Untorn
  <2> QED BY <1>1, <2>2, <2>3, SetUpEdge
<1>2. CASE Press \/ Release \/ Bclk \/ UNCHANGED vars
  <2>1. UNCHANGED <<i2c, select, codec, received>> /\ torn' = torn
    BY <1>2 DEF Press, Release, Bclk, vars
  <2>2. UNCHANGED <<counter, tick_counter, SCLK, serial_data, start_condition, out,
                    finish_flag, word, MUX_input, counting_state, ignition, read_enable>>
    BY <2>1 DEF i2c, select
  <2>3. SetUp BY <2>1
  <2>4. Clocked /\ Starting /\ Shifting /\ Ending /\ Sent BY <2>3 DEF SetUp
  <2>5. reset' \in {0, 1}
    BY <2>4, <1>2 DEF Press, Release, Bclk, vars, Clocked
  <2>6. Clocked' BY <2>2, <2>4, <2>5 DEF Clocked
  <2>7. Starting' /\ Shifting' /\ Ending' /\ Sent'
    BY <2>1, <2>2, <2>4 DEF Starting, Shifting, Ending, Sent, Fell, Idle, Open, AckTick,
                            DataBit, Bit
  <2>8. Received' BY <2>1, <2>2, <2>3 DEF SetUp, Received, Done
  <2> QED BY <2>6, <2>7, <2>8 DEF SetUp
<1> QED BY <1>1, <1>2 DEF Next

LEMMA SetUpBase == Init => SetUp
<1> SUFFICES ASSUME Init PROVE SetUp OBVIOUS
<1>1. Clocked BY Constants DEF Init, Clocked, Fell
<1>2. Starting BY Constants DEF Init, Starting, Idle
<1>3. Shifting /\ Ending BY DEF Init, Shifting, Ending
<1>4. Sent BY DEF Init, Sent
<1>5. Received
  <2>1. Done = 0 /\ received = <<>> BY DEF Init, Done
  <2> QED BY <2>1 DEF Received
<1> QED BY <1>1, <1>2, <1>3, <1>4, <1>5 DEF SetUp

LEMMA InOrder == ASSUME SetUp PROVE SetUpInOrder
<1>1. /\ tick_counter \in 0 .. 28 /\ word \in 0 .. 8 /\ received \in Seq(Int)
      /\ Len(received) = Done /\ \A n \in 1 .. Done : received[n] = Table[n - 1]
  BY DEF SetUp, Clocked, Received
<1>2. Done <= 8
  <2>1. tick_counter = 27 => word < 8 BY DEF SetUp, Shifting
  <2>2. tick_counter = 28 /\ finish_flag = 0 => word < 8 BY DEF SetUp, Ending
  <2> QED BY <1>1, <2>1, <2>2 DEF Done
<1>3. read_enable = 1 => Done = 8
  <2>1. read_enable = 1 => word = 8 /\ tick_counter = 28 /\ finish_flag = 1
    BY <1>1 DEF SetUp, Sent
  <2> QED BY <2>1 DEF Done
<1> QED BY <1>1, <1>2, <1>3 DEF SetUpInOrder

\* SetUpInOrder of Top.v and I2C_Protocol.v: at whatever edges KEY0 stops the
\* bit clock, unless at one just after a fall of SCLK, and for every width and
\* division of that clock, the codec takes the eight words in their order, each
\* once and whole, before the ROM is read.
THEOREM WordsInOrder == Spec => []SetUpInOrder
<1> DEFINE I == ~torn => SetUp
<1>1. Init => I BY SetUpBase
<1>2. I /\ [Next]_vars => I' BY SetUpStep
<1>3. I => SetUpInOrder
  <2>1. CASE torn BY <2>1 DEF SetUpInOrder
  <2>2. CASE ~torn BY <2>2, InOrder
  <2> QED BY <2>1, <2>2
<1> QED BY <1>1, <1>2, <1>3, PTL DEF Spec

=============================================================================
