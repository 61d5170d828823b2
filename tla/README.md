# Fake Mario: formal models

The repository builds a game, "I Wanna Be the Fake Mario", for an FPGA board: a
C program on a Nios II decides everything about the game, and Verilog and SystemVerilog
around it draw the screen, move a group of spines, play music and connect a USB
keyboard. This directory holds TLA+ models of the program and of that hardware, the TLC
configurations that check them, and proofs checked by TLAPS. `PROJECT.json` maps
every definition to its source lines and lists runs, mutants, hazards and theorems.

## 1. The system

| part | source | state | operations | interacts with |
|---|---|---|---|---|
| geometry and maps | `software/fake_mario_app/block.c`, `spike.c` | `level_block_info`, `level_spike_info` | load a level; is this place a wall, ground, a spike, off the screen | called by motion and level logic; reads the spines' position at 0x80 |
| Mario's motion | `mario_move.c` | `mario_move_t` | begin a level; one frame under one key | called by the game loop |
| game loop, level logic | `main.c` | label reached, `level`, `keycode_curr`, `mario_move` | LEVEL0, LEVEL1, LEVEL2, LEVEL3, the `_SWITCH` labels, waits for R | polls the keyboard, draws, prints |
| screen word | `draw_screen.c`, `fake_mario_top.sv` | the 32-bit PIO at 0x90 | pack and unpack Mario, level, death, spines | program to hardware |
| moving spines | `spine_move.sv` | `State`, `spine_posx`, `counter` | one step per clock; trigger, reset | word at 0x90 in, position at 0x80 out |
| USB keyboard driver | `keyboard/keyboard_util.c`, `usb.c` | device state, lists of transfers | `keyboard_init`, `get_keycode`, retries, hot plugging | the memory of the CY7C67200 |
| HPI interface | `keyboard/io_handler.c`, `hpi_io_intf.sv` | six parallel ports, the interface's registers, the data bus | `IO_init`, `IO_write`, `IO_read`; one step per clock; KEY0 | called by `usb.c`; the chip's port |
| serial line | BSP, `altera_avalon_jtag_uart_*.c`; `fake_mario_jtag_uart_0.v` | two rings, `irq_enable`, `host_inactive`, `timeout`; the device's FIFOs, `pause_irq` | write, read, ioctl, close; the interrupt routine; the alarm | called by printf; the host's terminal |
| VGA and drawing | `VGA_controller.sv`, `draw_engine.sv`, `brick_draw_engine.sv` | counters, sync signals, the registers of the pixel chain, save points | one step per clock; KEY0 | reads the word at 0x90 and the spines; the DAC |
| texts, pictures | `startinfo.sv`, `deathinfo.sv`, `font_rom.sv`, `OCM*.sv` | none (tables) | which letter and texel lies at a position | asked by the drawing engines |
| audio | `Audio/Top.v`, `I2C_Protocol.v` | bit clock, ticks, words; the counters of the player | configure the codec, then play the ROM; KEY0 | the codec, over two wires and over a sound port |

What makes the system hard to get right is not any one routine. The program and
the spines run at the same time and meet only through two registers; maps,
level, Mario and picture change one after the other when a level changes;
counters that limit the jumps are counted, compared and reset in three
different functions. The keyboard's chip answers late, twice or not at all through one word
and one flag. A call to printf shares two rings and a word of interrupt bits with an interrupt
routine and an alarm. The hardware's parts pass data from register to register
and agree only if each counts the same number of clocks, and KEY0 resets some of these registers
and not the others.

What should be true of each part:

* geometry: the few points it samples find every block Mario touches; the read
  past the end of the array, which it does make, never matters;
* motion: no wall is entered, the screen is not left, upward speed is paid for
  by a jump that the counters allow, and Mario comes to rest;
* game loop: the dead are not played, a life begins in a safe place and without
  spines, the labels lead only where the game's rules allow, a held R restarts
  once;
* screen word: what it shows is what is;
* spines: they keep their pace, are withdrawn by a reset in any state, reach the
  end, and are never met by the program before they are set off;
* keyboard driver: a key it hands to the game was really down, and lately; no
  report is asked for before the keyboard is set up; it comes back, and follows the player;
* HPI: for `usb.c` the chip is a memory, nobody drives the bus against the chip, and a list
  that the chip may take is one it can execute;
* serial line: both directions keep order and lose nothing, neither is left
  without its interrupt, and every call comes back;
* picture: every position is shown once, in order and with its signals; Mario and level are
  drawn for the same position; the picture, which keeps the maps a second time, agrees with the maps
  that decide about walls and death; no letter is cut;
* audio: the codec gets its words in order, and then whole words of the ROM in a row.

## 2. The modules

| module | models | proved about in |
|---|---|---|
| `Geometry` | `block.c`, `spike.c`, constants of `mario_move.h`, `block.h` | `GeometryProofs` |
| `MarioMove` | `mario_move.c`, `handle_keycode` of `main.c` | `GameProofs` |
| `Game` | `main.c`, `draw_screen.c`; the keyboard and the spines as its environment | `GameProofs` |
| `GameFlow` | abstract: the screens of the game and which may follow which | refined by `Game` |
| `SpineMove` | `spine_move.sv` clock by clock, with the program's draws and polls | `SpineProofs` |
| `SpineLaw` | what a polling program may rely on about the spines | used by `Game` |
| `SpinePoll` | abstract: a program that draws and polls under `SpineLaw` | refined by `SpineMove` |
| `Keyboard` | `keyboard_util.c`, `usb.c`, with the USB chip, the keyboard and the player as environment | `KeyboardProofs` |
| `UsbLists` | the words of the nine lists of `keyboard_init` and of `get_keycode`'s, and what the chip can execute | |
| `Hpi` | `io_handler.c` store by store, `hpi_io_intf.sv` clock by clock, the chip's port as environment | `HpiProofs` |
| `ChipMemory` | abstract: the memory that `usb.c` takes the interface for | refined by `Hpi` |
| `JtagUart` | the serial line's driver and its device, with the host as environment | `UartProofs` |
| `CharPipe` | abstract: a pipe of bounded room | refined by `JtagUart`, once for each direction |
| `Vga` | `VGA_controller.sv`, `draw_engine.sv`, `brick_draw_engine.sv` | `VgaProofs` |
| `Raster` | abstract: the stream of positions that a monitor is promised | refined by `Vga` |
| `Texts` | `startinfo.sv`, `deathinfo.sv`, the addressing of `font_rom.sv` | |
| `Audio` | `Top.v`, `I2C_Protocol.v`, with the codec as environment | `AudioProofs` |
| `MCGame`, `MCPlay`, `MCSpineMove`, `MCKeyboard`, `MCHpi`, `MCJtagUart`, `MCVga`, `MCAudio` | instances for TLC | |

`Game` extends `MarioMove`, which extends `Geometry`. `Game` takes the spines'
next position from `SpineAfter` of `SpineLaw`; `SpineMove` implements
`SpinePoll`, whose `Poll` uses the same operator. The two halves of the system
are so composed by assumption and guarantee: the program is checked against the
law, the hardware is shown to keep it. `Vga` extends `Geometry` too, so that the blocks it draws are
compared with the very operators by which the program decides. `Keyboard` treats a list as its number and
the chip's memory as something that can be read and written; `Hpi`, which extends `UsbLists`, shows
that the bus is such a memory and that the words of the lists can be executed. Of `Keyboard`
`Game` uses that `get_keycode` returns one of `Keys`. `JtagUart` and `Audio` stand beside them:
printf and the music influence nothing in the game.

### State and steps

`Geometry` has no state. A map is the set of the indices of its blocks.
`is_block` in the code does not check its index, and Mario at the bottom edge
asks for row 24 (index 768 and up), at the right edge for column 32. The model
keeps that: the constant `Beyond` lists the sets of indices past the array that may
read as 1, and they are unioned to the map. In the linked program
`level_spike_info` follows directly (`fake_mario_app.objdump` lines 108, 122), where in level 2 one
byte holds 1, at index 785; `{785}` is that build, `{}` and `BeyondArray` are the extremes.
C's division and remainder truncate towards zero and are modelled so
(`Quot`, `Rem`): `is_spike` does ask for `pos_y - 1`.

`MarioMove`: `mario_move_t` is a record. Its `*_last` fields are written at the top of
`mario_move_update` and read only below it, so they are not kept. The pixel loops
of `get_speed` are one set expression: the first blocked pixel, or the end of
the range (`ScanEnd`), then the step back by one (`Travelled`) and the cut to
the limit (`Clamped`). `handle_keycode` counts and masks the key first, then moves.

`Game`: one action is one round of one loop of `main`, from one return of
`get_keycode` to the next call. The label and loop that main is in is `pc`:

| `pc` | loop | actions |
|---|---|---|
| `level0` | lines 145-148 | `Level0Waits`, `Level0Starts` (falls into LEVEL1) |
| `play` | lines 161-204, 217-268 | `FrameRestart` (R), `FrameEscape` (ESC), `FrameMoves` |
| `wait` | lines 177, 194, 233, 250, 258 | `WaitGoesOn`, `WaitEnds` (goto the label in `retry`) |
| `level3` | line 274 | `Level3Waits`, `Level3Ends` |

The two game loops are the same code with the level's number changed, and are
one set of actions. `LEVEL_BEFORE` and `LEVEL_NEXT` come from level 2 only, as in
`handle_level`. `BeginLevel` is the code between a `LEVELn` label and its loop: `mario_move_init`, a
first fall with no key, a draw, and only then the new maps; `loaded` is the level
whose maps are in memory. `screen` is the word at 0x90, each field masked to its
bits. `keycode_curr` starts with what was on the stack: it is only compared with
R, so `Init` picks R or not R. The keyboard's report with no key down is
0 (`NO_KEY`); 240 (`KEYBOARD_NONE`) is the program's own code.

`SpineMove`: `Clock` is one rising edge with the two `case` statements merged (the
second overrides the first in `Wait` and `Start`). `Draw` and `Poll` are the program
between two edges. A poll comes at least `MinHold` clocks after the last change
of the word: `get_keycode` sleeps 10 ms, 500000 clocks at 50 MHz, and two are
enough for every property.

`Keyboard`: `at` is where the driver is, `step` the request it is at. The nine requests of
`keyboard_init` are the same code nine times, and so are the waits of `get_keycode`:

| `at` | code |
|---|---|
| `reset`, `boot`, `look`, `absent` | `UsbSoftReset`, the two interrupts with their COMM_ACK, the looks for a keyboard |
| `send`, `words`, `pointer` | a list's first words with the control byte of its first descriptor, its other words, its pointer |
| `flag`, `resend`, `sleep` | the list is sent again until the flag is up |
| `stray` | the pointer 0x0576 between `UsbGetConfigDesc2` and `UsbSetConfig` |
| `read`, `clear` | `UsbWaitTDListDone`: read the message, write 0 |
| `check`, `retry`, `retryclear`, `retrywait`, `retryread` | the control byte, `UsbGetRetryCnt` |
| `main`, `pause`, `fetch`, `status`, `tries`, `gone` | `get_keycode` around that; hot plug |

A list is written in three steps: its words up to the control byte at 0x0508, the rest of them, and the pointer; every
other access that reads or writes a message, a flag or a pointer is one. The chip and the player act between any two, so
a list that the pointer still shows from before is executed half written too (`list = MIXED`, `ExecuteMixed`), or whole between its words and its
pointer, and is then shown a second time. The chip is modelled as the driver and its headers use it: one list pointer, one message word, a flag that
a read of the word clears ("the read clears any pending interrupts", `usb.c`), HUSB_ARMV and HUSB_AINS posted in the same word. It executes a
request in two steps, the SETUP packet of the first descriptor, whose control byte is all that the driver looks at (keyboard_util.c:263-296), and
the rest, which may fail unnoticed. `UsbClassRequest` sends SET_IDLE 0, so the keyboard reports only news, and a NAK leaves the last report
at 0x051e: that is how a held key stays held. History are `acked`, the requests whose SETUP packet went through since the reset, `mixed`, whether words of two
lists have been executed, and `age`, how many messages `get_keycode` has taken since the key at 0x051e was last down or a transfer failed. `Fresh` bounds `age`
below 3: the message of an earlier sending may end the wait, so the key can be a call older than it should be, but no older.
A behaviour has one `setting`, which says how wild the chip is and where the keyboard may be pulled.

`Hpi`: a step is a rising edge of the 50 MHz clock. A call of `usb.c` is a list of accesses, an access six
stores to the pins; `at` is the store the processor is at, and it stores `MinStep` to `MaxStep` edges after the one
before. `Edge` moves the ports, the interface's registers, the bus and the chip's port together. `OTG_DATA` is
`JUNK` when both sides drive, and what it last was, for `Hold` periods, when neither does: `IO_write` lets
go of the bus before the chip takes the word, and `IO_read` reads it when its strobe has ended. `Script` is the
sequence of calls. Which of them comes next is what the driver reads (`Following`): while the flag in HPI_STATUS is down the list is sent again,
while the message is not 0x1000 it is read again, while the control byte is not 3 it is read again; the flag goes down when the message is read, and
nothing asks whether the pointer still shows a list. `Execute` is the chip taking what its pointer shows, a list or the words at 0x0576, at any moment. The
history variable `over` says that the list at 0x0500 was begun over another that the pointer still showed.

`JtagUart`: a step of the thread is what lies between two accesses to what it shares; `isr` is where
the interrupt routine is, and while it or the alarm's callback runs the thread does not. `Mask`, `Load` and
`Store` are the read-modify-write of `irq_enable` with interrupts off. A waiting loop and the look that follows it are two steps
(`WWait`, `WTest`; `RWait`, `RTest`). Of the device `RI` and `WI` are `ipen_AF` and `ipen_AE` of its Verilog: the receive interrupt wants at most `Threshold` free places in the
FIFO or `pause_irq`, which a pause of the host sets while there is something to read and every read of the data register takes back. The comparisons
`fifo_AE` and `fifo_AF`, registers there, are taken as settled by the next look. A read of the data register takes its RVALID from one clock and
the FIFO's level from the next; `IsrReadCrossed` is the character that arrives in between. A character is its
number in its direction. The rings' lengths are constants, so that the instances can have small ones.

`Vga`: `Clk` is one edge of the clock, every second one an edge of VGA_CLK too. What a colour register holds is
modelled by what its colour was made of: the position tested, the position whose
texel it shows, the word that was up. `Shows` says which layers those add up to. `Texts` is the chain of
`else if`: a pixel belongs to the first cell whose box holds it.

`Audio`: `Edge` is an edge of `clk`, `Bclk` one of BCLK, in any order, but a word of the ROM arrives before
the next BCLK. SCLK and `finish_flag`, two registers that are used as clocks, act in the step
that moves them. When data moves together with a rising SCLK the codec may see either.

## 3. Properties and runs

| run | instance | shows |
|---|---|---|
| `play` | `MCPlay`: the recorded winning game (123 keys) with up to 2 wrong keys (W, none, R) or one wrong D anywhere, then none, R, ENTER; the way onto the spike of level 1 (26 keys) with one wrong key or ESC; 9 keys into level 2 and then A, D free; onto the first hill of level 1 and then A, D, none free, with anything past the map | `TypeOK`, `DeathShown`, `JumpBudget`, `FaithfulPicture`, `NoFreeAscent`, `LifeStartsSafe`, `SpinesHeldBack`, `RefinesFlow`, `StalePictureLastsOneFrame`, `NoWallEntry`, `OverrunHarmless` |
| `release` | `MCPlay`: 9 recorded keys and then D and none free; none, R, R+A, ENTER free from the start | `Settles`, `HeldRestartEnds` |
| `spine` | `MCSpineMove`, counter to 2, spines from 20 to 32 | `Pace`, `Withdrawn`, `ReachTheEnd`, `KeepsSpineLaw` |
| `usb` | `MCKeyboard`, one key; a chip of any speed with retries, failures of any part of a list, lists taken half written, stray answers, and the keyboard pulled and put anywhere, or a calm one | `Fresh`, `SetUpFirst`; `PollsReturn`, `Followed` with the calm chip |
| `hpi` | `MCHpi`, the nine lists, the pointer 0x0576 and two polls, 2 to 5 edges between stores, KEY0 between calls, the chip taking what it is shown at any moment | `NoContention`, `Executable`, `Implements` |
| `line` | `MCJtagUart`, rings of 4 slots, FIFOs of 3, seven mixtures of calls, host and alarm | `NoLostInterrupt`, `FifoFits`, `InOrderOut`, `InOrderIn`, `AllSent`, `ReadsEnd`, `CallsEnd` |
| `vga` | `MCVga`, frames of 800 by 525, 3 words, 2 places of the spines | `Registered`, `PictureIsMap`, `FreeMarioClear`, `TouchKills`, `LettersWhole`, `ScansOut` |
| `sound` | `MCAudio`, a bit clock of 7 edges, a ROM of 3 words, KEY0 at any edge | `SetUpInOrder`, `WordsWhole`, `MusicPlays` |
| `again` | `MCKeyboard`, a chip slower than the code and faster than its sleeps, with retries | refutes `CalledAgain` |
| `pulled` | the same without retries, keyboard pulled out while the driver sleeps | refutes `WaitEnds` |
| `stuck` | `MCPlay`, 5 recorded keys, then A, D, W free | refutes `Controllable` |
| `unstopped` | `MCAudio` | refutes `Stopped` |

The other modules' `TypeOK` are proved and are not checked again.

### The bounds

Game. Motion, maps, screen and limits have the program's own numbers in
every run: nothing is scaled. What is bounded is what the player does. With the jump free in every frame
the game has too many states to visit, and without it Mario stays in the hollow where
level 1 begins. So the `MCPlay` runs steer him to an interesting place with a recorded
play (`Winning`, `Spike` over the pits of level 1, or `Hill` onto its first hill) and free the keys there. A scenario's `prefix` is the number of
frames the player follows it, `errors` how often he may leave it, `slip` and
`free` for which keys, `builds` what may lie past the map. Together they reach the trigger, both
sides of the pits, death by every spike of both levels and by the moving ones, in the pits of level 1, in the pit of level 2 (which
restarts in level 1), and success. The spines' positions in `Game` are the ends of their
way: the position matters only through the hit test and whether it is 0.

Spines. The counter runs to 2 and the way is 12 pixels; `Horizon` (44) is longer than the whole way,
so every state is met at every phase of the counter. `since` stops counting at `Horizon`.

Keyboard. The only bound is its one key: with "no key" it makes every pattern of presses and
releases, and keys are only compared. A setting with `paced` is what the real times are: the chip works in
frames of 1 ms, the driver's accesses take microseconds and its sleeps 10 ms. Liveness
is checked under it because without it the driver does hang (see below); safety
is checked without it.

HPI. `Cells` are the longest list with its buffers and the words the calls name; accesses to the registers
of `keyboard_init` that look like others are left out. Two edges between stores are fewer than a Nios II
store over its bus takes. The chip is assumed to answer a read strobe within a period and the released bus
to keep its word for `Hold >= MaxStep - 3` periods: with less, `IO_read` returns nothing in particular.
KEY0 resets the interface but not the processor, so a press within a call can lose a word
(`Implements` fails then): the run allows presses between calls. `NoContention` is proved for presses at any time.

Serial line. Rings of 4 slots, of which three can be used, and FIFOs of 3 characters: each fills, wraps and empties. `Threshold` is 1. A transmit interrupt
then finds room for 2 or 3, with something in the FIFO or nothing, and the ring may hold more; a receive interrupt comes with 2 characters, or with one and a
pause. The code's 2048, 64 and 8 have the same order.
A call asks for up to 5 characters, more than the ring takes at once, so that it has to wait, and for 7, more than ring and FIFO, where the host leaves. The
instances of `Line` split what all together has too many states: writes alone, reads alone, both, an
`ioctl`, and a host that leaves and comes back while a write or a close, or a read, waits for the alarm.

Picture. The frame has its real size, and so have maps and texts. The spines stand at either place in level 2 only (`Scenes`). Words and spines change, and KEY0 goes
down, at one position (`Moments`), because the chain holds only three positions at a time; the proofs lift that. The words
are the ones where a wrong pixel would show: the start screen, a death on the spike of level 1 a pixel above the ground, and Mario
under the bricks of level 2 beside the moving spines, one pixel from them or overlapping by one.

Audio. `HALF`, `LAST`, `WRAP`, `LOW` keep the order of the code's 9999, 19999, 2^14 and 3000 but for `LAST` and `WRAP`, of which
also in the code the first is never reached. KEY0 goes down and up before any edge. A press at the edge after a fall
of SCLK tears a bit (`Torn`, see below); what the codec makes of the line from then on is not followed.

### Fairness

`Game` has weak fairness of `Next`: every path of `main` leads back to
`get_keycode`, and a keyboard that stays plugged in lets it return. Nothing is assumed
about which key it returns; the two liveness properties state their condition on the player
(`<>[](key = ...)`) themselves. `SpineMove` has weak fairness of `Clock`, `Audio` of its two clocks: the oscillators
do not stop. Nothing is assumed about the program or KEY0 there. `Keyboard` has weak fairness of the
driver and strong fairness of the chip, which works on its own whatever the driver
does, and of its acknowledgement of a reset. `JtagUart` has weak fairness of the thread, the interrupt routine, the
alarm (where there is a clock), the host that takes what the device has and polls it over and over (that is `t_pause`, on which `ReadsEnd` depends: a
single character in the FIFO raises no interrupt by itself), and strong fairness of the entry into the
interrupt routine, which the thread masks for a moment again and again. Nothing makes the program call or the host type, leave or come back.

### Mutants

Definitions named after the one they stand in for (`draw_screen_alive`,
`Landed_jumps_kept`, `Next_State_early`, `IO_read_soon`, ...) are plausible slips in that code. With one in
place of the original the run must find its property violated; `PROJECT.json` lists the pairs.
They are used by no specification.

What the properties do not notice: whether `handle_level` tests edges before spikes or after them (either order keeps the rules of `GameFlow`); that an old report is
handed to the game once after a transfer failed or after a hot plug (`Fresh` and `Followed` allow it); that a Mario who changes levels lands in a wall (`NoWallEntry` is about motion; `Controllable`
is what finds that).

### What the runs found

* `stuck`: the left wall of level 1 is the ground at y = 335, and Mario who walks out of
  level 1 over it appears in level 2 at y = 360, under the platform there, falling.
  If he turns back to the right in that moment, `handle_level` (main.c:49-53) puts him
  at x = 20 of level 1 at the height he has fallen to, inside the left wall.
  `can_move` then refuses every pixel, no key moves him, and only R or ESC
  helps. The comment above those lines says "right - up", and the README that the keyboard
  controls the movement.
* `again`: a request of `keyboard_init` whose control byte shows a retry is never called again;
  the driver reads the same byte for ever (keyboard_util.c:296 and the seven loops like it).
  Only `UsbSetAddress` begins anew.
* `pulled`: the chip announces a removed keyboard in the word that also says that a list is
  done. If that happens while the driver sleeps after its list was done, it waits
  for ever for a message that is gone.
* `unstopped`: the eighth word for the codec gets no stop condition, which `Operating_Sequence.txt` asks for:
  `Audio_Top` takes the ignition away with the eighth `finish_flag` (Top.v:94), when SCLK is low, and it
  stays low.

### Seen while modelling, and shown by no run

* keyboard_util.c:41-60: the driver never looks whether the pointer still shows a list. When the chip executes a list that was shown before
  between the words that are sent again and their pointer, the message lets the driver go on while the pointer shows the list a second time, and the next
  list is written over a pending one. So the chip can take a list of which a part is another's. TLC finds this when `~over` is dropped
  from `Executable`, and when `~mixed` is dropped from `SetUpFirst`; with these conditions the two say that it is the only way.
* keyboard_util.c:263: the control byte is that of the SETUP packet. A request whose data or status fails is taken for done, so `SetUpFirst` is about the
  SETUP packets.
* usb.c:93: the mailbox is written right after `IO_init`, maybe before the chip has booted; the write is then lost. `Hpi` starts
  the calls with a chip that is awake, as it is after the 0.6 s that `UsbSoftReset` sleeps and whenever the keyboard is set up again.
* I2C_Protocol.v:29, fake_mario_top.sv:82: KEY0 comes from the button without a register. Pressed at the edge after a fall of SCLK it raises SCLK while the bit
  of the tick before is still on the line or just changing, so that the codec is clocked with a wrong bit. The word is then not the one of the table; in word 6 that would be the mode of the
  interface. `SetUpInOrder` is false without `~torn`, and with it says that this is the only edge at which KEY0 does harm.
* Operating_Sequence.txt:7 lists "DSP mode A" (the top bit on the second BCLK after the pulse); word 6 that Top.v:115 sends, 0x0E23, has LRP = 0, with which
  it is on the first. The model follows the word that is sent, and so does the player in Top.v.
* fake_mario_jtag_uart_0.v:511, 520: a character that arrives between the two clocks of a read makes a data word that says that there is no character and
  that there is one. The interrupt routine then turns receiving off although the ring is not full. It heals: the ring holds something for the next read, which turns receiving on
  (`NoLostInterrupt`).
* keyboard_util.c:80-85: a keyboard that is gone at the first look and back at one of the next seven is not set up again;
  `Followed` is checked for a slower player. `draw_screen.c` calls bit 20 `mario_alive`, and it is `is_death`.
* altera_avalon_jtag_uart_init.c:95: the board's system has no ALT_SYS_CLK, so `alt_alarm_start` fails and `timeout` is
  `INT_MAX`. Without a terminal on the host a write to a full ring, or a close with something left in it, waits for ever here. `CallsEnd` is about
  a board with the alarm, or with a host that reads.
* brick_draw_engine.sv:183-188: the save points are lit by Mario's coordinates in any level, and nothing puts them out.
* the picture is one pixel late against its signals (`Raster` says so), and the textures of the level one more against the
  level; an unknown `level_index` is drawn with the bricks of level 1.
* I2C_Protocol.v:11: the counter of 14 bits never reaches 19999, so SCLK is the clock over 2^14, 3.05 kHz, and not "2.5kHz". Top.v:79 speaks of 6 configuration pulses
  and 8 are sent; word 8 of the table, a reset, is never sent. The codec's acknowledgements go to LEDs and are not looked at.

## 4. Proofs

All of them hold for every value of the constants within the modules' assumptions: every set `Keys` of 16-bit
key codes, every set of stopping places of the spines that contains both ends,
and everything that may lie past the map; in `SpineMove` every counter limit, every stop position
from 20 to 460 and every `MinHold` of 2 or more; every ring and FIFO of the serial line; every script of
calls; every size of a frame that has room for its pulses; a song of any length and every division of the bit clock.

`GameProofs`. What it proves of motion holds on any map; the two maps are looked at only where a life begins and at the
right edge, through lemmas of `GeometryProofs`. The lemmas climb the code: `ScanStops` (a pixel scan ends in its range and
passed only free pixels), `UpdateY`, `UpdateX`, `GetSpeed`, `MoveUpdate`, `HandleKeycode`,
then `Drawn` (the masks lose nothing), `MoveInit`, `HandleLevel` (`Judged`: what each flag
says of the Mario it leaves), `Begun`, `Frame`. The inductive invariant `IInv` is
`TypeOK`, `DeathShown`, `FaithfulPicture` and `JumpBudget` with two
facts they do not contain: `LevelOfLoop`, which level each loop plays (a
change of level computes `3 - level`, and a flag only level 2 returns must not come from
another), and `SpinesAsDrawn`, that in play the word's spine bits are Mario's
(without it nothing ties the hardware to `mario.level2_active`). From it follow

* `TypeCorrect`, `DeathAlwaysShown`, `PictureFaithful`, `JumpsBudgeted`: the invariants;
* `SpinesStayBack`, `WallsHold`, `AscentIsPaid`: the action properties;
* `StaleOnce`: a picture of a left level is replaced by the next frame, since that frame either ends the loop or draws
  (two steps in a row, so the first one's effect on the loop is carried into the second);
* `LivesStartSafe`: before a life is drawn for the first time Mario has fallen at most 8 pixels from where it begins (`FirstFall`), and
  nowhere on that way is a wall, a spike or a trigger (`StartClear`);
* `FlowImplemented`: `Game` implements `GameFlow`.

A second invariant, `InPlay`, keeps Mario away from the edges: while he is played the map loaded is the level's, x is at most 615 and
y at most 446. Each way a frame can be survived leaves him there (`Survives`); where level 1 sends him on at its left edge the bottom of the screen is
solid (`LeftEdgeSolid`). So what `is_block` reads past the end of the map matters to no frame that is survived: `SameFall` and
`SameRun` show it for the two scans and `SameFrame` for the frame. Beside the right edge it reads column 32, the next row's column 0,
which is solid in both maps where it could matter (`RightEdgeSolid`). This is `OverrunNeverDecides`.

`GeometryProofs`: the six points of `is_wall` suffice for a box of 21 by 25 pixels on a grid of 20,
on every map, and so do the two points of `is_ground`. The two maps are there as sets of blocks and spikes
(`MapBricks`, `MapSpikes`, with `BlockAt` and `SpikeAt` to look up a place), which both `GameProofs` and `VgaProofs` use.

`SpineProofs`: the inductive invariant joins `TypeOK` with where the registers are
after a reset (`Withdrawing`), how far the spines are for the clocks since
the trigger (`Advances`) and what the last poll saw (`Read`). It gives `TypeCorrect`, `ResetWithdraws`,
`PaceKept` and `LawKept`, the refinement of `SpinePoll`.

`KeyboardProofs`, for every set of keys, every timing, failure and moment of pulling: the inductive
invariant adds to the three invariants whose words are at 0x0500 at each place and what the pointer may show (`ListOfPlace`), that a clean control byte is this step's own
and that every request before had one (`AckedSoFar`: this, and not the message, is what keeps the order when an old message ends a wait), that the word at
0x051e is the last report since the setting-up (`Untold`, `Reported`), and how old it may be when a message is there or still to come (`Recent`). It gives
`TypeCorrect`, `SetUpBeforePoll` and `KeysFresh`. `AckedSoFar` needs `~mixed`: a first descriptor that is taken while it is written may be another request's.

`UartProofs`: interrupts are off exactly within a read-modify-write, which therefore stores what is current (`MaskOK`);
each place of the thread says how its locals stand to the ring (`CallOK`), and the
slots between `out` and `in` hold consecutive characters (`TxOK`, `RxOK`), also while the thread fills the slots beyond
or reads behind. `HeldOK` is what the crossing of a character with a read needs: `pause_irq` is up only with something in the FIFO, so the interrupt routine
reads at least one character before it finds the FIFO empty, and the ring holds something when receiving is turned off. `TypeCorrect`, `InterruptKept` and `FifoNeverOverrun` follow. For `OutInOrder` and
`InInOrder`, the refinements of `CharPipe`, `TxIsRun` and `RxIsRun` turn the slots into the run of numbers
that the pipe is, and each step into a put, a take or a stutter. The safety part of `Spec` alone is needed.

`HpiProofs`: an access is one of two kinds (`IsWrite`, `IsRead`), whatever the call is. The invariant says where in an access
the processor is (`Position`), what the first call does to the ports before the chip has booted (`Started`), and that each strobe is open only at
its stores, or a clock later in the interface's registers (`Strobes`). The two are at least two stores apart, so `NeverFights`.
`PortIsMemory` is the refinement: the pins, the registers, the bus and the chip are a memory (`ChipMemory`) for usb.c. Its invariant
`WInv` follows the word of an access on its way: a write's is on the bus until the edge at which the chip takes it, one after the processor has
let go (`WriteWires`); a read's outlives its strobe in the registers and on the undriven bus for as long as the processor may take to load `temp`,
which is where `Hold >= MaxStep - 3` is needed, and with one period less the proof fails in exactly that lemma (`ReadWires`). `Progress` says how many
words the chip has had and where its pointer is. Every edge is then a Put, a Fetch, a Return or a stutter. The theorem is about calls that are
`Disciplined` (TLC evaluates that for the run's script); without `PressAt \subseteq {"between"}` it is false, the hazard of `src/fake_mario_top.sv:200`.

`ListsExecutable` builds on it. From a list `ListsFirst` asks what can be read off the code, that it could be executed if it stood alone in its place
(`WellFormed(Laid(list))`); from the script, that a list's pointer is written right after it, that no other block is written over the list or the pointer, and that a pointer to no
list (0x0576) has its control byte beside the lists that follow. TLC evaluates all that for the run's script, so a slip in one
of the typed words stops the run there. What is proved is that this is enough while the list goes out word by word, is sent again over itself, and is
taken at any moment, whichever message or flag has let the driver go on. The invariant `Lists` says that the words put so far are in their place, all of them once the call is over; that a pointer
that shows a list, if the list was not begun over a pending one (`over`), shows the last one, whole (`Latest`, `Present`); and that any other pointer is one the script has written since
(`Strayed`). Every word the chip writes is elsewhere or is the control byte. `StaysWellFormed` says that what else the memory holds does not
matter to `WellFormed`: the links are the same (`LinksAre` finds them by induction along the twelve descriptors a list may have, `Along`), and so are the descriptors they lead to.
Without `~over` the statement is false (see above), and TLC says so in seconds.

`VgaProofs`: between two counts of the controller there are two edges. `AfterCount` and `BeforeCount` say what the registers
hold in either half; `ScansInOrder` (the refinement of `Raster`) and `OnePosition` follow. `MapIsDrawn` compares the boxes with the
sets of blocks: a box on the grid holds a position exactly when it holds its block (`InRectangle` of `GeometryProofs`, `InBox`), and the rest is about finite
sets of blocks. `NeverUnderBricks` joins it with the theorems of `GeometryProofs`; `DrawnTouchKills` is arithmetic. `EveryLetterWhole` shows of each line that its
cells are apart (`LineGood`), of two lines that no position is in both (`Joined`, for the columns of FAKE and MARIO the only lines that
share rows), and of the dashes that the letters are in other rows.

`AudioProofs`: the bit counter is the frame counter modulo 16, and the pulse is up when both are 0 (`InStep`); the frame so far
is the first bits of one word (`Playing`), and a whole clean frame is followed by the pulse for the next word (`Played`). Nothing is needed about the
set-up or the buttons. It gives `FramesAreWords`.

The second invariant there, `SetUp`, is about the set-up. An edge of `clk` is one of four kinds: SCLK stays up, falls, rises or stays down (`Kinds`). At
each kind the invariant says what the codec has of the word: nothing and then an open transfer while `tick_counter` is 0 (`Starting`), exactly the first bits of
the device's address and the word while it is 1 to 27 (`Shifting`, with `BitsPushed` and `Grows` for the bits), all 27 and then nothing at 28 (`Ending`).
`Sent` says why there is no ninth word: the count of the words is 8 only at tick 28, and from there the bit clock is stopped within three edges, or begins
again after KEY0 and is stopped as soon, always before it falls. KEY0 sets the bit clock back and not the ticks, so it can make a bit longer but not shorter: a
rise it causes takes the bit that the rise of its own would have taken. It gives `WordsInOrder`, for every `HALF`, `LAST`, `WRAP` and `LOW` of the assumption
as long as KEY0 has torn no bit (`Untorn`), which the proof uses for `Clocked`: a torn bit is a press at the edge after a fall, and nothing is proved of a codec that has had one.

Only model-checked: liveness, which is beyond the prover (`PollsReturn`, `Followed`, `Settles`, `HeldRestartEnds`, `ReachTheEnd`, `AllSent`, `ReadsEnd`,
`CallsEnd`, `MusicPlays`), and the values of the eleven lists (`ListsFirst`), which TLC evaluates. Every invariant of a passing run is a theorem.

## 5. What is not modelled

* The generated Nios II system, the BSP other than the serial line's driver, and the PLLs: vendor code and tables of
  constants, among them the largest files of the repository (`cy7c67200.h`, `system.h`, the HAL). The
  models use the constants that the program uses. The HAL's layer of file descriptors between printf and
  the driver only forwards its calls. The small variant of the serial driver is not built.
* `software/level_handle.c`: an old copy of the level logic that no build includes.
* The data of the picture memories, which texels are transparent, which of Mario's six pictures is up, and the glyphs of the font:
  no property is about the looks. `hex_driver.sv` is a table for the displays and `Mem2IO.sv` is not connected.
* Of the keyboard driver: the values written to registers of the chip other than the lists, what a transfer brings into its buffers (that they lie beside the
  descriptors is part of `WellFormed`), whether the toggle bit of a list agrees with the keyboard's, `keycode_base`, which drives a display. In `Hpi` the script
  looks at a control byte again where `UsbSetAddress` would begin anew; that is in `Keyboard`.
* Of the top level: wiring. Of the save points: whether they are drawn lit.

`Game` assumes that the code between two polls takes less than the 3 ms in which the spines advance by a pixel. `JtagUart` has
one thread: the application is single-threaded and builds without an operating system.
