-------------------------------- MODULE Hpi --------------------------------
(***************************************************************************)
(* The way from the processor to the USB chip: IO_init, IO_write and       *)
(* IO_read of io_handler.c, which move the pins of six parallel ports one  *)
(* store at a time; hpi_io_intf.sv, which registers the pins and drives    *)
(* the data bus for as long as the unregistered from_sw_w is low; and the  *)
(* chip's port, as far as usb.c relies on it.                              *)
(*                                                                         *)
(* A step is a rising edge of Clk.  The processor stores at some edges,    *)
(* MinStep to MaxStep of them apart within a call; it may sleep for long   *)
(* between two calls.  The bus has a value in each period between edges;   *)
(* one that nobody drives keeps its value for Hold periods.                *)
(***************************************************************************)
EXTENDS UsbLists

CONSTANTS
  MinStep, MaxStep,  \* bounds: edges between two stores
  Hold,              \* periods for which the undriven bus keeps its value
  Cells,             \* the cells of the chip's memory that are modelled
  Script,            \* the calls, in their order
  PressAt            \* when KEY0 may be down: "between" two calls, within a "call"

ASSUME HpiAssumption ==
  /\ MinStep \in Nat /\ MinStep >= 2
  /\ MaxStep \in Nat /\ MaxStep >= MinStep
  /\ Hold \in Nat /\ Hold >= 1 /\ Hold >= MaxStep - 3
  /\ Script \in Seq([at : Nat, words : Seq(Int)])
  /\ PressAt \subseteq {"between", "call"}

JUNK == -1  \* no word in particular
HiZ  == -2  \* a released line

\* The ports of the chip.  The mailbox and the status are cells of their own.
HPI_DATA    == 0
HPI_MAILBOX == 1
HPI_ADDR    == 2
HPI_STATUS  == 3

HPI_SIE1_MSG_ADR        == \h0144
HUSB_SIE1_pCurrentTDPtr == \h01B0
CONTROL                 == \h0508
HUSB_TDListDone         == \h1000
HPI_STATUS_SIE1msg_FLAG == \h0010

VARIABLES
  pio,      \* the parallel ports' outputs
  data_out_buffer, otg, data_in,  \* hpi_io_intf's registers
  readdata, \* what a read of otg_hpi_data returns
  kept, age,    \* the last word driven onto the bus, and for how long it has not been
  Reset,    \* KEY0 is down
  at,       \* the call in the script, the access in the call and the store in the access
  since,    \* edges since the last store
  temp, answer, \* IO_read's temp and what the last call that read returned
  awake, mem, pointer, out, \* the chip has booted; its memory, pointer and output
  taken,    \* history: words the chip has taken or given in this call
  over      \* history: the list at 0x0500 was begun over one that the pointer still showed

intf    == <<data_out_buffer, otg, data_in, readdata, kept, age>>
program == <<pio, at, temp, answer>>
chip    == <<mem, pointer, out, taken>>
vars    == <<intf, program, chip, Reset, since, awake, over>>

-----------------------------------------------------------------------------
(* io_handler.c.                                                           *)

Store(pin, value) == [pin |-> pin, value |-> value]

IO_init ==
  << Store("reset", 1), Store("cs", 1), Store("r", 1), Store("w", 1),
     Store("address", 0), Store("data", 0), Store("cs", 0),
     Store("reset", 0), Store("reset", 1), Store("cs", 1) >>

IO_write(address, data) ==
  << Store("data", data), Store("address", address), Store("cs", 0),
     Store("w", 0), Store("w", 1), Store("cs", 1) >>

\* The one access that is no store of a pin: temp = *otg_hpi_data.
\* A slip: within the strobe, before the word is through the registers.
IO_read_soon(address) ==
  << Store("address", address), Store("cs", 0), Store("r", 0),
     Store("temp", 0), Store("r", 1), Store("cs", 1) >>

IO_read(address) ==
  << Store("address", address), Store("cs", 0), Store("r", 0), Store("r", 1),
     Store("temp", 0), Store("cs", 1) >>

\* usb.c: a block is written from its first address on, a word is read at an
\* address, and the mailbox and the status are ports of their own.  A call
\* without words reads.
Ported(c) == c.at \in {HPI_MAILBOX, HPI_STATUS}
Port(c)   == IF Ported(c) THEN c.at ELSE HPI_DATA

UsbWrite(c) == [n \in DOMAIN c.words |-> IO_write(Port(c), c.words[n])]
UsbRead(c)  == <<IO_read(Port(c))>>

Accesses(c) == (IF Ported(c) THEN <<>> ELSE <<IO_write(HPI_ADDR, c.at)>>)
                 \o (IF c.words = <<>> THEN UsbRead(c) ELSE UsbWrite(c))

Program == [k \in 0 .. Len(Script) |-> IF k = 0 THEN <<IO_init>> ELSE Accesses(Script[k])]

-----------------------------------------------------------------------------
(* The bus.                                                                *)

\* A slip: the pins drive unless the processor reads.
FpgaDrives_reading == pio.r = 1 /\ data_out_buffer # HiZ
FpgaDrives == pio.w = 0 /\ data_out_buffer # HiZ
ChipDrives == awake /\ otg.cs = 0 /\ otg.rd = 0

OTG_DATA == CASE FpgaDrives /\ ChipDrives -> JUNK
              [] FpgaDrives /\ ~ChipDrives -> data_out_buffer
              [] ~FpgaDrives /\ ChipDrives -> out
              [] OTHER -> IF age < Hold THEN kept ELSE JUNK

BusKeeps == /\ kept' = OTG_DATA
            /\ age' = IF FpgaDrives \/ ChipDrives THEN 0
                      ELSE IF age < Hold THEN age + 1 ELSE age

hpi_io_intf ==
  IF Reset
  THEN /\ data_out_buffer' = HiZ /\ data_in' = 0
       /\ otg' = [addr |-> HiZ, rd |-> 1, wr |-> 1, cs |-> 1, rst |-> 1]
  ELSE /\ data_out_buffer' = pio.data /\ data_in' = OTG_DATA
       /\ otg' = [addr |-> pio.address, rd |-> pio.r, wr |-> pio.w,
                  cs |-> pio.cs, rst |-> pio.reset]

-----------------------------------------------------------------------------
(* The chip's port: a write is taken when its strobe ends, a read is       *)
(* answered while its strobe lasts, and the pointer goes on after either.  *)

Reading(o) == o.cs = 0 /\ o.rd = 0
Writing(o) == o.cs = 0 /\ o.wr = 0

Cell(port) == IF port = HPI_DATA THEN pointer ELSE port
GoesOn(o)  == pointer' = IF o.addr = HPI_DATA THEN pointer + 2 ELSE pointer

TakesWord ==
  /\ IF otg.addr = HPI_ADDR
     THEN pointer' = OTG_DATA /\ UNCHANGED <<mem, taken>>
     ELSE /\ GoesOn(otg) /\ taken' = taken + 1
          /\ mem' = IF Cell(otg.addr) \in Cells
                    THEN [mem EXCEPT ![Cell(otg.addr)] = OTG_DATA] ELSE mem
  /\ UNCHANGED out

\* The flag of a message goes down when the message is read.
GivesWord(o) ==
  /\ out' = IF Cell(o.addr) \in Cells THEN mem[Cell(o.addr)] ELSE JUNK
  /\ taken' = taken + 1
  /\ mem' = IF Cell(o.addr) = HPI_SIE1_MSG_ADR THEN [mem EXCEPT ![HPI_STATUS] = 0] ELSE mem
  /\ UNCHANGED pointer

ChipPort ==
  IF awake /\ Writing(otg) /\ ~Writing(otg') THEN TakesWord
  ELSE CASE awake /\ ~Reading(otg) /\ Reading(otg') -> GivesWord(otg')
         [] awake /\ Reading(otg) /\ ~Reading(otg') ->
              GoesOn(otg) /\ UNCHANGED <<mem, out, taken>>
         [] OTHER -> UNCHANGED chip

-----------------------------------------------------------------------------
(* The processor.                                                          *)

Calling == at.access # 0
Here    == Program[at.call][at.access]

\* After a store: the next one, the next access, or the end of the call.
Onward == IF at.store < Len(Here) THEN [at EXCEPT !.store = @ + 1]
          ELSE IF at.access < Len(Program[at.call]) THEN [at EXCEPT !.access = @ + 1, !.store = 1]
          ELSE [at EXCEPT !.access = 0, !.store = 0]

Returns == at.store = Len(Here) /\ at.access = Len(Program[at.call])
Asks    == at.call # 0 /\ Script[at.call].words = <<>>

\* The word of the bus, and not that of the read strobe: it has ended.
IO_read_temp == readdata

Stores ==
  /\ Calling /\ since >= MinStep
  /\ LET s == Here[at.store]
     IN  IF s.pin = "temp" THEN temp' = IO_read_temp /\ UNCHANGED pio
         ELSE pio' = [pio EXCEPT ![s.pin] = s.value] /\ UNCHANGED temp
  /\ answer' = IF Returns /\ Asks THEN temp ELSE answer
  /\ at' = Onward /\ since' = 1

Computes ==
  /\ Calling => since < MaxStep
  /\ since' = IF since < MaxStep THEN since + 1 ELSE since
  /\ UNCHANGED program

Edge ==
  /\ hpi_io_intf /\ BusKeeps /\ readdata' = data_in /\ ChipPort
  /\ Stores \/ Computes
  /\ UNCHANGED <<Reset, awake, over>>

\* A call that writes a list, and one that lets the chip's pointer show it.
Listing(k) == k \in DOMAIN Script /\ Script[k].at = LIST_START
Listed(k)  == /\ k \in DOMAIN Script
              /\ Script[k].at = HUSB_SIE1_pCurrentTDPtr /\ Script[k].words = <<LIST_START>>

\* A slip: the pointer is written before the list.
Following_pointer_first(k) ==
  IF Listing(k + 1) \/ Listing(k) THEN k + 2 ELSE IF Listed(k) THEN k - 1 ELSE k + 1

\* The next call.  After a list's pointer come the flag, the message and its
\* clearing, and a look at what has come.  The list is sent again while there
\* is no flag, the message is read again while it is another, the control byte
\* while the first descriptor is not done (Keyboard has UsbGetRetryCnt, which looks
\* at the message too, and that a failed UsbSetAddress begins all over).  What the
\* pointer shows by then is not asked.
Following(k) ==
  IF Listed(k - 1) /\ answer # HPI_STATUS_SIE1msg_FLAG THEN k - 2
  ELSE IF Listed(k - 3) /\ answer # HUSB_TDListDone THEN k - 1
  ELSE IF Listed(k - 4) /\ Script[k].at = CONTROL /\ answer # 3 THEN k
  ELSE k + 1

\* The chip is awake: UsbSoftReset sleeps for 0.6 s after its first write.  That
\* write, right after IO_init, may come too early and be lost; here it comes as
\* it does when the keyboard is set up once more.
Call ==
  /\ ~Calling /\ awake /\ (Reset => "call" \in PressAt)
  /\ LET k == Following(at.call)
     IN  /\ k \in DOMAIN Script
         /\ at' = [call |-> k, access |-> 1, store |-> 1]
         /\ over' = IF Listing(k) THEN /\ mem[HUSB_SIE1_pCurrentTDPtr] = LIST_START
                                       /\ over \/ k > at.call
                    ELSE over
  /\ taken' = 0
  /\ UNCHANGED <<intf, pio, temp, answer, mem, pointer, out, Reset, since, awake>>

-----------------------------------------------------------------------------
(* The rest of the chip, and KEY0.                                         *)

\* The chip has booted after IO_init has reset it.
Boot ==
  /\ ~awake /\ ~Calling /\ otg.rst = 1 /\ otg.cs = 1
  /\ awake' = TRUE
  /\ UNCHANGED <<intf, program, chip, Reset, since, over>>

\* What the pointer shows is executed, be it a list or what is at 0x0576: the
\* pointer is cleared, the first control byte written back, a message posted.
Execute ==
  LET first == mem[HUSB_SIE1_pCurrentTDPtr]
  IN  /\ awake /\ first # 0
      /\ mem' = [mem EXCEPT ![first + 8] = 3, ![HPI_SIE1_MSG_ADR] = HUSB_TDListDone,
                            ![HPI_STATUS] = HPI_STATUS_SIE1msg_FLAG,
                            ![HUSB_SIE1_pCurrentTDPtr] = 0]
      /\ UNCHANGED <<intf, program, pointer, out, taken, Reset, since, awake, over>>

Press ==
  /\ IF Calling THEN "call" \in PressAt ELSE "between" \in PressAt
  /\ Reset' = ~Reset
  /\ UNCHANGED <<intf, program, chip, since, awake, over>>

\* The ports and the interface are all 0 when the board is switched on.
Init ==
  /\ pio = [reset |-> 0, cs |-> 0, r |-> 0, w |-> 0, address |-> 0, data |-> 0]
  /\ data_out_buffer = 0 /\ data_in = 0 /\ readdata = 0
  /\ otg = [addr |-> 0, rd |-> 0, wr |-> 0, cs |-> 0, rst |-> 0]
  /\ kept = JUNK /\ age = 0 /\ Reset = FALSE
  /\ at = [call |-> 0, access |-> 1, store |-> 1] /\ since = MinStep
  /\ temp = 0 /\ answer = 0
  /\ awake = FALSE /\ mem = [a \in Cells |-> 0] /\ pointer = 0 /\ out = 0
  /\ taken = 0 /\ over = FALSE

Next == Edge \/ Call \/ Boot \/ Execute \/ Press

Spec == Init /\ [][Next]_vars

-----------------------------------------------------------------------------
(* Properties.                                                             *)

\* The FPGA and the chip never drive the bus at the same time, although the
\* one lets go with the processor's store and the other an edge later.
NoContention == ~(FpgaDrives /\ ChipDrives)

\* For usb.c the chip is a memory (Implements): every word of a block arrives once and in
\* its place, and a read returns what was there, although IO_write lets go of
\* the bus before the chip takes the word and IO_read reads after its strobe.
NoCall == [at |-> 0, words |-> <<>>]

\* It rests on this: KEY0 is let alone within a call; every call is one, of words that are
\* no released line, and reads a cell that is there; a port of its own takes one word at a time.
Disciplined ==
  /\ PressAt \subseteq {"between"}
  /\ \A k \in DOMAIN Script :
       /\ Script[k] # NoCall /\ Script[k].words \in Seq(Nat)
       /\ Script[k].words = <<>> => Script[k].at \in Cells
       /\ Ported(Script[k]) => Len(Script[k].words) <= 1

ChipIsMemory ==
  INSTANCE ChipMemory WITH
    Calls <- {Script[k] : k \in DOMAIN Script}, NoCall <- NoCall,
    call <- IF Calling /\ at.call # 0 THEN Script[at.call] ELSE NoCall,
    placed <- taken, seen <- out

Implements == ChipIsMemory!Spec

\* Of the last list before a call j.
Since(k, j) == k < j /\ Listing(k) /\ \A i \in k + 1 .. j - 1 : ~Listing(i)

\* A pointer k that shows no list, and no pointer since that shows one.
Astray(k, j) == /\ k < j /\ k \in DOMAIN Script /\ ~Listed(k)
                /\ Script[k].at = HUSB_SIE1_pCurrentTDPtr
                /\ \A i \in k + 1 .. j - 1 : ~Listed(i)

Written(c) == {c.at + 2 * (n - 1) : n \in DOMAIN c.words}

\* usb.c writes the pointer right after a list, which is one that can be
\* executed where it is, and looks for the message before anything else; no
\* other block is written over the last list or the pointer.  The place that a
\* pointer shows where there is no list has its control byte beside the next list.
ListsFirst ==
  /\ HUSB_SIE1_pCurrentTDPtr \in Cells
  /\ \A k \in DOMAIN Script :
       /\ Listing(k) => /\ Listed(k + 1) /\ WellFormed(Laid(Script[k].words))
                        /\ DOMAIN Laid(Script[k].words) \subseteq Cells
       /\ Listed(k) => /\ Listing(k - 1)
                       /\ \A i \in k + 1 .. k + 3 :
                            /\ i \in DOMAIN Script
                            /\ Script[i].at \notin {LIST_START, HUSB_SIE1_pCurrentTDPtr}
       /\ IF Script[k].at = HUSB_SIE1_pCurrentTDPtr
          THEN Len(Script[k].words) = 1
          ELSE HUSB_SIE1_pCurrentTDPtr \notin Written(Script[k])
       /\ \A j \in DOMAIN Script :
            /\ Since(k, j) /\ ~Listing(j) =>
                 Written(Script[j]) \cap DOMAIN Laid(Script[k].words) = {}
            /\ Astray(k, j) /\ Listing(j) =>
                 Script[k].words[1] + 8 \notin DOMAIN Laid(Script[j].words)

\* Whenever the pointer shows a list, the words at 0x0500 are one the chip can
\* execute: linked to an end, its buffers beside it, and a whole control
\* transfer; although the list is written word by word, again and again while
\* there is no message, the chip may take it or another pointer at any moment,
\* and nobody waits for the pointer 0x0576.  It is said of a list that was not
\* begun while the pointer still showed the one before: see over.
Executable == mem[HUSB_SIE1_pCurrentTDPtr] = LIST_START /\ ~over => WellFormed(mem)
=============================================================================
