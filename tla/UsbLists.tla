------------------------------ MODULE UsbLists ------------------------------
(***************************************************************************)
(* The lists of transfers that the routines of usb.c and get_keycode write *)
(* into the chip's memory at 0x0500, word by word: descriptors of six      *)
(* words, linked by address, with the setup packet behind the first.  A    *)
(* descriptor is the address and length of a buffer, a token (the device's *)
(* address, and a packet identifier with the endpoint), a status word with *)
(* the data toggle, the control byte and the address of the next one.      *)
(***************************************************************************)
EXTENDS Integers, Sequences, FiniteSets

LIST_START == \h0500
PID_SETUP == \hD0
PID_IN    == \h90
PID_OUT   == \h10
DATA0 == \h0001
DATA1 == \h0041

TD(base, length, token, toggle, next) == <<base, length, token, toggle, \h0013, next>>

\* The first descriptor and the packet it sends.
Setup(device, request, value, length) ==
  TD(\h050C, 8, device * 256 + PID_SETUP, DATA0, \h0514) \o <<request, value, 0, length>>

UsbSetAddress == Setup(0, \h0500, 2, 0) \o TD(0, 0, PID_IN, DATA1, 0)

\* An input of the data stage, and the stage that ends a request with input.
DataIn(base, length, toggle, next) == TD(base, length, \h0290, toggle, next)
StatusOut == TD(0, 0, \h0210, DATA1, 0)
StatusIn  == TD(0, 0, \h0290, DATA1, 0)

UsbGetDeviceDesc1 ==
  Setup(2, \h0680, \h0100, 8) \o DataIn(\h052C, 8, DATA1, \h0520) \o StatusOut

UsbGetDeviceDesc2 ==
  Setup(2, \h0680, \h0100, 18)
    \o DataIn(\h0544, 8, DATA1, \h0520) \o DataIn(\h054C, 8, DATA0, \h052C)
    \o DataIn(\h0554, 2, DATA1, \h0538) \o StatusOut

UsbGetConfigDesc1 ==
  Setup(2, \h0680, \h0200, 9)
    \o DataIn(\h0544, 8, DATA1, \h0520) \o DataIn(\h054C, 1, DATA0, \h052C) \o StatusOut

UsbGetConfigDesc2 ==
  Setup(2, \h0680, \h0200, \hFF)
    \o DataIn(\h055C, 8, DATA1, \h0520) \o DataIn(\h0564, 8, DATA0, \h052C)
    \o DataIn(\h056C, 8, DATA1, \h0538) \o DataIn(\h0574, 8, DATA0, \h0544)
    \o DataIn(\h057C, 2, DATA1, \h0550) \o StatusOut

UsbSetConfig    == Setup(2, \h0900, 1, 0) \o StatusIn
UsbClassRequest == Setup(2, \h0A21, 0, 0) \o StatusIn

UsbGetHidDesc ==
  Setup(2, \h0681, \h2100, \h7B) \o DataIn(\h0544, 8, DATA1, \h0520) \o StatusOut

UsbGetReportDesc ==
  Setup(2, \h0681, \h2200, \h7B)
    \o DataIn(\h0580, 8, DATA1, \h0520) \o DataIn(\h0588, 8, DATA0, \h052C)
    \o DataIn(\h0590, 8, DATA1, \h0538) \o DataIn(\h0598, 8, DATA0, \h0544)
    \o DataIn(\h05A0, 8, DATA1, \h0550) \o DataIn(\h05A8, 8, DATA0, \h055C)
    \o DataIn(\h05B0, 8, DATA1, \h0568) \o DataIn(\h05B8, 3, DATA0, \h0574) \o StatusOut

\* get_keycode's list, with the toggle it has reached.
PollList(data_size, toggle) ==
  TD(\h051C, data_size % 16, \h0291, IF toggle % 2 = 1 THEN DATA0 ELSE DATA1, 0)

-----------------------------------------------------------------------------
(* The list as a chip finds it in its memory m.                            *)

MOST == 12  \* bound: descriptors of a list

\* The addresses of its descriptors, from link to link; 0 after the last.
Linked(m, a) == IF a # 0 /\ a + 10 \in DOMAIN m THEN m[a + 10] ELSE 0

Links(m) ==
  LET at[n \in 0 .. MOST] == IF n = 0 THEN LIST_START ELSE Linked(m, at[n - 1])
  IN  at

Length(m) == Cardinality({n \in 0 .. MOST : Links(m)[n] # 0})

Descriptor(m, a) ==
  [base |-> m[a], length |-> m[a + 2], device |-> m[a + 4] \div 256,
   pid |-> m[a + 4] % 256, toggle |-> m[a + 6], bytes |-> a .. a + 11,
   buffer |-> m[a] .. m[a] + m[a + 2] - 1]

Descriptors(m) == LET at == Links(m) IN [n \in 1 .. Length(m) |-> Descriptor(m, at[n - 1])]

\* Descriptors and buffers share no byte.
Disjoint(ds) ==
  \A i, j \in DOMAIN ds :
    /\ ds[i].bytes \cap ds[j].buffer = {}
    /\ i # j => ds[i].bytes \cap ds[j].bytes = {} /\ ds[i].buffer \cap ds[j].buffer = {}

\* Endpoint 1 is asked for a report of up to 8 bytes.
Poll(ds) == Len(ds) = 1 /\ ds[1].pid = PID_IN + 1 /\ ds[1].device = 2 /\ ds[1].length \in 1 .. 8

\* A control transfer of USB: a setup packet with toggle 0; the data that it
\* announces, in pieces of at most 8 bytes with toggles 1, 0, 1 ...; and a
\* status stage of no bytes with toggle 1 in the other direction.
Control(m, ds) ==
  LET packet  == ds[1].base
      inward  == (m[packet] % 256) \div 128 = 1
      wLength == m[packet + 6]
      data    == 2 .. Len(ds) - 1
  IN  /\ Len(ds) >= 2 /\ {packet, packet + 6} \subseteq DOMAIN m
      /\ ds[1].pid = PID_SETUP /\ ds[1].length = 8 /\ ds[1].toggle = DATA0
      /\ \A n \in DOMAIN ds : ds[n].device = ds[1].device
      /\ \A n \in data : /\ ds[n].pid = IF inward THEN PID_IN ELSE PID_OUT
                         /\ ds[n].toggle = IF n % 2 = 0 THEN DATA1 ELSE DATA0
                         /\ ds[n].length \in 1 .. 8
                         /\ n + 1 \in data => ds[n].length = 8
      /\ (wLength = 0 <=> data = {})
      /\ 8 * (Len(ds) - 3) + ds[Len(ds) - 1].length <= wLength \/ data = {}
      /\ LET last == ds[Len(ds)]
         IN  /\ last.length = 0 /\ last.toggle = DATA1
             /\ last.pid = IF data # {} /\ inward THEN PID_OUT ELSE PID_IN

WellFormed(m) ==
  LET ds == Descriptors(m)
  IN  /\ Links(m)[MOST] = 0
      /\ \A n \in 0 .. MOST :
           LET a == Links(m)[n] IN a # 0 => {a, a + 2, a + 4, a + 6, a + 10} \subseteq DOMAIN m
      /\ Disjoint(ds)
      /\ Poll(ds) \/ Control(m, ds)

\* A list alone in its place, but for the control byte, which the chip changes.
Laid(list) ==
  [a \in {LIST_START + 2 * (i - 1) : i \in DOMAIN list \ {5}} |->
     list[(a - LIST_START) \div 2 + 1]]
=============================================================================
