----------------------------- MODULE HpiProofs -----------------------------
(***************************************************************************)
(* Why nobody drives the data bus against the USB chip: a write strobe is  *)
(* open only between two stores of an IO_write, the chip answers a read    *)
(* strobe only in an IO_read or a clock after it, and the two lie apart in *)
(* every access of every call, whatever the calls are, however long the    *)
(* processor takes for a store, and whenever KEY0 resets the registers.    *)
(*                                                                         *)
(* And why the chip is a memory for usb.c: store by store, where the word  *)
(* of an access is on its way through the ports, the registers and the bus *)
(* (WriteWires, ReadWires), and edge by edge, what the chip has done of    *)
(* the call (Progress).                                                    *)
(*                                                                         *)
(* And why the chip finds a whole list whenever it is shown one: the list  *)
(* is in its memory from the last word of its call until the chip has      *)
(* taken it (Lists), and what else is there does not matter.               *)
(***************************************************************************)
EXTENDS Hpi, SequenceTheorems, FiniteSetTheorems, TLAPS

\* The accesses that a call of usb.c is made of.
Accessing == {IO_write(a, d) : a \in Int, d \in Int} \cup {IO_read(a) : a \in Int}

\* An access has six stores; a write has the pair that opens and ends its
\* strobe in fourth place, a read in third place with temp behind it.
IsWrite(s) == /\ Len(s) = 6
              /\ s[4] = Store("w", 0) /\ s[5] = Store("w", 1)
              /\ \A n \in {1, 2, 3, 6} : s[n].pin \in {"data", "address", "cs"}
IsRead(s)  == /\ Len(s) = 6
              /\ s[3] = Store("r", 0) /\ s[4] = Store("r", 1) /\ s[5].pin = "temp"
              /\ \A n \in {1, 2, 6} : s[n].pin \in {"address", "cs"}

LEMMA TwoKinds == ASSUME NEW s \in Accessing PROVE IsWrite(s) \/ IsRead(s)
<1>1. ASSUME NEW a \in Int, NEW d \in Int PROVE IsWrite(IO_write(a, d))
  BY DEF IsWrite, IO_write, Store
<1>2. ASSUME NEW a \in Int PROVE IsRead(IO_read(a))
  BY DEF IsRead, IO_read, Store
<1> QED BY <1>1, <1>2 DEF Accessing

\* Every call is a sequence of accesses, one at least.
LEMMA CallAccesses ==
  ASSUME NEW k \in 1 .. Len(Script)
  PROVE  Program[k] \in Seq(Accessing) /\ Len(Program[k]) \in Nat \ {0}
<1> DEFINE c == Script[k]
<1>1. Script \in Seq([at : Nat, words : Seq(Int)]) BY HpiAssumption
<1>2. c \in [at : Nat, words : Seq(Int)] BY <1>1, ElementOfSeq
<1>3. c.at \in Int /\ c.words \in Seq(Int) BY <1>2
<1>4. Port(c) \in Int BY <1>3 DEF Port, HPI_DATA
<1>5. UsbRead(c) \in Seq(Accessing) /\ Len(UsbRead(c)) = 1 BY <1>4 DEF UsbRead, Accessing
<1>6. UsbWrite(c) \in Seq(Accessing) /\ (c.words # <<>> => Len(UsbWrite(c)) \in Nat \ {0})
  <2>1. /\ Len(c.words) \in Nat /\ DOMAIN c.words = 1 .. Len(c.words)
        /\ \A n \in 1 .. Len(c.words) : c.words[n] \in Int
    BY <1>3, LenProperties, ElementOfSeq
  <2>2. \A n \in 1 .. Len(c.words) : IO_write(Port(c), c.words[n]) \in Accessing
    BY <2>1, <1>4 DEF Accessing
  <2>3. UsbWrite(c) \in [1 .. Len(c.words) -> Accessing] BY <2>1, <2>2 DEF UsbWrite
  <2>4. UsbWrite(c) \in Seq(Accessing) BY <2>1, <2>3, SeqDef
  <2>5. c.words # <<>> => Len(c.words) # 0 BY <1>3, EmptySeq
  <2>6. Len(UsbWrite(c)) \in Nat /\ DOMAIN UsbWrite(c) = 1 .. Len(UsbWrite(c))
    BY <2>4, LenProperties
  <2>7. DOMAIN UsbWrite(c) = 1 .. Len(c.words) BY <2>1 DEF UsbWrite
  <2>8. Len(UsbWrite(c)) = Len(c.words) BY <2>1, <2>6, <2>7
  <2> QED BY <2>4, <2>5, <2>1, <2>8
<1>7. <<IO_write(HPI_ADDR, c.at)>> \in Seq(Accessing)
  <2>1. \A a \in Int : IO_write(HPI_ADDR, a) \in Accessing BY DEF HPI_ADDR, Accessing
  <2>2. IO_write(HPI_ADDR, c.at) \in Accessing BY <1>3, <2>1
  <2> QED BY <2>2
<1>8. (IF Ported(c) THEN <<>> ELSE <<IO_write(HPI_ADDR, c.at)>>) \in Seq(Accessing)
  BY <1>7, EmptySeq
<1>9. Accesses(c) \in Seq(Accessing) /\ Len(Accesses(c)) \in Nat \ {0}
  <2> DEFINE head == IF Ported(c) THEN <<>> ELSE <<IO_write(HPI_ADDR, c.at)>>
             rest == IF c.words = <<>> THEN UsbRead(c) ELSE UsbWrite(c)
  <2>1. head \in Seq(Accessing) BY <1>8
  <2>2. rest \in Seq(Accessing) /\ Len(rest) \in Nat \ {0} BY <1>5, <1>6
  <2>3. Accesses(c) = head \o rest BY DEF Accesses
  <2> HIDE DEF head, rest
  <2>4. head \o rest \in Seq(Accessing) /\ Len(head \o rest) = Len(head) + Len(rest)
    BY <2>1, <2>2, ConcatProperties
  <2>5. Len(head) \in Nat BY <2>1, LenProperties
  <2> QED BY <2>2, <2>3, <2>4, <2>5
<1>10. Len(Script) \in Nat BY <1>1, LenProperties
<1>11. k \in 0 .. Len(Script) /\ k # 0 BY <1>10
<1> QED BY <1>9, <1>11 DEF Program

-----------------------------------------------------------------------------
Pins == {"reset", "cs", "r", "w", "address", "data"}

\* Where the processor is in its script.
Position ==
  /\ at = [call |-> at.call, access |-> at.access, store |-> at.store]
  /\ at.call \in 0 .. Len(Script)
  /\ Calling => /\ at.access \in 1 .. Len(Program[at.call])
                /\ at.store \in 1 .. Len(Here)

\* Power-up: nothing is known of the pins before IO_init has set them.
Starting == Calling /\ at.call = 0
Started  ==
  Starting => /\ at.store >= 4 => pio["r"] # 0
              /\ at.store >= 5 => pio["w"] # 0 /\ otg.rd # 0

\* Afterwards a strobe is open only in front of the store that ends it, and
\* the chip sees the end of a read before temp is loaded.
Strobes ==
  ~Starting =>
    /\ pio["w"] = 0 => Calling /\ at.store = 5 /\ Here[5] = Store("w", 1)
    /\ pio["r"] = 0 => Calling /\ at.store = 4 /\ Here[4] = Store("r", 1)
    /\ otg.rd = 0 => \/ pio["r"] = 0
                     \/ Calling /\ at.store = 5 /\ Here[5].pin = "temp"

Inv ==
  /\ pio = [p \in Pins |-> pio[p]]
  /\ Position /\ Started /\ Strobes
  /\ awake => ~Starting

LEMMA FirstCall == /\ Program[0] = <<IO_init>> /\ Len(Program[0]) = 1 /\ Len(IO_init) = 10
                   /\ \A n \in 1 .. 1 : Program[0][n] = IO_init
<1>1. Len(Script) \in Nat BY HpiAssumption, LenProperties
<1>2. Program[0] = <<IO_init>> BY <1>1 DEF Program
<1>3. Len(<<IO_init>>) = 1 /\ <<IO_init>>[1] = IO_init OBVIOUS
<1>4. Len(IO_init) = 10 BY DEF IO_init
<1>5. \A n \in 1 .. 1 : Program[0][n] = IO_init BY <1>2, <1>3
<1> QED BY <1>2, <1>3, <1>4, <1>5

LEMMA Base == Init => Inv
<1> SUFFICES ASSUME Init PROVE Inv OBVIOUS
<1>1. Len(Script) \in Nat BY HpiAssumption, LenProperties
<1>2. at.call = 0 /\ at.access = 1 /\ at.store = 1 BY DEF Init
<1>3. Here = IO_init BY <1>2, FirstCall DEF Here
<1>4. Position
  <2>1. at = [call |-> 0, access |-> 1, store |-> 1] BY DEF Init
  <2>2. at = [call |-> at.call, access |-> at.access, store |-> at.store] BY <2>1
  <2>3. at.store \in 1 .. Len(Here) BY <1>2, <1>3, FirstCall
  <2> QED BY <1>1, <1>2, <2>2, <2>3, FirstCall DEF Position
<1>5. pio = [p \in Pins |-> pio[p]] BY DEF Init, Pins
<1>6. Started BY <1>2 DEF Started
<1>7. Starting BY <1>2 DEF Starting, Calling
<1>8. awake = FALSE BY DEF Init
<1> QED BY <1>4, <1>5, <1>6, <1>7, <1>8 DEF Inv, Strobes

-----------------------------------------------------------------------------
\* An edge registers the read strobe as it was, or none.
LEMMA ReadStrobe == ASSUME Edge PROVE otg'.rd = 0 => pio["r"] = 0
  BY DEF Edge, hpi_io_intf

\* A store of a pin changes that pin only.
LEMMA OnePin ==
  ASSUME pio = [p \in Pins |-> pio[p]], Stores
  PROVE  /\ pio' = [p \in Pins |-> pio'[p]]
         /\ \A p \in Pins : pio'[p] = IF Here[at.store].pin = p /\ p # "temp"
                                      THEN Here[at.store].value ELSE pio[p]
<1>1. "temp" \notin Pins BY DEF Pins
<1>2. CASE Here[at.store].pin = "temp" BY <1>1, <1>2 DEF Stores
<1>3. CASE Here[at.store].pin # "temp"
  <2>1. pio' = [pio EXCEPT ![Here[at.store].pin] = Here[at.store].value] BY <1>3 DEF Stores
  <2> QED BY <2>1, <1>1
<1> QED BY <1>2, <1>3

LEMMA PositionStep ==
  ASSUME Position, Stores
  PROVE  /\ Position' /\ at'.call = at.call
         /\ Calling
         /\ Calling' => (at'.store = at.store + 1 /\ Here' = Here) \/ at'.store = 1
         /\ at.store < Len(Here) => Calling' /\ at'.store = at.store + 1 /\ Here' = Here
         /\ at.call = 0 /\ at.store = Len(Here) => ~Calling'
<1>1. Len(Script) \in Nat BY HpiAssumption, LenProperties
<1>2. at' = Onward /\ Calling BY DEF Stores
<1>3. /\ at.access \in 1 .. Len(Program[at.call]) /\ at.store \in 1 .. Len(Here)
      /\ at.call \in 0 .. Len(Script)
  BY <1>2 DEF Position
<1>4. \A n \in 1 .. Len(Program[at.call]) : Len(Program[at.call][n]) \in Nat \ {0}
  <2>1. CASE at.call = 0
    <3>1. Program[at.call] = Program[0] BY <2>1
    <3>2. \A n \in 1 .. Len(Program[at.call]) : Program[at.call][n] = IO_init
      BY <3>1, FirstCall
    <3>3. Len(IO_init) \in Nat \ {0} BY FirstCall
    <3>4. \A n \in 1 .. Len(Program[at.call]) : Len(Program[at.call][n]) = Len(IO_init)
      BY <3>2
    <3> QED BY <3>3, <3>4
  <2>2. CASE at.call # 0
    <3>1. at.call \in 1 .. Len(Script) BY <2>2, <1>1, <1>3
    <3>2. Program[at.call] \in Seq(Accessing) BY <3>1, CallAccesses
    <3>3. \A n \in 1 .. Len(Program[at.call]) : Program[at.call][n] \in Accessing
      BY <3>2, ElementOfSeq
    <3> QED BY <3>3, TwoKinds DEF IsWrite, IsRead
  <2> QED BY <2>1, <2>2
<1>5. Len(Program[at.call]) \in Nat
  <2>1. CASE at.call = 0
    <3>1. Program[at.call] = Program[0] BY <2>1
    <3> QED BY <3>1, FirstCall
  <2>2. CASE at.call # 0
    <3>1. at.call \in 1 .. Len(Script) BY <2>2, <1>1, <1>3
    <3> QED BY <3>1, CallAccesses, LenProperties
  <2> QED BY <2>1, <2>2
<1>6. Len(Here) \in Nat \ {0} BY <1>3, <1>4 DEF Here
<1>a. at = [call |-> at.call, access |-> at.access, store |-> at.store] BY DEF Position
<1>7. CASE at.store < Len(Here)
  <2>a. at' = [at EXCEPT !.store = @ + 1] BY <1>2, <1>7 DEF Onward
  <2>1. at' = [call |-> at.call, access |-> at.access, store |-> at.store + 1]
    BY <2>a, <1>a
  <2>2. at'.call = at.call /\ at'.access = at.access /\ at'.store = at.store + 1 BY <2>1
  <2>3. Calling' /\ Here' = Here BY <2>2, <1>2 DEF Calling, Here
  <2> QED BY <2>1, <2>2, <2>3, <1>2, <1>3, <1>5, <1>6, <1>7 DEF Position
<1>8. CASE ~(at.store < Len(Here)) /\ at.access < Len(Program[at.call])
  <2>a. at' = [at EXCEPT !.access = @ + 1, !.store = 1] BY <1>2, <1>8 DEF Onward
  <2>1. at' = [call |-> at.call, access |-> at.access + 1, store |-> 1]
    BY <2>a, <1>a
  <2>2. at'.call = at.call /\ at'.access = at.access + 1 /\ at'.store = 1 BY <2>1
  <2>3. at'.access \in 1 .. Len(Program[at.call]) BY <2>2, <1>3, <1>5, <1>8
  <2>4. Here' = Program[at.call][at'.access] BY <2>2 DEF Here
  <2>5. Len(Here') \in Nat \ {0} BY <2>3, <2>4, <1>4
  <2>6. at.call # 0
    <3>1. SUFFICES ASSUME at.call = 0 PROVE FALSE OBVIOUS
    <3>2. Program[at.call] = Program[0] BY <3>1
    <3>3. Len(Program[at.call]) = 1 BY <3>2, FirstCall
    <3> QED BY <3>3, <1>8, <1>3
  <2>7. Position' BY <2>1, <2>2, <2>3, <2>5, <1>3 DEF Position
  <2> QED BY <2>2, <2>6, <2>7, <1>2, <1>8
<1>9. CASE ~(at.store < Len(Here)) /\ ~(at.access < Len(Program[at.call]))
  <2>a. at' = [at EXCEPT !.access = 0, !.store = 0] BY <1>2, <1>9 DEF Onward
  <2>1. at' = [call |-> at.call, access |-> 0, store |-> 0] BY <2>a, <1>a
  <2>2. at'.call = at.call /\ at'.access = 0 /\ at'.store = 0 BY <2>1
  <2>3. ~Calling' BY <2>2 DEF Calling
  <2>4. Position' BY <2>1, <2>2, <2>3, <1>3 DEF Position
  <2> QED BY <2>2, <2>3, <2>4, <1>2, <1>9
<1> QED BY <1>7, <1>8, <1>9

-----------------------------------------------------------------------------
\* The stores of IO_init, which sets both strobes before it resets the chip.
LEMMA FirstStores == ASSUME Inv, Edge, Stores, at.call = 0 PROVE Started' /\ Strobes'
<1>1. Calling /\ Starting BY PositionStep DEF Inv, Starting
<1>2. Here = IO_init
  <2>1. at.access \in 1 .. Len(Program[0]) BY <1>1 DEF Inv, Position
  <2> QED BY <2>1, FirstCall DEF Here
<1>3. at.store \in 1 .. 10 BY <1>1, <1>2, FirstCall DEF Inv, Position
<1>4. /\ \A n \in 4 .. 10 : IO_init[n].pin # "r"
      /\ \A n \in 5 .. 10 : IO_init[n].pin # "w"
      /\ IO_init[3] = Store("r", 1) /\ IO_init[4] = Store("w", 1)
  BY DEF IO_init, Store
<1>5. Store("r", 1).pin = "r" /\ Store("r", 1).value = 1
      /\ Store("w", 1).pin = "w" /\ Store("w", 1).value = 1
  BY DEF Store
<1>6. at.store >= 3 => pio'["r"] # 0
  <2>1. pio'["r"] = IF Here[at.store].pin = "r" /\ "r" # "temp"
                    THEN Here[at.store].value ELSE pio["r"]
    BY OnePin DEF Inv, Pins
  <2>2. CASE at.store = 3 BY <2>1, <2>2, <1>2, <1>4, <1>5
  <2>3. CASE at.store \in 4 .. 10
    <3>1. pio["r"] # 0 BY <2>3, <1>1 DEF Inv, Started
    <3> QED BY <2>1, <2>3, <3>1, <1>2, <1>4
  <2> QED BY <2>2, <2>3, <1>3
<1>7. at.store >= 4 => pio'["w"] # 0
  <2>1. pio'["w"] = IF Here[at.store].pin = "w" /\ "w" # "temp"
                    THEN Here[at.store].value ELSE pio["w"]
    BY OnePin DEF Inv, Pins
  <2>2. CASE at.store = 4 BY <2>1, <2>2, <1>2, <1>4, <1>5
  <2>3. CASE at.store \in 5 .. 10
    <3>1. pio["w"] # 0 BY <2>3, <1>1 DEF Inv, Started
    <3> QED BY <2>1, <2>3, <3>1, <1>2, <1>4
  <2> QED BY <2>2, <2>3, <1>3
<1>8. at.store >= 4 => otg'.rd # 0 BY <1>1, ReadStrobe DEF Inv, Started
<1>9. CASE at.store < 10
  <2>1. at'.store = at.store + 1 /\ Calling' /\ at'.call = 0
    BY <1>9, <1>2, FirstCall, PositionStep DEF Inv
  <2>2. Starting' BY <2>1 DEF Starting
  <2>3. Strobes' BY <2>2 DEF Strobes
  <2>4. Started' BY <2>1, <1>3, <1>6, <1>7, <1>8 DEF Started
  <2> QED BY <2>3, <2>4
<1>10. CASE at.store = 10
  <2>1. ~Calling' BY <1>10, <1>2, FirstCall, PositionStep DEF Inv
  <2>2. Started' BY <2>1 DEF Started, Starting
  <2>3. pio'["r"] # 0 /\ pio'["w"] # 0 /\ otg'.rd # 0 BY <1>10, <1>6, <1>7, <1>8
  <2> QED BY <2>2, <2>3 DEF Strobes
<1> QED BY <1>3, <1>9, <1>10

\* The access of a later call.
LEMMA LaterAccess ==
  ASSUME Inv, Calling, at.call # 0
  PROVE  /\ IsWrite(Here) \/ IsRead(Here)
         /\ at.store \in 1 .. 6
         /\ ~Starting
<1>1. Len(Script) \in Nat BY HpiAssumption, LenProperties
<1>2. at.call \in 1 .. Len(Script) BY <1>1 DEF Inv, Position
<1>3. Program[at.call] \in Seq(Accessing) BY <1>2, CallAccesses
<1>4. Here \in Accessing BY <1>3, ElementOfSeq DEF Inv, Position, Here
<1>5. IsWrite(Here) \/ IsRead(Here) BY <1>4, TwoKinds
<1>6. Len(Here) = 6 BY <1>5 DEF IsWrite, IsRead
<1>7. at.store \in 1 .. 6 BY <1>6 DEF Inv, Position
<1> QED BY <1>5, <1>7 DEF Starting

LEMMA StrobeFields ==
  /\ \A p \in Pins, v \in {0, 1} : Store(p, v).pin = p /\ Store(p, v).value = v
  /\ Store("w", 1) # Store("r", 1)
<1>1. \A p \in Pins, v \in {0, 1} : Store(p, v).pin = p /\ Store(p, v).value = v
  BY DEF Store
<1>2. Store("w", 1).pin # Store("r", 1).pin BY DEF Store
<1> QED BY <1>1, <1>2

LEMMA WriteStores ==
  ASSUME Inv, Edge, Stores, at.call # 0, IsWrite(Here) PROVE Started' /\ Strobes'
<1>1. Calling BY PositionStep DEF Inv
<1>2. at.store \in 1 .. 6 /\ ~Starting BY <1>1, LaterAccess
<1>a. /\ Len(Here) = 6 /\ Here[4] = Store("w", 0) /\ Here[5] = Store("w", 1)
      /\ Here[4].pin = "w" /\ Here[4].value = 0 /\ Here[5].pin = "w" /\ Here[5].value = 1
      /\ \A n \in {1, 2, 3, 6} : Here[n].pin \notin {"r", "w"}
  BY StrobeFields DEF IsWrite, Pins
<1>3. ~Starting'
  <2>1. at'.call # 0 BY PositionStep DEF Inv
  <2> QED BY <2>1 DEF Starting
<1>4. pio["r"] # 0
  <2>1. pio["r"] = 0 => Here[4] = Store("r", 1) BY <1>2 DEF Inv, Strobes
  <2> QED BY <2>1, <1>a, StrobeFields DEF Pins
<1>5. otg'.rd # 0 BY <1>4, ReadStrobe
<1>6. \A p \in {"r", "w"} : pio'[p] = IF Here[at.store].pin = p THEN Here[at.store].value ELSE pio[p]
  BY OnePin DEF Inv, Pins
<1>7. pio'["r"] # 0 BY <1>2, <1>4, <1>6, <1>a
<1>8. pio'["w"] = 0 => Calling' /\ at'.store = 5 /\ Here'[5] = Store("w", 1)
  <2>1. CASE at.store = 4
    <3>1. Calling' /\ at'.store = 5 /\ Here' = Here BY <2>1, <1>a, PositionStep DEF Inv
    <3> QED BY <3>1, <1>a
  <2>2. CASE at.store = 5
    <3>1. pio'["w"] = 1 BY <2>2, <1>6, <1>a
    <3> QED BY <3>1
  <2>3. CASE at.store \in {1, 2, 3, 6}
    <3>1. pio["w"] # 0 BY <2>3, <1>2 DEF Inv, Strobes
    <3>2. pio'["w"] = pio["w"] BY <2>3, <1>6, <1>a
    <3> QED BY <3>1, <3>2
  <2> QED BY <2>1, <2>2, <2>3, <1>2
<1>9. Started' BY <1>3 DEF Started
<1> QED BY <1>5, <1>7, <1>8, <1>9 DEF Strobes

LEMMA ReadStores ==
  ASSUME Inv, Edge, Stores, at.call # 0, IsRead(Here) PROVE Started' /\ Strobes'
<1>1. Calling BY PositionStep DEF Inv
<1>2. at.store \in 1 .. 6 /\ ~Starting BY <1>1, LaterAccess
<1>a. /\ Len(Here) = 6 /\ Here[3].pin = "r" /\ Here[3].value = 0
      /\ Here[4] = Store("r", 1) /\ Here[4].pin = "r" /\ Here[4].value = 1
      /\ Here[5].pin = "temp"
      /\ \A n \in {1, 2, 6} : Here[n].pin \notin {"r", "w"}
  BY StrobeFields DEF IsRead, Pins
<1>3. ~Starting'
  <2>1. at'.call # 0 BY PositionStep DEF Inv
  <2> QED BY <2>1 DEF Starting
<1>4. pio["w"] # 0
  <2>1. pio["w"] = 0 => Here[5] = Store("w", 1) BY <1>2 DEF Inv, Strobes
  <2>2. Store("w", 1).pin = "w" BY StrobeFields DEF Pins
  <2> QED BY <2>1, <2>2, <1>a
<1>5. pio["r"] = 0 => at.store = 4 BY <1>2 DEF Inv, Strobes
<1>6. \A p \in {"r", "w"} : pio'[p] = IF Here[at.store].pin = p THEN Here[at.store].value ELSE pio[p]
  BY OnePin DEF Inv, Pins
<1>7. pio'["w"] # 0 BY <1>2, <1>4, <1>6, <1>a
<1>8. otg'.rd = 0 => at.store = 4 BY <1>5, ReadStrobe
<1>9. CASE at.store = 3
  <2>1. Calling' /\ at'.store = 4 /\ Here' = Here BY <1>9, <1>a, PositionStep DEF Inv
  <2>2. otg'.rd # 0 BY <1>8, <1>9
  <2> QED BY <2>1, <2>2, <1>3, <1>7, <1>a DEF Started, Strobes
<1>10. CASE at.store = 4
  <2>1. Calling' /\ at'.store = 5 /\ Here' = Here BY <1>10, <1>a, PositionStep DEF Inv
  <2>2. pio'["r"] = 1 BY <1>10, <1>6, <1>a
  <2> QED BY <2>1, <2>2, <1>3, <1>7, <1>a DEF Started, Strobes
<1>11. CASE at.store \in {1, 2, 5, 6}
  <2>1. otg'.rd # 0 /\ pio["r"] # 0 BY <1>5, <1>8, <1>11
  <2>2. pio'["r"] # 0 BY <2>1, <1>6, <1>11, <1>a
  <2> QED BY <2>1, <2>2, <1>3, <1>7 DEF Started, Strobes
<1> QED BY <1>2, <1>9, <1>10, <1>11

LEMMA EdgeStep == ASSUME Inv, Edge PROVE Inv'
<1>1. awake' = awake BY DEF Edge
<1>2. CASE Stores
  <2>1. Position' /\ at'.call = at.call /\ Calling BY <1>2, PositionStep DEF Inv
  <2>2. pio' = [p \in Pins |-> pio'[p]] BY <1>2, OnePin DEF Inv
  <2>3. awake' => ~Starting' BY <2>1, <1>1 DEF Inv, Starting
  <2>4. Started' /\ Strobes'
    <3>1. CASE at.call = 0 BY <3>1, <1>2, FirstStores
    <3>2. CASE at.call # 0 BY <3>2, <2>1, <1>2, LaterAccess, WriteStores, ReadStores
    <3> QED BY <3>1, <3>2
  <2> QED BY <2>1, <2>2, <2>3, <2>4 DEF Inv
<1>3. CASE Computes
  <2>1. at' = at /\ pio' = pio BY <1>3 DEF Computes, program
  <2>2. Calling' = Calling /\ Starting' = Starting /\ Here' = Here
    BY <2>1 DEF Calling, Starting, Here
  <2>3. Position' BY <2>1, <2>2 DEF Inv, Position
  <2>4. otg'.rd = 0 => pio["r"] = 0 BY ReadStrobe
  <2>5. at.store \in Int \/ ~Calling
    <3>1. Calling => at.store \in 1 .. Len(Here) BY DEF Inv, Position
    <3> QED BY <3>1
  <2>6. Started' BY <2>1, <2>2, <2>4, <2>5 DEF Inv, Started, Starting
  <2>7. Strobes' BY <2>1, <2>2, <2>4 DEF Inv, Strobes
  <2> QED BY <1>1, <2>1, <2>2, <2>3, <2>6, <2>7 DEF Inv
<1> QED BY <1>2, <1>3 DEF Edge

\* A call begins with its first store and with every strobe closed.
LEMMA CallStep == ASSUME Inv, Call PROVE Inv'
<1>1. Len(Script) \in Nat /\ DOMAIN Script = 1 .. Len(Script)
  BY HpiAssumption, LenProperties
<1>2. PICK k \in 1 .. Len(Script) : at' = [call |-> k, access |-> 1, store |-> 1]
  BY <1>1, Zenon DEF Call
<1>3. /\ ~Calling /\ pio' = pio /\ otg' = otg /\ awake' = awake
  BY DEF Call, intf
<1>4. at'.call = k /\ at'.access = 1 /\ at'.store = 1 BY <1>2
<1>5. Program[k] \in Seq(Accessing) /\ Len(Program[k]) \in Nat \ {0} BY CallAccesses
<1>6. Here' = Program[k][1] BY <1>4 DEF Here
<1>7. Len(Here') = 6
  <2>1. Program[k][1] \in Accessing BY <1>5, ElementOfSeq
  <2> QED BY <2>1, <1>6, TwoKinds DEF IsWrite, IsRead
<1>8. Position'
  <2>1. at' = [call |-> at'.call, access |-> at'.access, store |-> at'.store] BY <1>2
  <2>2. at'.access \in 1 .. Len(Program[at'.call]) BY <1>4, <1>5
  <2>3. at'.store \in 1 .. Len(Here') BY <1>4, <1>7
  <2>4. at'.call \in 0 .. Len(Script) BY <1>1, <1>4
  <2> QED BY <2>1, <2>2, <2>3, <2>4 DEF Position
<1>9. ~Starting /\ ~Starting' BY <1>3, <1>4 DEF Starting
<1>10. pio["w"] # 0 /\ pio["r"] # 0 /\ otg.rd # 0 BY <1>3, <1>9 DEF Inv, Strobes
<1> QED BY <1>3, <1>8, <1>9, <1>10 DEF Inv, Started, Strobes

LEMMA RestStep == ASSUME Inv, Boot \/ Execute \/ Press \/ UNCHANGED vars PROVE Inv'
<1>1. at' = at /\ pio' = pio /\ otg' = otg
  BY DEF Boot, Execute, Press, vars, intf, program
<1>2. awake' = awake \/ ~Calling BY DEF Boot, Execute, Press, vars
<1>3. Calling' = Calling /\ Starting' = Starting /\ Here' = Here
  BY <1>1 DEF Calling, Starting, Here
<1>4. Position' /\ Started' /\ Strobes'
  BY <1>1, <1>3 DEF Inv, Position, Started, Strobes
<1> QED BY <1>1, <1>2, <1>3, <1>4 DEF Inv, Starting

LEMMA Step == ASSUME Inv, [Next]_vars PROVE Inv'
  BY EdgeStep, CallStep, RestStep DEF Next

\* The FPGA drives while the unregistered write pin is low, the chip while the
\* registered read strobe is: no access opens both.
LEMMA Apart == ASSUME Inv PROVE NoContention
<1>1. SUFFICES ASSUME FpgaDrives, ChipDrives PROVE FALSE BY DEF NoContention
<1>2. pio["w"] = 0 /\ awake /\ otg.rd = 0 BY <1>1 DEF FpgaDrives, ChipDrives
<1>3. ~Starting BY <1>2 DEF Inv
<1>4. Calling /\ at.store = 5 /\ Here[5] = Store("w", 1) BY <1>2, <1>3 DEF Inv, Strobes
<1>5. Here[5].pin = "w" BY <1>4, StrobeFields DEF Pins
<1>6. pio["r"] # 0 BY <1>3, <1>4 DEF Inv, Strobes
<1>7. Here[5].pin = "temp" BY <1>2, <1>3, <1>6 DEF Inv, Strobes
<1> QED BY <1>5, <1>7

\* NoContention of io_handler.c and hpi_io_intf.sv, whatever usb.c calls, for
\* every pace of the processor and every press of KEY0, within a call included.
THEOREM NeverFights == Spec => []NoContention
<1>1. Init => Inv BY Base
<1>2. Inv /\ [Next]_vars => Inv' BY Step
<1>3. Inv => NoContention BY Apart
<1> QED BY <1>1, <1>2, <1>3, PTL DEF Spec

-----------------------------------------------------------------------------
(* The way to the chip's memory, when KEY0 stays up within a call.         *)

\* The call that runs and what its access is: the one that sets the pointer,
\* a read, or the write of a word.
InCall      == Calling /\ at.call # 0
Current     == Script[at.call]
SetsPointer == ~Ported(Current) /\ at.access = 1
Asking      == ~SetsPointer /\ Current.words = <<>>
Index       == IF Ported(Current) THEN at.access ELSE at.access - 1
PortNow     == IF SetsPointer THEN HPI_ADDR ELSE Port(Current)
WordNow     == IF SetsPointer THEN Current.at ELSE Current.words[Index]

LEMMA WriteAccess ==
  ASSUME NEW p \in Int, NEW a \in Int PROVE IO_write(p, a) \in Accessing
BY DEF Accessing

\* The accesses of a call, one by one.
LEMMA AccessesAre ==
  ASSUME NEW c \in [at : Nat, words : Seq(Int)]
  PROVE  /\ Ported(c) /\ c.words = <<>> =>
              Len(Accesses(c)) = 1 /\ Accesses(c)[1] = IO_read(Port(c))
         /\ ~Ported(c) => Accesses(c)[1] = IO_write(HPI_ADDR, c.at)
         /\ ~Ported(c) /\ c.words = <<>> =>
              Len(Accesses(c)) = 2 /\ Accesses(c)[2] = IO_read(Port(c))
         /\ Ported(c) /\ c.words # <<>> =>
              /\ Len(Accesses(c)) = Len(c.words)
              /\ \A n \in 1 .. Len(c.words) : Accesses(c)[n] = IO_write(Port(c), c.words[n])
         /\ ~Ported(c) /\ c.words # <<>> =>
              /\ Len(Accesses(c)) = Len(c.words) + 1
              /\ \A n \in 1 .. Len(c.words) :
                   Accesses(c)[n + 1] = IO_write(Port(c), c.words[n])
<1> DEFINE S == Seq(Accessing)
           head == <<IO_write(HPI_ADDR, c.at)>>
           w == UsbWrite(c)
           r == UsbRead(c)
<1>1. c.at \in Nat /\ c.words \in Seq(Int) OBVIOUS
<1>2. Port(c) \in Int BY <1>1 DEF Port, HPI_DATA
<1>3. r \in S /\ Len(r) = 1 /\ r[1] = IO_read(Port(c)) BY <1>2 DEF UsbRead, Accessing
<1>4. head \in S /\ Len(head) = 1 /\ head[1] = IO_write(HPI_ADDR, c.at)
  <2>1. HPI_ADDR \in Int /\ c.at \in Int BY <1>1 DEF HPI_ADDR
  <2>2. IO_write(HPI_ADDR, c.at) \in Accessing BY <2>1, WriteAccess
  <2> QED BY <2>2
<1>5. /\ w \in S /\ Len(w) = Len(c.words) /\ Len(c.words) \in Nat
      /\ \A n \in 1 .. Len(c.words) : w[n] = IO_write(Port(c), c.words[n])
  <2>1. /\ Len(c.words) \in Nat /\ DOMAIN c.words = 1 .. Len(c.words)
        /\ \A n \in 1 .. Len(c.words) : c.words[n] \in Int
    BY <1>1, LenProperties, ElementOfSeq
  <2>2. \A n \in 1 .. Len(c.words) : IO_write(Port(c), c.words[n]) \in Accessing
    BY <2>1, <1>2 DEF Accessing
  <2>3. w \in [1 .. Len(c.words) -> Accessing] BY <2>1, <2>2 DEF UsbWrite
  <2>4. w \in S BY <2>1, <2>3, SeqDef
  <2>5. Len(w) \in Nat /\ DOMAIN w = 1 .. Len(w) BY <2>4, LenProperties
  <2>6. DOMAIN w = 1 .. Len(c.words) BY <2>1 DEF UsbWrite
  <2>7. Len(w) = Len(c.words) BY <2>1, <2>5, <2>6
  <2>8. \A n \in 1 .. Len(c.words) : w[n] = IO_write(Port(c), c.words[n])
    BY <2>1 DEF UsbWrite
  <2> QED BY <2>1, <2>4, <2>7, <2>8
<1> HIDE DEF w, r, head, S
<1>6. Accesses(c) = (IF Ported(c) THEN <<>> ELSE head) \o (IF c.words = <<>> THEN r ELSE w)
  BY Zenon DEF Accesses, head, w, r
<1>7. \A s \in S : <<>> \o s = s BY ConcatEmptySeq DEF S
<1>8. \A s \in S : /\ Len(head \o s) = Len(s) + 1
                   /\ (head \o s)[1] = head[1]
                   /\ \A n \in 1 .. Len(s) : (head \o s)[n + 1] = s[n]
  <2> SUFFICES ASSUME NEW s \in S
               PROVE  /\ Len(head \o s) = Len(s) + 1
                      /\ (head \o s)[1] = head[1]
                      /\ \A n \in 1 .. Len(s) : (head \o s)[n + 1] = s[n]
    OBVIOUS
  <2>1. Len(s) \in Nat BY LenProperties DEF S
  <2>2. /\ Len(head \o s) = Len(head) + Len(s)
        /\ \A i \in 1 .. Len(head) + Len(s) :
             (head \o s)[i] = IF i <= Len(head) THEN head[i] ELSE s[i - Len(head)]
    BY <1>4, ConcatProperties DEF S
  <2>3. ASSUME NEW n \in 1 .. Len(s) PROVE (head \o s)[n + 1] = s[n]
    <3>1. n + 1 \in 1 .. Len(head) + Len(s) /\ ~(n + 1 <= Len(head)) /\ (n + 1) - Len(head) = n
      BY <1>4, <2>1
    <3> QED BY <2>2, <3>1
  <2>4. 1 \in 1 .. Len(head) + Len(s) /\ 1 <= Len(head) BY <1>4, <2>1
  <2> QED BY <1>4, <2>1, <2>2, <2>3, <2>4
<1>9. CASE Ported(c) /\ c.words = <<>> BY <1>3, <1>6, <1>7, <1>9
<1>10. CASE Ported(c) /\ c.words # <<>> BY <1>5, <1>6, <1>7, <1>10
<1>11. CASE ~Ported(c) /\ c.words = <<>>
  <2>1. Accesses(c) = head \o r BY <1>6, <1>11
  <2>2. Len(head \o r) = 2 /\ (head \o r)[1] = head[1] /\ (head \o r)[1 + 1] = r[1]
    <3>1. r \in S /\ Len(r) = 1 BY <1>3
    <3>2. /\ Len(head \o r) = Len(r) + 1 /\ (head \o r)[1] = head[1]
          /\ \A n \in 1 .. Len(r) : (head \o r)[n + 1] = r[n]
      BY <1>8, <3>1
    <3>3. 1 \in 1 .. Len(r) BY <3>1
    <3>4. (head \o r)[1 + 1] = r[1] BY <3>2, <3>3
    <3> QED BY <3>1, <3>2, <3>4
  <2> QED BY <1>3, <1>4, <1>11, <2>1, <2>2
<1>12. CASE ~Ported(c) /\ c.words # <<>>
  <2>1. Accesses(c) = head \o w BY <1>6, <1>12
  <2> QED BY <1>4, <1>5, <1>8, <1>12, <2>1
<1> QED BY <1>9, <1>10, <1>11, <1>12

\* What the access in a call is made of, and which word of the block it is.
LEMMA AccessIs ==
  ASSUME Disciplined, Inv, InCall
  PROVE  /\ Current \in {Script[k] : k \in DOMAIN Script} /\ Current # NoCall
         /\ Current.at \in Nat /\ Current.words \in Seq(Nat)
         /\ at.access \in Nat \ {0}
         /\ Asking => /\ Here = IO_read(PortNow) /\ at.access = Len(Program[at.call])
                      /\ Current.at \in Cells /\ PortNow = Port(Current)
         /\ SetsPointer => at.access # Len(Program[at.call])
         /\ ~Asking => Here = IO_write(PortNow, WordNow) /\ WordNow \in Nat
         /\ ~Asking /\ ~SetsPointer =>
              /\ Index \in 1 .. Len(Current.words) /\ Current.words # <<>>
              /\ Ported(Current) => Index = 1
              /\ at.access = Len(Program[at.call]) => Index = Len(Current.words)
              /\ WordNow = Current.words[Index] /\ PortNow = Port(Current)
<1>1. Script \in Seq([at : Nat, words : Seq(Int)]) BY HpiAssumption
<1>2. Len(Script) \in Nat /\ DOMAIN Script = 1 .. Len(Script) BY <1>1, LenProperties
<1>3. at.call \in 1 .. Len(Script) BY <1>2 DEF InCall, Inv, Position
<1>4. Current \in [at : Nat, words : Seq(Int)] BY <1>1, <1>3, ElementOfSeq DEF Current
<1>5. /\ Current # NoCall /\ Current.words \in Seq(Nat) /\ Current.at \in Nat
      /\ Current.words = <<>> => Current.at \in Cells
      /\ Ported(Current) => Len(Current.words) <= 1
  BY <1>2, <1>3, <1>4 DEF Disciplined, Current
<1>6. Program[at.call] = Accesses(Current)
  <2>1. at.call \in 0 .. Len(Script) /\ at.call # 0 BY <1>2, <1>3
  <2> QED BY <2>1 DEF Program, Current
<1> DEFINE n == at.access
           L == Len(Current.words)
<1>7. n \in 1 .. Len(Accesses(Current)) /\ Here = Accesses(Current)[n]
  BY <1>6 DEF InCall, Inv, Position, Here
<1>8. /\ L \in Nat /\ (Current.words # <<>> => L # 0)
      /\ \A i \in 1 .. L : Current.words[i] \in Nat
  BY <1>5, LenProperties, EmptySeq, ElementOfSeq
<1>9. Current \in {Script[k] : k \in DOMAIN Script} BY <1>2, <1>3 DEF Current
<1> DEFINE Claim ==
  /\ n \in Nat \ {0}
  /\ Asking => Here = IO_read(PortNow) /\ n = Len(Program[at.call]) /\ PortNow = Port(Current)
  /\ SetsPointer => n # Len(Program[at.call])
  /\ ~Asking => Here = IO_write(PortNow, WordNow) /\ WordNow \in Nat
  /\ ~Asking /\ ~SetsPointer =>
       /\ Index \in 1 .. L /\ Current.words # <<>>
       /\ Ported(Current) => Index = 1
       /\ n = Len(Program[at.call]) => Index = L
       /\ WordNow = Current.words[Index] /\ PortNow = Port(Current)
<1>10. ASSUME Ported(Current) /\ Current.words = <<>> PROVE Claim
  <2>1. Len(Accesses(Current)) = 1 /\ Accesses(Current)[1] = IO_read(Port(Current))
    BY <1>4, <1>10, AccessesAre
  <2>2. n = 1 BY <1>7, <2>1
  <2>3. ~SetsPointer /\ Asking BY <1>10 DEF SetsPointer, Asking
  <2>4. PortNow = Port(Current) BY <2>3 DEF PortNow
  <2>5. Here = IO_read(Port(Current)) BY <1>7, <2>1, <2>2
  <2>6. n \in Nat \ {0} /\ n = Len(Program[at.call]) BY <1>6, <2>1, <2>2
  <2> QED BY <2>3, <2>4, <2>5, <2>6
<1>11. ASSUME Ported(Current) /\ Current.words # <<>> PROVE Claim
  <2>1. /\ Len(Accesses(Current)) = L
        /\ \A i \in 1 .. L : Accesses(Current)[i] = IO_write(Port(Current), Current.words[i])
    BY <1>4, <1>11, AccessesAre
  <2>2. L = 1
    <3>1. L <= 1 BY <1>5, <1>11
    <3>2. L # 0 /\ L \in Nat BY <1>8, <1>11
    <3> HIDE DEF L
    <3> QED BY <3>1, <3>2
  <2>3. n = 1 BY <1>7, <2>1, <2>2
  <2>4. ~SetsPointer /\ ~Asking BY <1>11 DEF SetsPointer, Asking
  <2>5. Index = n BY <1>11 DEF Index
  <2>6. PortNow = Port(Current) /\ WordNow = Current.words[Index]
    BY <2>4 DEF PortNow, WordNow
  <2>7. Here = IO_write(Port(Current), Current.words[n]) BY <1>7, <2>1, <2>2, <2>3
  <2>8. Current.words[n] \in Nat BY <1>8, <2>2, <2>3
  <2>9. n \in Nat \ {0} /\ Index \in 1 .. L /\ Index = L /\ Index = 1 BY <2>2, <2>3, <2>5
  <2> HIDE DEF n, L
  <2> QED BY <1>11, <2>4, <2>5, <2>6, <2>7, <2>8, <2>9
<1>12. ASSUME ~Ported(Current) /\ n = 1 PROVE Claim
  <2>1. Accesses(Current)[1] = IO_write(HPI_ADDR, Current.at) BY <1>4, <1>12, AccessesAre
  <2>2. SetsPointer /\ ~Asking BY <1>12 DEF SetsPointer, Asking
  <2>3. PortNow = HPI_ADDR /\ WordNow = Current.at BY <2>2 DEF PortNow, WordNow
  <2>4. n # Len(Program[at.call])
    <3>1. CASE Current.words = <<>>
      BY <1>4, <1>6, <1>12, <3>1, AccessesAre
    <3>2. CASE Current.words # <<>>
      <4>1. Len(Accesses(Current)) = L + 1 BY <1>4, <1>12, <3>2, AccessesAre
      <4> QED BY <1>6, <1>8, <1>12, <3>2, <4>1
    <3> QED BY <3>1, <3>2
  <2>5. Here = IO_write(HPI_ADDR, Current.at) BY <1>7, <1>12, <2>1
  <2> QED BY <1>5, <1>12, <2>2, <2>3, <2>4, <2>5
<1>13. ASSUME ~Ported(Current) /\ n # 1 /\ Current.words = <<>> PROVE Claim
  <2>1. Len(Accesses(Current)) = 2 /\ Accesses(Current)[2] = IO_read(Port(Current))
    BY <1>4, <1>13, AccessesAre
  <2>2. n = 2 BY <1>7, <1>13, <2>1
  <2>3. ~SetsPointer /\ Asking BY <1>13 DEF SetsPointer, Asking
  <2>4. PortNow = Port(Current) BY <2>3 DEF PortNow
  <2>5. Here = IO_read(Port(Current)) BY <1>7, <2>1, <2>2
  <2>6. n \in Nat \ {0} /\ n = Len(Program[at.call]) BY <1>6, <2>1, <2>2
  <2> QED BY <2>3, <2>4, <2>5, <2>6
<1>14. ASSUME ~Ported(Current) /\ n # 1 /\ Current.words # <<>> PROVE Claim
  <2>1. /\ Len(Accesses(Current)) = L + 1
        /\ \A i \in 1 .. L : Accesses(Current)[i + 1] = IO_write(Port(Current), Current.words[i])
    BY <1>4, <1>14, AccessesAre
  <2>2. ~SetsPointer /\ ~Asking BY <1>14 DEF SetsPointer, Asking
  <2>3. Index = n - 1 BY <1>14 DEF Index
  <2>4. Index \in 1 .. L /\ n = Index + 1 BY <1>7, <1>8, <1>14, <2>1, <2>3
  <2>5. PortNow = Port(Current) /\ WordNow = Current.words[Index]
    BY <2>2 DEF PortNow, WordNow
  <2>6. Here = IO_write(Port(Current), Current.words[Index])
    <3>1. Accesses(Current)[Index + 1] = IO_write(Port(Current), Current.words[Index])
      BY <2>1, <2>4
    <3> QED BY <1>7, <2>4, <3>1
  <2>7. Current.words[Index] \in Nat BY <1>8, <2>4
  <2>8. n \in Nat \ {0} /\ (n = Len(Program[at.call]) => Index = L)
    BY <1>6, <1>8, <2>1, <2>4
  <2> HIDE DEF n, L
  <2> QED BY <1>14, <2>2, <2>4, <2>5, <2>6, <2>7, <2>8
<1>15. Claim
  BY <1>10, <1>11, <1>12, <1>13, <1>14
<1>16. Asking => Current.at \in Cells BY <1>5 DEF Asking
<1> QED BY <1>5, <1>9, <1>15, <1>16

-----------------------------------------------------------------------------
\* The registers and the chip in between, while the script runs undisturbed.
Undisturbed ==
  /\ since \in 1 .. MaxStep
  /\ Reset \in BOOLEAN /\ awake \in BOOLEAN
  /\ Calling => ~Reset
  /\ InCall => awake
  /\ mem = [x \in Cells |-> mem[x]]

\* The registered strobes follow those of the ports by one edge.
LateStrobes ==
  ~Starting =>
    /\ otg.wr = 0 => /\ InCall /\ ~Asking
                     /\ (at.store = 5 /\ since >= 2) \/ (at.store = 6 /\ since = 1)
    /\ otg.rd = 0 => /\ InCall /\ Asking
                     /\ (at.store = 4 /\ since >= 2) \/ (at.store = 5 /\ since = 1)

\* A write: its word is on the bus until the edge at which the chip takes it.
WriteWires ==
  InCall /\ ~Asking =>
    /\ at.store >= 2 => pio["data"] = WordNow
    /\ at.store >= 3 => pio["address"] = PortNow /\ data_out_buffer = WordNow
    /\ at.store >= 4 => pio["cs"] = 0
    /\ at.store >= 5 => otg.cs = 0 /\ otg.addr = PortNow
    /\ at.store = 5 => pio["w"] = 0
    /\ at.store = 5 /\ since >= 2 => otg.wr = 0
    /\ at.store = 6 /\ since = 1 => otg.wr = 0 /\ kept = WordNow /\ age = 0

\* A read: its word outlives the strobe, on the bus and in the registers, by as
\* much as the processor may take to load temp.
ReadWires ==
  InCall /\ Asking =>
    /\ at.store >= 2 => pio["address"] = PortNow
    /\ at.store >= 3 => pio["cs"] = 0
    /\ at.store >= 4 => otg.cs = 0 /\ otg.addr = PortNow
    /\ at.store = 4 => pio["r"] = 0
    /\ at.store = 4 /\ since >= 2 => otg.rd = 0
    /\ at.store = 5 /\ since = 1 => otg.rd = 0
    /\ at.store = 5 /\ since <= Hold + 2 => data_in = out
    /\ at.store = 5 /\ since >= 2 => readdata = out
    /\ at.store = 5 /\ since >= 2 /\ since <= Hold + 2 =>
         kept = out /\ age \in Int /\ age <= since - 2
    /\ at.store = 6 => temp = out

\* The words of the call that the chip has taken or given, and where its
\* pointer is.
Progress ==
  InCall =>
    /\ SetsPointer => /\ taken = 0
                      /\ at.store = 6 /\ since >= 2 => pointer = Current.at
    /\ ~SetsPointer /\ ~Asking =>
         /\ taken = IF at.store = 6 /\ since >= 2 THEN Index ELSE Index - 1
         /\ ~Ported(Current) => pointer = Current.at + 2 * taken
    /\ Asking =>
         /\ taken = IF at.store >= 5 \/ (at.store = 4 /\ since >= 2) THEN 1 ELSE 0
         /\ taken = 0 /\ ~Ported(Current) => pointer = Current.at

WInv == Undisturbed /\ LateStrobes /\ WriteWires /\ ReadWires /\ Progress

-----------------------------------------------------------------------------
\* The stores of the two accesses, pin by pin.
LEMMA WritePins ==
  ASSUME Inv, Stores, NEW p \in Int, NEW w \in Int, Here = IO_write(p, w), at.store \in 1 .. 6
  PROVE  /\ pio'["data"] = IF at.store = 1 THEN w ELSE pio["data"]
         /\ pio'["address"] = IF at.store = 2 THEN p ELSE pio["address"]
         /\ pio'["cs"] = IF at.store = 3 THEN 0 ELSE IF at.store = 6 THEN 1 ELSE pio["cs"]
         /\ pio'["w"] = IF at.store = 4 THEN 0 ELSE IF at.store = 5 THEN 1 ELSE pio["w"]
         /\ temp' = temp
<1>1. /\ Here[1] = Store("data", w) /\ Here[2] = Store("address", p)
      /\ Here[3] = Store("cs", 0) /\ Here[4] = Store("w", 0)
      /\ Here[5] = Store("w", 1) /\ Here[6] = Store("cs", 1)
  BY DEF IO_write
<1>2. \A q, v : Store(q, v).pin = q /\ Store(q, v).value = v BY DEF Store
<1>3. \A q \in Pins : pio'[q] = IF Here[at.store].pin = q /\ q # "temp"
                                THEN Here[at.store].value ELSE pio[q]
  BY OnePin DEF Inv
<1>4. {"data", "address", "cs", "w"} \subseteq Pins BY DEF Pins
<1>5. Here[at.store].pin # "temp" BY <1>1, <1>2
<1>6. temp' = temp BY <1>5 DEF Stores
<1> DEFINE s == Here[at.store]
<1>7. /\ at.store = 1 => s.pin = "data" /\ s.value = w
      /\ at.store = 2 => s.pin = "address" /\ s.value = p
      /\ at.store = 3 => s.pin = "cs" /\ s.value = 0
      /\ at.store = 4 => s.pin = "w" /\ s.value = 0
      /\ at.store = 5 => s.pin = "w" /\ s.value = 1
      /\ at.store = 6 => s.pin = "cs" /\ s.value = 1
  BY <1>1, <1>2
<1>8. \A q \in {"data", "address", "cs", "w"} : pio'[q] = IF s.pin = q THEN s.value ELSE pio[q]
  BY <1>3, <1>4
<1> HIDE DEF s
<1>9. at.store = 1 \/ at.store = 2 \/ at.store = 3 \/ at.store = 4 \/ at.store = 5 \/ at.store = 6
  OBVIOUS
<1> QED BY <1>6, <1>7, <1>8, <1>9

LEMMA ReadPins ==
  ASSUME Inv, Stores, NEW p \in Int, Here = IO_read(p), at.store \in 1 .. 6
  PROVE  /\ pio'["address"] = IF at.store = 1 THEN p ELSE pio["address"]
         /\ pio'["cs"] = IF at.store = 2 THEN 0 ELSE IF at.store = 6 THEN 1 ELSE pio["cs"]
         /\ pio'["r"] = IF at.store = 3 THEN 0 ELSE IF at.store = 4 THEN 1 ELSE pio["r"]
         /\ temp' = IF at.store = 5 THEN readdata ELSE temp
<1>1. /\ Here[1] = Store("address", p) /\ Here[2] = Store("cs", 0)
      /\ Here[3] = Store("r", 0) /\ Here[4] = Store("r", 1)
      /\ Here[5] = Store("temp", 0) /\ Here[6] = Store("cs", 1)
  BY DEF IO_read
<1>2. \A q, v : Store(q, v).pin = q /\ Store(q, v).value = v BY DEF Store
<1>3. \A q \in Pins : pio'[q] = IF Here[at.store].pin = q /\ q # "temp"
                                THEN Here[at.store].value ELSE pio[q]
  BY OnePin DEF Inv
<1>4. {"address", "cs", "r"} \subseteq Pins BY DEF Pins
<1> DEFINE s == Here[at.store]
<1>7. /\ at.store = 1 => s.pin = "address" /\ s.value = p
      /\ at.store = 2 => s.pin = "cs" /\ s.value = 0
      /\ at.store = 3 => s.pin = "r" /\ s.value = 0
      /\ at.store = 4 => s.pin = "r" /\ s.value = 1
      /\ at.store = 5 => s.pin = "temp"
      /\ at.store = 6 => s.pin = "cs" /\ s.value = 1
  BY <1>1, <1>2
<1>8. \A q \in {"address", "cs", "r"} : pio'[q] = IF s.pin = q THEN s.value ELSE pio[q]
  BY <1>3, <1>4
<1>9. temp' = IF s.pin = "temp" THEN readdata ELSE temp BY DEF Stores, IO_read_temp
<1> HIDE DEF s
<1>10. at.store = 1 \/ at.store = 2 \/ at.store = 3 \/ at.store = 4 \/ at.store = 5 \/ at.store = 6
  OBVIOUS
<1> QED BY <1>7, <1>8, <1>9, <1>10

\* How an edge moves on in a call: within the access, to the next, or out.
Within     == /\ at'.call = at.call /\ at'.access = at.access /\ at'.store = at.store + 1
              /\ at.store < 6
NextAccess == /\ at'.call = at.call /\ at'.access = at.access + 1 /\ at'.store = 1
              /\ at.store = 6 /\ at.access < Len(Program[at.call])
Leaves     == ~Calling' /\ at.store = 6 /\ at.access = Len(Program[at.call])

LEMMA StoreMoves ==
  ASSUME Inv, InCall, Stores
  PROVE  /\ at.store \in 1 .. 6 /\ Len(Here) = 6
         /\ Within \/ NextAccess \/ Leaves
         /\ Leaves <=> Returns
<1>1. at.store \in 1 .. 6 BY LaterAccess DEF InCall
<1>2. Len(Here) = 6 BY LaterAccess DEF InCall, IsWrite, IsRead
<1>3. at = [call |-> at.call, access |-> at.access, store |-> at.store] BY DEF Inv, Position
<1>4. at.access \in 1 .. Len(Program[at.call]) BY DEF Inv, Position, InCall
<1>5. Len(Program[at.call]) \in Nat
  <2>1. Len(Script) \in Nat BY HpiAssumption, LenProperties
  <2>2. at.call \in 1 .. Len(Script) BY <2>1 DEF Inv, Position, InCall
  <2> QED BY <2>2, CallAccesses
<1>6. at' = Onward BY DEF Stores
<1>7. CASE at.store < 6
  <2>1. at' = [at EXCEPT !.store = @ + 1] BY <1>2, <1>6, <1>7 DEF Onward
  <2>2. at' = [call |-> at.call, access |-> at.access, store |-> at.store + 1] BY <1>3, <2>1
  <2>3. Within BY <2>2, <1>7 DEF Within
  <2>4. ~Leaves /\ ~Returns BY <1>1, <1>2, <1>7 DEF Leaves, Returns
  <2> QED BY <1>1, <1>2, <2>3, <2>4
<1>8. CASE at.store = 6 /\ at.access < Len(Program[at.call])
  <2>1. at' = [at EXCEPT !.access = @ + 1, !.store = 1] BY <1>2, <1>6, <1>8 DEF Onward
  <2>2. at' = [call |-> at.call, access |-> at.access + 1, store |-> 1] BY <1>3, <2>1
  <2>3. NextAccess BY <2>2, <1>8 DEF NextAccess
  <2>4. ~Leaves /\ ~Returns BY <1>4, <1>5, <1>8 DEF Leaves, Returns
  <2> QED BY <1>1, <1>2, <2>3, <2>4
<1>9. CASE at.store = 6 /\ ~(at.access < Len(Program[at.call]))
  <2>1. at' = [at EXCEPT !.access = 0, !.store = 0] BY <1>2, <1>6, <1>9 DEF Onward
  <2>2. at' = [call |-> at.call, access |-> 0, store |-> 0] BY <1>3, <2>1
  <2>3. at.access = Len(Program[at.call]) BY <1>4, <1>5, <1>9
  <2>4. ~Calling' BY <2>2 DEF Calling
  <2>5. Leaves /\ Returns BY <1>2, <1>9, <2>3, <2>4 DEF Leaves, Returns
  <2> QED BY <1>1, <1>2, <2>5
<1> QED BY <1>1, <1>7, <1>8, <1>9

\* Within an access everything that is said of it stays.
LEMMA SameAccess ==
  ASSUME at'.call = at.call, at'.access = at.access
  PROVE  /\ Calling' = Calling /\ InCall' = InCall /\ Here' = Here /\ Current' = Current
         /\ SetsPointer' = SetsPointer /\ Asking' = Asking
         /\ Index' = Index /\ PortNow' = PortNow /\ WordNow' = WordNow
BY DEF Calling, InCall, Here, Current, SetsPointer, Asking, Index, PortNow, WordNow

-----------------------------------------------------------------------------
\* What an edge registers while KEY0 is up.
LEMMA Registers ==
  ASSUME Edge, ~Reset
  PROVE  /\ data_out_buffer' = pio["data"] /\ data_in' = OTG_DATA /\ readdata' = data_in
         /\ kept' = OTG_DATA
         /\ otg' = [addr |-> pio["address"], rd |-> pio["r"], wr |-> pio["w"],
                    cs |-> pio["cs"], rst |-> pio["reset"]]
  BY Zenon DEF Edge, hpi_io_intf, BusKeeps

LEMMA OtgFields ==
  ASSUME Edge, ~Reset
  PROVE  otg'.addr = pio["address"] /\ otg'.rd = pio["r"] /\ otg'.wr = pio["w"] /\ otg'.cs = pio["cs"]
<1>1. otg' = [addr |-> pio["address"], rd |-> pio["r"], wr |-> pio["w"],
              cs |-> pio["cs"], rst |-> pio["reset"]]
  BY Registers
<1> QED BY <1>1

\* With KEY0 down or up, a strobe is registered only when its port is low.
LEMMA WriteStrobe == ASSUME Edge PROVE otg'.wr = 0 => pio["w"] = 0
  BY DEF Edge, hpi_io_intf

\* In a write only its own strobe is open, in a read only the other.
LEMMA OwnStrobe ==
  ASSUME Disciplined, Inv, LateStrobes, InCall
  PROVE  /\ ~Starting
         /\ at.store \in 1 .. 6
         /\ ~Asking => otg.rd # 0 /\ pio["r"] # 0 /\ (pio["w"] = 0 => at.store = 5)
         /\ Asking => otg.wr # 0 /\ pio["w"] # 0 /\ (pio["r"] = 0 => at.store = 4)
<1>1. ~Starting /\ at.store \in 1 .. 6 BY LaterAccess DEF InCall
<1>2. ~Asking => otg.rd # 0 BY <1>1 DEF LateStrobes
<1>3. Asking => otg.wr # 0 BY <1>1 DEF LateStrobes
<1>4. /\ pio["w"] = 0 => at.store = 5 /\ Here[5] = Store("w", 1)
      /\ pio["r"] = 0 => at.store = 4 /\ Here[4] = Store("r", 1)
  BY <1>1 DEF Inv, Strobes
<1>5. ASSUME ~Asking PROVE pio["r"] # 0
  <2>1. Here = IO_write(PortNow, WordNow) BY <1>5, AccessIs
  <2>2. Here[4] = Store("w", 0) BY <2>1 DEF IO_write
  <2>3. Store("w", 0).pin = "w" /\ Store("r", 1).pin = "r" BY DEF Store
  <2> QED BY <1>4, <2>2, <2>3
<1>6. ASSUME Asking PROVE pio["w"] # 0
  <2>1. Here = IO_read(PortNow) BY <1>6, AccessIs
  <2>2. Here[5] = Store("temp", 0) BY <2>1 DEF IO_read
  <2>3. Store("temp", 0).pin = "temp" /\ Store("w", 1).pin = "w" BY DEF Store
  <2> QED BY <1>4, <2>2, <2>3
<1> QED BY <1>1, <1>2, <1>3, <1>4, <1>5, <1>6

\* The word on the bus in a call: the one that is written, until the chip has
\* taken it, or the one that is read, until nobody keeps it any more.
LEMMA BusInWrite ==
  ASSUME Disciplined, Inv, WInv, InCall, ~Asking,
         at.store = 5 \/ (at.store = 6 /\ since = 1)
  PROVE  OTG_DATA = WordNow /\ (at.store = 5 /\ BusKeeps => age' = 0)
<1>1. otg.rd # 0 /\ (pio["w"] = 0 => at.store = 5) BY OwnStrobe DEF WInv
<1>2. ~ChipDrives BY <1>1 DEF ChipDrives
<1>3. WordNow \in Nat BY AccessIs
<1>4. WordNow # HiZ BY <1>3 DEF HiZ
<1>5. CASE at.store = 5
  <2>1. pio["w"] = 0 /\ data_out_buffer = WordNow BY <1>5 DEF WInv, WriteWires
  <2>2. FpgaDrives BY <1>4, <2>1 DEF FpgaDrives
  <2>3. OTG_DATA = WordNow BY <1>2, <2>1, <2>2, Zenon DEF OTG_DATA
  <2>4. BusKeeps => age' = 0 BY <2>2, Zenon DEF BusKeeps
  <2> QED BY <2>3, <2>4
<1>6. CASE at.store = 6 /\ since = 1
  <2>1. kept = WordNow /\ age = 0 BY <1>6 DEF WInv, WriteWires
  <2>2. ~FpgaDrives BY <1>1, <1>6 DEF FpgaDrives
  <2>3. age < Hold BY <2>1, HpiAssumption
  <2>4. OTG_DATA = WordNow BY <1>2, <2>1, <2>2, <2>3, Zenon DEF OTG_DATA
  <2> QED BY <1>6, <2>4
<1> QED BY <1>5, <1>6

LEMMA BusInRead ==
  ASSUME Disciplined, Inv, WInv, InCall, Asking
  PROVE  /\ (at.store = 4 /\ since >= 2) \/ (at.store = 5 /\ since = 1) =>
              OTG_DATA = out /\ (BusKeeps => age' = 0)
         /\ at.store = 5 /\ since >= 2 /\ since <= Hold + 1 =>
              OTG_DATA = out /\ (BusKeeps => age' \in Int /\ age' <= since - 1)
<1>1. pio["w"] # 0 BY OwnStrobe DEF WInv
<1>2. ~FpgaDrives BY <1>1 DEF FpgaDrives
<1>3. ASSUME (at.store = 4 /\ since >= 2) \/ (at.store = 5 /\ since = 1)
      PROVE  OTG_DATA = out /\ (BusKeeps => age' = 0)
  <2>1. otg.cs = 0 /\ otg.rd = 0 BY <1>3 DEF WInv, ReadWires
  <2>2. awake BY DEF WInv, Undisturbed
  <2>3. ChipDrives BY <2>1, <2>2 DEF ChipDrives
  <2> QED BY <1>2, <2>3, Zenon DEF OTG_DATA, BusKeeps
<1>4. ASSUME at.store = 5, since >= 2, since <= Hold + 1
      PROVE  OTG_DATA = out /\ (BusKeeps => age' \in Int /\ age' <= since - 1)
  <2>1. since \in Nat /\ Hold \in Nat BY HpiAssumption DEF WInv, Undisturbed
  <2>2. since <= Hold + 2 BY <1>4, <2>1
  <2>3. kept = out /\ age \in Int /\ age <= since - 2
    BY <1>4, <2>2 DEF WInv, ReadWires
  <2>4. age < Hold BY <1>4, <2>1, <2>3
  <2>5. ~Starting BY OwnStrobe DEF WInv
  <2>6. otg.rd # 0 BY <1>4, <2>1, <2>5 DEF WInv, LateStrobes
  <2>7. ~ChipDrives BY <2>6 DEF ChipDrives
  <2>8. OTG_DATA = out BY <1>2, <2>3, <2>4, <2>7, Zenon DEF OTG_DATA
  <2>9. BusKeeps => age' = age + 1 BY <1>2, <2>4, <2>7, Zenon DEF BusKeeps
  <2>10. age + 1 \in Int /\ age + 1 <= since - 1 BY <2>1, <2>3
  <2> QED BY <2>8, <2>9, <2>10
<1> QED BY <1>3, <1>4

-----------------------------------------------------------------------------
\* The edges at which the chip does something in a call.
Takes == ~Asking /\ at.store = 6 /\ since = 1
Gives == Asking /\ at.store = 4 /\ since = 1
Ends  == Asking /\ at.store = 5 /\ since = 1

LEMMA ChipInWrite ==
  ASSUME Disciplined, Inv, WInv, Edge, InCall, ~Asking
  PROVE  /\ Takes => TakesWord /\ OTG_DATA = WordNow /\ otg.addr = PortNow
         /\ ~Takes => UNCHANGED chip
<1>1. /\ otg.rd # 0 /\ pio["r"] # 0 /\ (pio["w"] = 0 => at.store = 5) /\ ~Starting
      /\ at.store \in 1 .. 6
  BY OwnStrobe DEF WInv
<1>2. awake /\ ~Reset BY DEF WInv, Undisturbed, InCall
<1>3. otg'.rd = pio["r"] /\ otg'.wr = pio["w"] /\ otg'.cs = pio["cs"] BY <1>2, OtgFields
<1>4. ~Reading(otg) /\ ~Reading(otg') BY <1>1, <1>3 DEF Reading
<1>5. ChipPort BY DEF Edge
<1>6. CASE Takes
  <2>1. otg.cs = 0 /\ otg.wr = 0 /\ otg.addr = PortNow
    BY <1>6 DEF Takes, WInv, WriteWires
  <2>2. Writing(otg) BY <2>1 DEF Writing
  <2>3. ~Writing(otg') BY <1>1, <1>3, <1>6 DEF Writing, Takes
  <2>4. TakesWord BY <1>2, <1>5, <2>2, <2>3, Zenon DEF ChipPort
  <2>5. OTG_DATA = WordNow BY <1>6, BusInWrite DEF Takes
  <2> QED BY <1>6, <2>1, <2>4, <2>5
<1>7. CASE ~Takes
  <2>1. Writing(otg) => Writing(otg')
    <3>1. SUFFICES ASSUME otg.wr = 0 PROVE Writing(otg') BY DEF Writing
    <3>2. at.store = 5 BY <1>1, <1>7, <3>1 DEF WInv, LateStrobes, Takes
    <3>3. pio["w"] = 0 /\ pio["cs"] = 0 BY <3>2 DEF WInv, WriteWires
    <3> QED BY <1>3, <3>3 DEF Writing
  <2>2. UNCHANGED chip BY <1>4, <1>5, <2>1, Zenon DEF ChipPort
  <2> QED BY <1>7, <2>2
<1> QED BY <1>6, <1>7

LEMMA ChipInRead ==
  ASSUME Disciplined, Inv, WInv, Edge, InCall, Asking
  PROVE  /\ Gives => GivesWord(otg') /\ otg'.addr = PortNow
         /\ Ends => GoesOn(otg) /\ UNCHANGED <<mem, out, taken>>
         /\ ~Gives /\ ~Ends => UNCHANGED chip
<1>1. /\ otg.wr # 0 /\ pio["w"] # 0 /\ (pio["r"] = 0 => at.store = 4) /\ ~Starting
      /\ at.store \in 1 .. 6
  BY OwnStrobe DEF WInv
<1>2. awake /\ ~Reset BY DEF WInv, Undisturbed, InCall
<1>3. otg'.rd = pio["r"] /\ otg'.wr = pio["w"] /\ otg'.cs = pio["cs"] /\ otg'.addr = pio["address"]
  BY <1>2, OtgFields
<1>4. ~Writing(otg) BY <1>1 DEF Writing
<1>5. ChipPort BY DEF Edge
<1>6. since \in Nat \ {0} BY HpiAssumption DEF WInv, Undisturbed
<1>7. Reading(otg') <=> at.store = 4
  <2>1. at.store = 4 => pio["r"] = 0 /\ pio["cs"] = 0 BY DEF WInv, ReadWires
  <2> QED BY <1>1, <1>3, <2>1 DEF Reading
<1>8. Reading(otg) <=> (at.store = 4 /\ since >= 2) \/ (at.store = 5 /\ since = 1)
  <2>1. (at.store = 4 /\ since >= 2) \/ (at.store = 5 /\ since = 1) => otg.cs = 0 /\ otg.rd = 0
    BY DEF WInv, ReadWires
  <2>2. otg.rd = 0 => (at.store = 4 /\ since >= 2) \/ (at.store = 5 /\ since = 1)
    BY <1>1 DEF WInv, LateStrobes
  <2> QED BY <2>1, <2>2 DEF Reading
<1>9. CASE Gives
  <2>1. ~Reading(otg) /\ Reading(otg') BY <1>6, <1>7, <1>8, <1>9 DEF Gives
  <2>2. GivesWord(otg') BY <1>2, <1>4, <1>5, <2>1, Zenon DEF ChipPort
  <2>3. otg'.addr = PortNow BY <1>3, <1>9 DEF Gives, WInv, ReadWires
  <2>4. ~Ends BY <1>9 DEF Gives, Ends
  <2> QED BY <1>9, <2>2, <2>3, <2>4
<1>10. CASE Ends
  <2>1. Reading(otg) /\ ~Reading(otg') BY <1>6, <1>7, <1>8, <1>10 DEF Ends
  <2>2. GoesOn(otg) /\ UNCHANGED <<mem, out, taken>>
    BY <1>2, <1>4, <1>5, <2>1, Zenon DEF ChipPort
  <2>4. ~Gives BY <1>10 DEF Gives, Ends
  <2> QED BY <1>10, <2>2, <2>4
<1>11. CASE ~Gives /\ ~Ends
  <2>1. Reading(otg) <=> Reading(otg') BY <1>6, <1>7, <1>8, <1>11 DEF Gives, Ends
  <2>2. UNCHANGED chip BY <1>4, <1>5, <2>1, Zenon DEF ChipPort
  <2> QED BY <1>11, <2>2
<1> QED BY <1>9, <1>10, <1>11

\* Between the calls the chip is left alone, and until it has booted.
LEMMA ChipRests ==
  ASSUME Inv, LateStrobes, Edge, ~InCall PROVE UNCHANGED chip
<1>1. ChipPort BY DEF Edge
<1>2. CASE Starting
  <2>1. ~awake BY <1>2 DEF Inv
  <2> QED BY <1>1, <2>1, Zenon DEF ChipPort
<1>3. CASE ~Starting
  <2>1. otg.wr # 0 /\ otg.rd # 0 BY <1>3 DEF LateStrobes
  <2>2. ~Calling BY <1>3 DEF Starting, InCall
  <2>3. pio["r"] # 0 BY <1>3, <2>2 DEF Inv, Strobes
  <2>4. otg'.rd # 0 BY <2>3, ReadStrobe
  <2>5. ~Writing(otg) /\ ~Reading(otg) /\ ~Reading(otg') BY <2>1, <2>4 DEF Writing, Reading
  <2> QED BY <1>1, <2>5, Zenon DEF ChipPort
<1> QED BY <1>2, <1>3

-----------------------------------------------------------------------------
\* What an edge keeps of all this.
LEMMA EdgeStays ==
  ASSUME Inv, Edge
  PROVE  /\ Reset' = Reset /\ awake' = awake
         /\ at'.call = at.call
         /\ Calling' => Calling
         /\ InCall' => InCall
<1>1. Reset' = Reset /\ awake' = awake BY DEF Edge
<1>2. CASE Stores
  <2>1. Calling /\ at'.call = at.call BY <1>2, PositionStep DEF Inv
  <2> QED BY <1>1, <2>1 DEF InCall
<1>3. CASE Computes
  <2>1. at' = at BY <1>3 DEF Computes, program
  <2> QED BY <1>1, <2>1 DEF InCall, Calling
<1> QED BY <1>2, <1>3 DEF Edge

\* An edge without a store, and one with.
LEMMA Waits ==
  ASSUME Undisturbed, InCall, Computes
  PROVE  /\ at' = at /\ pio' = pio /\ temp' = temp /\ answer' = answer
         /\ since' = since + 1 /\ since' \in 2 .. MaxStep
<1>1. /\ at' = at /\ pio' = pio /\ temp' = temp /\ answer' = answer /\ since < MaxStep
  BY DEF Computes, program, InCall
<1>2. since' = since + 1 BY <1>1 DEF Computes
<1> QED BY <1>1, <1>2, HpiAssumption DEF Undisturbed

LEMMA StoresLate == ASSUME Undisturbed, Stores PROVE since >= 2 /\ since' = 1 /\ ~(since = 1)
<1>1. since \in Nat /\ since >= MinStep /\ since' = 1 BY HpiAssumption DEF Stores, Undisturbed
<1> QED BY <1>1, HpiAssumption

\* A read of the message takes the flag down.
FlagFalls == mem' = mem \/ mem' = [mem EXCEPT ![HPI_STATUS] = 0]

LEMMA UndisturbedEdge ==
  ASSUME Disciplined, Inv, WInv, Edge PROVE Undisturbed'
<1>1. since' \in 1 .. MaxStep
  <2>1. since \in 1 .. MaxStep /\ MaxStep \in Nat /\ MaxStep >= 1
    BY HpiAssumption DEF WInv, Undisturbed
  <2>2. CASE Stores BY <2>1, <2>2 DEF Stores
  <2>3. CASE Computes BY <2>1, <2>3 DEF Computes
  <2> QED BY <2>2, <2>3 DEF Edge
<1>2. Reset' \in BOOLEAN /\ awake' \in BOOLEAN BY EdgeStays DEF WInv, Undisturbed
<1>3. Calling' => ~Reset' BY EdgeStays DEF WInv, Undisturbed
<1>4. InCall' => awake' BY EdgeStays DEF WInv, Undisturbed
<1>5. mem' = [x \in Cells |-> mem'[x]]
  <2>1. mem = [x \in Cells |-> mem[x]] BY DEF WInv, Undisturbed
  <2>2. CASE FlagFalls BY <2>1, <2>2 DEF FlagFalls
  <2>3. CASE TakesWord BY <2>1, <2>3 DEF TakesWord
  <2>4. FlagFalls \/ TakesWord
    <3>1. CASE ~InCall BY <3>1, ChipRests DEF WInv, chip, FlagFalls
    <3>2. CASE InCall /\ ~Asking BY <3>2, ChipInWrite DEF chip, FlagFalls
    <3>3. CASE InCall /\ Asking
      <4>1. GivesWord(otg') => FlagFalls BY Zenon DEF GivesWord, FlagFalls
      <4> QED BY <3>3, <4>1, ChipInRead DEF chip, FlagFalls
    <3> QED BY <3>1, <3>2, <3>3
  <2> QED BY <2>2, <2>3, <2>4
<1> QED BY <1>1, <1>2, <1>3, <1>4, <1>5 DEF Undisturbed

LEMMA LateEdge ==
  ASSUME Disciplined, Inv, WInv, Edge PROVE LateStrobes'
<1>1. SUFFICES ASSUME ~Starting'
      PROVE /\ otg'.wr = 0 => /\ InCall' /\ ~Asking'
                              /\ (at'.store = 5 /\ since' >= 2) \/ (at'.store = 6 /\ since' = 1)
            /\ otg'.rd = 0 => /\ InCall' /\ Asking'
                              /\ (at'.store = 4 /\ since' >= 2) \/ (at'.store = 5 /\ since' = 1)
  BY DEF LateStrobes
<1>2. CASE Starting
  <2>1. ~Calling' /\ at.call = 0 /\ Calling BY <1>1, <1>2, EdgeStays DEF Starting
  <2>2. otg'.rd # 0
    <3>1. Inv' BY EdgeStep
    <3> QED BY <1>1, <2>1, <3>1 DEF Inv, Strobes
  <2>3. Stores BY <2>1 DEF Edge, Computes, program, Calling
  <2>4. Here = IO_init
    <3>1. at.access \in 1 .. Len(Program[0]) BY <2>1 DEF Inv, Position
    <3> QED BY <2>1, <3>1, FirstCall DEF Here
  <2>5. at.store \in 1 .. 10 BY <2>1, <2>4, FirstCall DEF Inv, Position
  <2>6. at.store = 10 BY <2>1, <2>3, <2>4, <2>5, FirstCall, PositionStep DEF Inv
  <2>7. pio["w"] # 0 BY <1>2, <2>6 DEF Inv, Started
  <2>8. otg'.wr # 0 BY <2>7, WriteStrobe
  <2> QED BY <2>2, <2>8
<1>3. CASE ~Starting
  <2>1. ASSUME otg'.wr = 0 \/ otg'.rd = 0 PROVE InCall
    <3>1. pio["w"] = 0 \/ pio["r"] = 0 BY <2>1, WriteStrobe, ReadStrobe
    <3> QED BY <1>3, <3>1 DEF Inv, Strobes, InCall, Starting
  <2>2. CASE ~InCall BY <2>1, <2>2
  <2>3. CASE InCall
    <3>1. /\ otg'.wr = 0 => ~Asking /\ at.store = 5
          /\ otg'.rd = 0 => Asking /\ at.store = 4
      BY <2>3, OwnStrobe, WriteStrobe, ReadStrobe DEF WInv
    <3>2. CASE Computes
      <4>1. at' = at /\ since' >= 2 BY <2>3, <3>2, Waits DEF WInv
      <4>2. InCall' = InCall /\ Asking' = Asking BY <4>1, SameAccess
      <4> QED BY <2>3, <3>1, <4>1, <4>2
    <3>3. CASE Stores /\ at.store < 6
      <4>1. Within BY <2>3, <3>3, StoreMoves DEF NextAccess, Leaves
      <4>2. InCall' = InCall /\ Asking' = Asking BY <4>1, SameAccess DEF Within
      <4>3. since' = 1 BY <3>3, StoresLate DEF WInv
      <4> QED BY <2>3, <3>1, <4>1, <4>2, <4>3 DEF Within
    <3>4. CASE Stores /\ ~(at.store < 6)
      <4>1. at.store \in 1 .. 6 BY <2>3, <3>4, StoreMoves
      <4> QED BY <3>1, <3>4, <4>1
    <3> QED BY <3>2, <3>3, <3>4 DEF Edge
  <2> QED BY <2>2, <2>3
<1> QED BY <1>2, <1>3

LEMMA WriteEdge ==
  ASSUME Disciplined, Inv, WInv, Edge PROVE WriteWires'
<1>1. SUFFICES ASSUME InCall', ~Asking' PROVE
    /\ at'.store >= 2 => pio'["data"] = WordNow'
    /\ at'.store >= 3 => pio'["address"] = PortNow' /\ data_out_buffer' = WordNow'
    /\ at'.store >= 4 => pio'["cs"] = 0
    /\ at'.store >= 5 => otg'.cs = 0 /\ otg'.addr = PortNow'
    /\ at'.store = 5 => pio'["w"] = 0
    /\ at'.store = 5 /\ since' >= 2 => otg'.wr = 0
    /\ at'.store = 6 /\ since' = 1 => otg'.wr = 0 /\ kept' = WordNow' /\ age' = 0
  BY DEF WriteWires
<1>2. InCall /\ ~Reset BY <1>1, EdgeStays DEF WInv, Undisturbed, InCall
<1>3. /\ data_out_buffer' = pio["data"] /\ kept' = OTG_DATA /\ BusKeeps
      /\ otg'.addr = pio["address"] /\ otg'.wr = pio["w"] /\ otg'.cs = pio["cs"]
  BY <1>2, Registers, OtgFields DEF Edge
<1>4. at.store \in 1 .. 6 BY <1>2, OwnStrobe DEF WInv
<1>5. ASSUME at'.call = at.call, at'.access = at.access
      PROVE  /\ ~Asking /\ WordNow' = WordNow /\ PortNow' = PortNow
             /\ at.store >= 2 => pio["data"] = WordNow
             /\ at.store >= 3 => pio["address"] = PortNow
             /\ at.store >= 4 => pio["cs"] = 0
             /\ at.store = 5 => pio["w"] = 0 /\ OTG_DATA = WordNow /\ age' = 0
  <2>1. ~Asking /\ WordNow' = WordNow /\ PortNow' = PortNow BY <1>1, <1>5, SameAccess
  <2>2. /\ at.store >= 2 => pio["data"] = WordNow
        /\ at.store >= 3 => pio["address"] = PortNow
        /\ at.store >= 4 => pio["cs"] = 0
        /\ at.store = 5 => pio["w"] = 0
    BY <1>2, <2>1 DEF WInv, WriteWires
  <2>3. at.store = 5 => OTG_DATA = WordNow /\ age' = 0 BY <1>2, <1>3, <2>1, BusInWrite
  <2> QED BY <2>1, <2>2, <2>3
<1>6. CASE Computes
  <2>1. at' = at /\ pio' = pio /\ since' \in 2 .. MaxStep BY <1>2, <1>6, Waits DEF WInv
  <2>2. MaxStep \in Nat /\ since' # 1 BY <2>1, HpiAssumption
  <2> QED BY <1>3, <1>4, <1>5, <2>1, <2>2
<1>7. CASE Stores /\ Within
  <2>1. since' = 1 BY <1>7, StoresLate DEF WInv
  <2>2. at'.store = at.store + 1 /\ at.store < 6 BY <1>7 DEF Within
  <2>3. ~Asking /\ Here = IO_write(PortNow, WordNow) /\ PortNow \in Int /\ WordNow \in Int
    <3>1. ~Asking BY <1>5, <1>7 DEF Within
    <3>2. Here = IO_write(PortNow, WordNow) /\ WordNow \in Nat BY <1>2, <3>1, AccessIs
    <3>3. PortNow \in Int
      BY <1>2, AccessIs DEF PortNow, Port, Ported, HPI_ADDR, HPI_DATA, HPI_MAILBOX, HPI_STATUS
    <3> QED BY <3>1, <3>2, <3>3
  <2>4. /\ pio'["data"] = IF at.store = 1 THEN WordNow ELSE pio["data"]
        /\ pio'["address"] = IF at.store = 2 THEN PortNow ELSE pio["address"]
        /\ pio'["cs"] = IF at.store = 3 THEN 0 ELSE IF at.store = 6 THEN 1 ELSE pio["cs"]
        /\ pio'["w"] = IF at.store = 4 THEN 0 ELSE IF at.store = 5 THEN 1 ELSE pio["w"]
    BY <1>4, <1>7, <2>3, WritePins
  <2>5. /\ WordNow' = WordNow /\ PortNow' = PortNow
        /\ at.store >= 2 => pio["data"] = WordNow
        /\ at.store >= 3 => pio["address"] = PortNow
        /\ at.store >= 4 => pio["cs"] = 0
        /\ at.store = 5 => pio["w"] = 0 /\ OTG_DATA = WordNow /\ age' = 0
    BY <1>5, <1>7 DEF Within
  <2> QED BY <1>3, <1>4, <2>1, <2>2, <2>4, <2>5
<1>8. CASE Stores /\ ~Within
  <2>1. at'.store = 1 BY <1>1, <1>2, <1>8, StoreMoves DEF NextAccess, Leaves, InCall
  <2> QED BY <2>1
<1> QED BY <1>6, <1>7, <1>8 DEF Edge

LEMMA ReadEdge ==
  ASSUME Disciplined, Inv, WInv, Edge PROVE ReadWires'
<1>1. SUFFICES ASSUME InCall', Asking' PROVE
    /\ at'.store >= 2 => pio'["address"] = PortNow'
    /\ at'.store >= 3 => pio'["cs"] = 0
    /\ at'.store >= 4 => otg'.cs = 0 /\ otg'.addr = PortNow'
    /\ at'.store = 4 => pio'["r"] = 0
    /\ at'.store = 4 /\ since' >= 2 => otg'.rd = 0
    /\ at'.store = 5 /\ since' = 1 => otg'.rd = 0
    /\ at'.store = 5 /\ since' <= Hold + 2 => data_in' = out'
    /\ at'.store = 5 /\ since' >= 2 => readdata' = out'
    /\ at'.store = 5 /\ since' >= 2 /\ since' <= Hold + 2 =>
         kept' = out' /\ age' \in Int /\ age' <= since' - 2
    /\ at'.store = 6 => temp' = out'
  BY DEF ReadWires
<1>2. InCall /\ ~Reset BY <1>1, EdgeStays DEF WInv, Undisturbed, InCall
<1>3. /\ data_in' = OTG_DATA /\ readdata' = data_in /\ kept' = OTG_DATA /\ BusKeeps
      /\ otg'.addr = pio["address"] /\ otg'.rd = pio["r"] /\ otg'.cs = pio["cs"]
  BY <1>2, Registers, OtgFields DEF Edge
<1>4. at.store \in 1 .. 6 BY <1>2, OwnStrobe DEF WInv
<1>n. /\ MaxStep \in Nat /\ Hold \in Nat /\ Hold >= 1 /\ MaxStep <= Hold + 3
      /\ since \in 1 .. MaxStep
  BY HpiAssumption DEF WInv, Undisturbed
<1>5. ASSUME at'.call = at.call, at'.access = at.access
      PROVE  /\ Asking /\ PortNow' = PortNow
             /\ at.store >= 2 => pio["address"] = PortNow
             /\ at.store >= 3 => pio["cs"] = 0
             /\ at.store = 4 => pio["r"] = 0
             /\ at.store = 5 /\ since <= Hold + 2 => data_in = out
             /\ at.store = 5 /\ since >= 2 => readdata = out
             /\ at.store = 6 => temp = out
  <2>1. Asking /\ PortNow' = PortNow BY <1>1, <1>5, SameAccess
  <2>2. /\ at.store >= 2 => pio["address"] = PortNow
        /\ at.store >= 3 => pio["cs"] = 0
        /\ at.store = 4 => pio["r"] = 0
        /\ at.store = 5 /\ since <= Hold + 2 => data_in = out
        /\ at.store = 5 /\ since >= 2 => readdata = out
        /\ at.store = 6 => temp = out
    BY <1>2, <2>1 DEF WInv, ReadWires
  <2> QED BY <2>1, <2>2
<1>6. ASSUME at'.call = at.call, at'.access = at.access, ~Gives
      PROVE  out' = out
  <2>1. Asking BY <1>5, <1>6
  <2>2. Ends => out' = out BY <1>2, <2>1, ChipInRead
  <2>3. ~Ends => out' = out BY <1>2, <1>6, <2>1, ChipInRead DEF chip
  <2> QED BY <2>2, <2>3
<1>7. ASSUME Asking
      PROVE  /\ (at.store = 4 /\ since >= 2) \/ (at.store = 5 /\ since = 1) =>
                   OTG_DATA = out /\ age' = 0
             /\ at.store = 5 /\ since >= 2 /\ since <= Hold + 1 =>
                   OTG_DATA = out /\ age' \in Int /\ age' <= since - 1
  BY <1>2, <1>3, <1>7, BusInRead
<1>8. CASE Computes
  <2>1. at' = at /\ pio' = pio /\ temp' = temp /\ since' = since + 1 /\ since' \in 2 .. MaxStep
    BY <1>2, <1>8, Waits DEF WInv
  <2>2. Asking /\ PortNow' = PortNow BY <1>5, <2>1
  <2>3. at.store # 4 => out' = out BY <1>6, <2>1 DEF Gives
  <2>4. /\ at.store >= 2 => pio["address"] = PortNow
        /\ at.store >= 3 => pio["cs"] = 0
        /\ at.store = 4 => pio["r"] = 0
        /\ at.store = 5 /\ since <= Hold + 2 => data_in = out
        /\ at.store = 6 => temp = out
    BY <1>5, <2>1
  <2>5. /\ at'.store >= 2 => pio'["address"] = PortNow'
        /\ at'.store >= 3 => pio'["cs"] = 0
        /\ at'.store >= 4 => otg'.cs = 0 /\ otg'.addr = PortNow'
        /\ at'.store = 4 => pio'["r"] = 0 /\ otg'.rd = 0
        /\ at'.store = 6 => temp' = out'
    BY <1>3, <1>4, <2>1, <2>2, <2>3, <2>4
  <2>6. since' # 1 /\ since' >= 2 BY <1>n, <2>1
  <2>7. ASSUME at'.store = 5, since' <= Hold + 2
        PROVE  data_in' = out' /\ kept' = out' /\ age' \in Int /\ age' <= since' - 2
    <3>1. at.store = 5 /\ since <= Hold + 1 BY <1>n, <2>1, <2>7
    <3>2. CASE since = 1 BY <1>3, <1>7, <2>1, <2>2, <2>3, <3>1, <3>2
    <3>3. CASE since >= 2
      <4>1. OTG_DATA = out /\ age' \in Int /\ age' <= since - 1 BY <1>7, <2>2, <3>1, <3>3
      <4> QED BY <1>3, <1>n, <2>1, <2>3, <3>1, <4>1
    <3> QED BY <1>n, <3>2, <3>3
  <2>8. at'.store = 5 => readdata' = out'
    <3>1. at'.store = 5 => since <= Hold + 2 BY <1>n, <2>1
    <3> QED BY <1>3, <2>1, <2>3, <2>4, <3>1
  <2> QED BY <2>5, <2>6, <2>7, <2>8
<1>9. CASE Stores /\ Within
  <2>1. since' = 1 /\ since >= 2 BY <1>9, StoresLate DEF WInv
  <2>2. at'.store = at.store + 1 /\ at.store < 6 BY <1>9 DEF Within
  <2>3. Asking /\ PortNow' = PortNow /\ out' = out
    <3>1. since # 1 BY <1>9, StoresLate DEF WInv
    <3> QED BY <1>5, <1>6, <1>9, <3>1 DEF Within, Gives
  <2>4. Here = IO_read(PortNow) /\ PortNow \in Int
    BY <1>2, <2>3, AccessIs DEF Port, Ported, HPI_DATA, HPI_MAILBOX, HPI_STATUS
  <2>5. /\ pio'["address"] = IF at.store = 1 THEN PortNow ELSE pio["address"]
        /\ pio'["cs"] = IF at.store = 2 THEN 0 ELSE IF at.store = 6 THEN 1 ELSE pio["cs"]
        /\ pio'["r"] = IF at.store = 3 THEN 0 ELSE IF at.store = 4 THEN 1 ELSE pio["r"]
        /\ temp' = IF at.store = 5 THEN readdata ELSE temp
    BY <1>4, <1>9, <2>4, ReadPins
  <2>6. /\ at.store >= 2 => pio["address"] = PortNow
        /\ at.store >= 3 => pio["cs"] = 0
        /\ at.store = 4 => pio["r"] = 0
        /\ at.store = 5 /\ since >= 2 => readdata = out
    BY <1>5, <1>9 DEF Within
  <2>7. at.store = 4 => OTG_DATA = out BY <1>7, <2>1, <2>3
  <2> QED BY <1>3, <1>4, <2>1, <2>2, <2>3, <2>5, <2>6, <2>7
<1>10. CASE Stores /\ ~Within
  <2>1. at'.store = 1 BY <1>1, <1>2, <1>10, StoreMoves DEF NextAccess, Leaves, InCall
  <2> QED BY <2>1
<1> QED BY <1>8, <1>9, <1>10 DEF Edge

-----------------------------------------------------------------------------
\* What these edges do to the memory: nothing, for the address; the next word
\* in its place; the word asked for.
LEMMA Ports ==
  ASSUME Disciplined, Inv, InCall
  PROVE  /\ SetsPointer => PortNow = HPI_ADDR
         /\ ~SetsPointer => PortNow # HPI_ADDR
         /\ ~SetsPointer /\ Ported(Current) => PortNow = Current.at /\ PortNow # HPI_DATA
         /\ ~SetsPointer /\ ~Ported(Current) => PortNow = HPI_DATA
BY DEF PortNow, Port, Ported, HPI_ADDR, HPI_DATA, HPI_MAILBOX, HPI_STATUS

LEMMA SetsIt ==
  ASSUME Disciplined, Inv, WInv, Edge, InCall, Takes, SetsPointer
  PROVE  pointer' = Current.at /\ UNCHANGED <<mem, out, taken>>
<1>1. TakesWord /\ OTG_DATA = WordNow /\ otg.addr = PortNow BY ChipInWrite DEF Takes
<1>2. otg.addr = HPI_ADDR BY <1>1, Ports
<1>3. WordNow = Current.at BY DEF WordNow
<1> QED BY <1>1, <1>2, <1>3 DEF TakesWord

LEMMA PutsWord ==
  ASSUME Disciplined, Inv, WInv, Edge, InCall, Takes, ~SetsPointer
  PROVE  /\ taken \in Nat /\ taken + 1 = Index /\ Index <= Len(Current.words)
         /\ Current.words # <<>>
         /\ taken' = taken + 1 /\ out' = out
         /\ mem' = [mem EXCEPT ![Current.at + 2 * taken] = Current.words[taken + 1]]
         /\ ~Ported(Current) => pointer' = Current.at + 2 * (taken + 1)
<1>1. TakesWord /\ OTG_DATA = WordNow /\ otg.addr = PortNow BY ChipInWrite DEF Takes
<1>2. /\ Index \in 1 .. Len(Current.words) /\ WordNow = Current.words[Index] /\ Current.at \in Nat
      /\ Current.words # <<>> /\ (Ported(Current) => Index = 1) /\ Current.words \in Seq(Nat)
  BY AccessIs DEF Takes
<1>3. Len(Current.words) \in Nat BY <1>2, LenProperties
<1>4. taken = Index - 1 /\ (~Ported(Current) => pointer = Current.at + 2 * taken)
  <2>1. ~(at.store = 6 /\ since >= 2) BY DEF Takes
  <2> QED BY <2>1 DEF WInv, Progress, Takes
<1>5. taken \in Nat /\ taken + 1 = Index /\ Index <= Len(Current.words) BY <1>2, <1>3, <1>4
<1>6. otg.addr # HPI_ADDR BY <1>1, Ports
<1>7. taken' = taken + 1 /\ out' = out /\ GoesOn(otg) BY <1>1, <1>6, Zenon DEF TakesWord
<1>8. Cell(otg.addr) = Current.at + 2 * taken
  <2>1. CASE Ported(Current)
    <3>1. taken = 0 BY <1>2, <1>4, <2>1
    <3>2. Cell(otg.addr) = Current.at BY <1>1, <2>1, Ports DEF Cell
    <3> QED BY <1>2, <3>1, <3>2
  <2>2. CASE ~Ported(Current)
    <3>1. Cell(otg.addr) = pointer BY <1>1, <2>2, Ports DEF Cell
    <3> QED BY <1>4, <2>2, <3>1
  <2> QED BY <2>1, <2>2
<1>9. mem' = [mem EXCEPT ![Current.at + 2 * taken] = Current.words[taken + 1]]
  <2> DEFINE cell == Current.at + 2 * taken
             word == Current.words[taken + 1]
  <2>1. mem' = IF cell \in Cells THEN [mem EXCEPT ![cell] = OTG_DATA] ELSE mem
    BY <1>1, <1>6, <1>8, Zenon DEF TakesWord
  <2>2. OTG_DATA = word BY <1>1, <1>2, <1>5
  <2>3. mem = [x \in Cells |-> mem[x]] BY DEF WInv, Undisturbed
  <2> HIDE DEF cell, word
  <2>4. cell \notin Cells => [mem EXCEPT ![cell] = word] = mem BY <2>3
  <2>5. mem' = [mem EXCEPT ![cell] = word] BY <2>1, <2>2, <2>4
  <2> QED BY <2>5 DEF cell, word
<1>10. ~Ported(Current) => pointer' = Current.at + 2 * (taken + 1)
  <2>1. ASSUME ~Ported(Current) PROVE pointer' = pointer + 2
    BY <1>1, <1>7, <2>1, Ports DEF GoesOn
  <2> QED BY <1>2, <1>4, <1>5, <2>1
<1> QED BY <1>2, <1>5, <1>7, <1>9, <1>10

LEMMA GivesTheWord ==
  ASSUME Disciplined, Inv, WInv, Edge, InCall, Gives
  PROVE  taken = 0 /\ taken' = 1 /\ out' = mem[Current.at] /\ FlagFalls
<1>1. GivesWord(otg') /\ otg'.addr = PortNow BY ChipInRead DEF Gives
<1>2. Current.at \in Cells /\ PortNow = Port(Current) /\ ~SetsPointer
  BY AccessIs DEF Gives, Asking
<1>3. taken = 0 /\ (~Ported(Current) => pointer = Current.at)
  <2>1. ~(at.store >= 5 \/ (at.store = 4 /\ since >= 2)) BY DEF Gives
  <2> QED BY <2>1 DEF WInv, Progress, Gives
<1>4. Cell(otg'.addr) = Current.at
  <2>1. CASE Ported(Current) BY <1>1, <1>2, <2>1, Ports DEF Cell
  <2>2. CASE ~Ported(Current)
    <3>1. otg'.addr = HPI_DATA BY <1>1, <1>2, <2>2, Ports
    <3>2. Cell(otg'.addr) = pointer BY <3>1 DEF Cell
    <3> QED BY <1>3, <2>2, <3>2
  <2> QED BY <2>1, <2>2
<1>5. out' = mem[Current.at] /\ taken' = taken + 1 /\ FlagFalls
  BY <1>1, <1>2, <1>4, Zenon DEF GivesWord, FlagFalls
<1> QED BY <1>3, <1>5

\* An edge within an access.
LEMMA ProgressHere ==
  ASSUME Disciplined, Inv, WInv, Edge, InCall,
         at'.call = at.call, at'.access = at.access,
         \/ at'.store = at.store /\ since' >= 2 /\ since' \in Nat
         \/ at.store < 6 /\ at'.store = at.store + 1 /\ since' = 1 /\ ~(since = 1)
  PROVE  Progress'
<1>1. /\ SetsPointer' = SetsPointer /\ Asking' = Asking /\ Current' = Current
      /\ Index' = Index
  BY SameAccess
<1>2. at.store \in 1 .. 6 BY OwnStrobe DEF WInv
<1>3. since \in Nat \ {0} BY HpiAssumption DEF WInv, Undisturbed
<1>4. CASE SetsPointer
  <2>1. ~Asking BY <1>4 DEF Asking
  <2>2. taken = 0 /\ (at.store = 6 /\ since >= 2 => pointer = Current.at)
    BY <1>4 DEF WInv, Progress
  <2>3. CASE Takes
    <3>1. pointer' = Current.at /\ taken' = taken BY <1>4, <2>3, SetsIt
    <3> QED BY <1>1, <1>4, <2>1, <2>2, <3>1 DEF Progress
  <2>4. CASE ~Takes
    <3>1. UNCHANGED chip BY <2>1, <2>4, ChipInWrite
    <3>2. pointer' = pointer /\ taken' = taken BY <3>1 DEF chip
    <3>3. at'.store = 6 /\ since' >= 2 => at.store = 6 /\ since >= 2
      BY <1>2, <1>3, <2>1, <2>4 DEF Takes
    <3> QED BY <1>1, <1>4, <2>1, <2>2, <3>2, <3>3 DEF Progress
  <2> QED BY <2>3, <2>4
<1>5. CASE ~SetsPointer /\ ~Asking
  <2>1. /\ taken = IF at.store = 6 /\ since >= 2 THEN Index ELSE Index - 1
        /\ ~Ported(Current) => pointer = Current.at + 2 * taken
    BY <1>5 DEF WInv, Progress
  <2>2. CASE Takes
    <3>1. /\ taken \in Nat /\ taken + 1 = Index /\ taken' = taken + 1
          /\ ~Ported(Current) => pointer' = Current.at + 2 * (taken + 1)
      BY <1>5, <2>2, PutsWord
    <3>2. at'.store = 6 /\ since' >= 2 BY <1>2, <2>2 DEF Takes
    <3>3. taken' = Index BY <3>1
    <3> QED BY <1>1, <1>5, <3>1, <3>2, <3>3 DEF Progress
  <2>3. CASE ~Takes
    <3>1. UNCHANGED chip BY <1>5, <2>3, ChipInWrite
    <3>2. pointer' = pointer /\ taken' = taken BY <3>1 DEF chip
    <3>3. (at'.store = 6 /\ since' >= 2) <=> (at.store = 6 /\ since >= 2)
      BY <1>2, <1>3, <1>5, <2>3 DEF Takes
    <3> QED BY <1>1, <1>5, <2>1, <3>2, <3>3 DEF Progress
  <2> QED BY <2>2, <2>3
<1>6. CASE Asking
  <2>1. /\ taken = IF at.store >= 5 \/ (at.store = 4 /\ since >= 2) THEN 1 ELSE 0
        /\ taken = 0 /\ ~Ported(Current) => pointer = Current.at
        /\ ~SetsPointer
    BY <1>6 DEF WInv, Progress, Asking
  <2>2. CASE Gives
    <3>1. taken' = 1 BY <2>2, GivesTheWord
    <3>2. at'.store = 4 /\ since' >= 2 BY <1>2, <2>2 DEF Gives
    <3> QED BY <1>1, <1>6, <2>1, <3>1, <3>2 DEF Progress
  <2>3. CASE Ends
    <3>1. taken' = taken BY <1>6, <2>3, ChipInRead
    <3>2. taken = 1 /\ at'.store >= 5 BY <1>2, <2>1, <2>3 DEF Ends
    <3> QED BY <1>1, <1>6, <2>1, <3>1, <3>2 DEF Progress
  <2>4. CASE ~Gives /\ ~Ends
    <3>1. UNCHANGED chip BY <1>6, <2>4, ChipInRead
    <3>2. pointer' = pointer /\ taken' = taken BY <3>1 DEF chip
    <3>3. (at'.store >= 5 \/ (at'.store = 4 /\ since' >= 2))
            <=> (at.store >= 5 \/ (at.store = 4 /\ since >= 2))
      BY <1>2, <1>3, <1>6, <2>4 DEF Gives
    <3> QED BY <1>1, <1>6, <2>1, <3>2, <3>3 DEF Progress
  <2> QED BY <2>2, <2>3, <2>4
<1> QED BY <1>4, <1>5, <1>6

\* The edge from an access to the next: from the address to its words, or from
\* a word to the next.
LEMMA ProgressNext ==
  ASSUME Disciplined, Inv, WInv, Edge, InCall, Stores, NextAccess
  PROVE  Progress'
<1>1. at.store = 6 /\ since >= 2 /\ at'.store = 1 /\ since' = 1 /\ since # 1
  BY StoresLate DEF NextAccess, WInv
<1>2. ~Asking /\ at.access \in Nat \ {0}
  <2>1. at.access # Len(Program[at.call])
    <3>1. at.access \in 1 .. Len(Program[at.call]) /\ at.access < Len(Program[at.call])
      BY DEF NextAccess, Inv, Position, InCall
    <3>2. Len(Program[at.call]) \in Nat
      <4>1. Len(Script) \in Nat BY HpiAssumption, LenProperties
      <4>2. at.call \in 1 .. Len(Script) BY <4>1 DEF Inv, Position, InCall
      <4> QED BY <4>2, CallAccesses
    <3> QED BY <3>1, <3>2
  <2> QED BY <2>1, AccessIs
<1>3. /\ Current' = Current /\ at'.access = at.access + 1 BY DEF Current, NextAccess
<1>4. Ported(Current)' = Ported(Current) BY <1>3
<1>5. UNCHANGED chip
  <2>1. ~Takes BY <1>1 DEF Takes
  <2> QED BY <1>2, <2>1, ChipInWrite
<1>6. pointer' = pointer /\ taken' = taken BY <1>5 DEF chip
<1>7. ~SetsPointer' BY <1>2, <1>3, <1>4 DEF SetsPointer
<1>8. Current.at \in Nat BY AccessIs
<1>9. CASE SetsPointer
  <2>1. taken = 0 /\ pointer = Current.at BY <1>1, <1>9 DEF WInv, Progress
  <2>2. ~Ported(Current) /\ at.access = 1 BY <1>9 DEF SetsPointer
  <2>3. Index' = 1 BY <1>3, <1>4, <2>2 DEF Index
  <2>4. Asking' => taken' = IF at'.store >= 5 \/ (at'.store = 4 /\ since' >= 2) THEN 1 ELSE 0
    BY <1>1, <1>6, <2>1
  <2>5. taken' = IF at'.store = 6 /\ since' >= 2 THEN Index' ELSE Index' - 1
    BY <1>1, <1>6, <2>1, <2>3
  <2>6. pointer' = Current'.at + 2 * taken' /\ pointer' = Current'.at
    BY <1>3, <1>6, <1>8, <2>1
  <2> QED BY <1>7, <2>4, <2>5, <2>6 DEF Progress
<1>10. CASE ~SetsPointer
  <2>1. taken = Index /\ (~Ported(Current) => pointer = Current.at + 2 * taken)
    BY <1>1, <1>2, <1>10 DEF WInv, Progress
  <2>2. ~Asking' BY <1>2, <1>3, <1>10 DEF Asking
  <2>3. Index' = Index + 1 BY <1>2, <1>3, <1>4 DEF Index
  <2>4. Index \in Int BY <1>2 DEF Index
  <2>5. taken' = IF at'.store = 6 /\ since' >= 2 THEN Index' ELSE Index' - 1
    BY <1>1, <1>6, <2>1, <2>3, <2>4
  <2>6. ~Ported(Current)' => pointer' = Current'.at + 2 * taken'
    BY <1>3, <1>4, <1>6, <2>1
  <2> QED BY <1>7, <2>2, <2>5, <2>6 DEF Progress
<1> QED BY <1>9, <1>10

LEMMA ProgressEdge ==
  ASSUME Disciplined, Inv, WInv, Edge PROVE Progress'
<1>1. SUFFICES ASSUME InCall' PROVE Progress' BY DEF Progress
<1>2. InCall BY <1>1, EdgeStays
<1>3. CASE Computes
  <2>1. at' = at /\ since' \in 2 .. MaxStep BY <1>2, <1>3, Waits DEF WInv
  <2>2. since' >= 2 /\ since' \in Nat BY <2>1, HpiAssumption
  <2> QED BY <1>2, <2>1, <2>2, ProgressHere
<1>4. CASE Stores
  <2>1. Within \/ NextAccess BY <1>1, <1>2, <1>4, StoreMoves DEF Leaves, InCall
  <2>2. CASE Within
    <3>1. since' = 1 /\ ~(since = 1) BY <1>4, StoresLate DEF WInv
    <3> QED BY <1>2, <2>2, <3>1, ProgressHere DEF Within
  <2> QED BY <1>2, <1>4, <2>1, <2>2, ProgressNext
<1> QED BY <1>3, <1>4 DEF Edge

LEMMA WiresInit == ASSUME Disciplined, Init PROVE WInv
<1>1. at.call = 0 /\ since = MinStep /\ Reset = FALSE /\ awake = FALSE BY DEF Init
<1>2. since \in 1 .. MaxStep BY <1>1, HpiAssumption
<1>3. mem = [x \in Cells |-> mem[x]]
  <2>1. mem = [a \in Cells |-> 0] BY DEF Init
  <2> QED BY <2>1
<1>4. ~InCall BY <1>1 DEF InCall
<1>5. Starting BY DEF Init, Starting, Calling
<1>6. Undisturbed BY <1>1, <1>2, <1>3, <1>4 DEF Undisturbed
<1> QED BY <1>4, <1>5, <1>6 DEF WInv, LateStrobes, WriteWires, ReadWires, Progress

LEMMA WiresCall == ASSUME Disciplined, Inv, WInv, Call PROVE WInv'
<1>1. Len(Script) \in Nat /\ DOMAIN Script = 1 .. Len(Script)
  BY HpiAssumption, LenProperties
<1>2. PICK k \in 1 .. Len(Script) : at' = [call |-> k, access |-> 1, store |-> 1]
  BY <1>1, Zenon DEF Call
<1>3. at'.call = k /\ at'.access = 1 /\ at'.store = 1 BY <1>2
<1>4. /\ ~Calling /\ awake /\ taken' = 0 /\ otg' = otg
      /\ mem' = mem /\ since' = since /\ Reset' = Reset /\ awake' = awake
  BY DEF Call, intf
<1>5. ~Reset BY DEF Call, Disciplined
<1>6. Undisturbed' BY <1>4, <1>5 DEF WInv, Undisturbed
<1>7. ~Starting /\ ~InCall BY <1>4 DEF Starting, InCall
<1>8. otg.wr # 0 /\ otg.rd # 0 BY <1>7 DEF WInv, LateStrobes
<1>9. LateStrobes' BY <1>4, <1>8 DEF LateStrobes
<1>10. WriteWires' /\ ReadWires' BY <1>3 DEF WriteWires, ReadWires
<1>11. Progress'
  <2>1. Inv' BY CallStep
  <2>2. InCall' BY <1>1, <1>3 DEF InCall, Calling
  <2>3. Current' = Script[k] BY <1>3 DEF Current
  <2>4. SetsPointer' <=> ~Ported(Script[k]) BY <1>3, <2>3 DEF SetsPointer
  <2>5. Ported(Current)' <=> Ported(Script[k]) BY <2>3
  <2>6. Ported(Script[k]) => Index' = 1 BY <1>3, <2>3 DEF Index
  <2>7. CASE SetsPointer'
    <3>1. ~Asking' BY <2>7 DEF Asking
    <3> QED BY <1>3, <1>4, <2>7, <3>1 DEF Progress
  <2>8. CASE ~SetsPointer'
    <3>1. Ported(Current)' /\ Index' = 1 BY <2>4, <2>5, <2>6, <2>8
    <3>2. taken' = IF at'.store = 6 /\ since' >= 2 THEN Index' ELSE Index' - 1
      BY <1>3, <1>4, <3>1
    <3>3. taken' = IF at'.store >= 5 \/ (at'.store = 4 /\ since' >= 2) THEN 1 ELSE 0
      BY <1>3, <1>4
    <3> QED BY <2>8, <3>1, <3>2, <3>3 DEF Progress
  <2> QED BY <2>7, <2>8
<1> QED BY <1>6, <1>9, <1>10, <1>11 DEF WInv

LEMMA WiresRest ==
  ASSUME Disciplined, Inv, WInv, Boot \/ Execute \/ Press \/ UNCHANGED vars PROVE WInv'
<1>1. /\ at' = at /\ pio' = pio /\ otg' = otg /\ since' = since /\ temp' = temp
      /\ data_out_buffer' = data_out_buffer /\ data_in' = data_in /\ readdata' = readdata
      /\ kept' = kept /\ age' = age /\ pointer' = pointer /\ out' = out /\ taken' = taken
  BY DEF Boot, Execute, Press, vars, intf, program, chip
<1>2. /\ Calling' = Calling /\ InCall' = InCall /\ Starting' = Starting /\ Current' = Current
      /\ SetsPointer' = SetsPointer /\ Asking' = Asking
      /\ Index' = Index /\ PortNow' = PortNow /\ WordNow' = WordNow
  BY <1>1, SameAccess DEF Starting
<1>3. LateStrobes' BY <1>1, <1>2 DEF WInv, LateStrobes
<1>4. WriteWires' BY <1>1, <1>2 DEF WInv, WriteWires
<1>5. ReadWires' BY <1>1, <1>2 DEF WInv, ReadWires
<1>6. Progress' BY <1>1, <1>2 DEF WInv, Progress
<1>7. Undisturbed'
  <2>1. mem = [x \in Cells |-> mem[x]] BY DEF WInv, Undisturbed
  <2>2. mem' = [x \in Cells |-> mem'[x]]
    <3>1. CASE Execute BY <2>1, <3>1 DEF Execute
    <3>2. CASE ~Execute
      <4>1. mem' = mem BY <3>2 DEF Boot, Press, vars, chip
      <4> QED BY <2>1, <4>1
    <3> QED BY <3>1, <3>2
  <2>3. Reset' \in BOOLEAN /\ (Calling => ~Reset')
    <3>1. CASE Press
      <4>1. ~Calling BY <3>1 DEF Press, Disciplined
      <4>2. Reset' = ~Reset BY <3>1 DEF Press
      <4> QED BY <4>1, <4>2 DEF WInv, Undisturbed
    <3>2. CASE ~Press
      <4>1. Reset' = Reset BY <3>2 DEF Boot, Execute, vars
      <4> QED BY <4>1 DEF WInv, Undisturbed
    <3> QED BY <3>1, <3>2
  <2>4. awake' \in BOOLEAN /\ (InCall => awake')
    <3>1. CASE Boot BY <3>1 DEF Boot
    <3>2. CASE ~Boot
      <4>1. awake' = awake BY <3>2 DEF Press, Execute, vars
      <4> QED BY <4>1 DEF WInv, Undisturbed
    <3> QED BY <3>1, <3>2
  <2> QED BY <1>1, <1>2, <2>2, <2>3, <2>4 DEF WInv, Undisturbed
<1> QED BY <1>3, <1>4, <1>5, <1>6, <1>7 DEF WInv

LEMMA WiresStep == ASSUME Disciplined, Inv, WInv, [Next]_vars PROVE WInv'
<1>1. CASE Edge
  BY <1>1, UndisturbedEdge, LateEdge, WriteEdge, ReadEdge, ProgressEdge DEF WInv
<1> QED BY <1>1, WiresCall, WiresRest DEF Next

-----------------------------------------------------------------------------
(* Each step is one of the memory, or none.                                *)

OnCall == IF Calling /\ at.call # 0 THEN Script[at.call] ELSE NoCall

LEMMA OnCallIs ==
  /\ InCall => OnCall = Current
  /\ ~InCall => OnCall = NoCall
  /\ InCall' => OnCall' = Current'
  /\ ~InCall' => OnCall' = NoCall
BY DEF OnCall, InCall, Current

MemoryStep == [ChipIsMemory!Next]_<<mem, OnCall, taken, out, answer>>

\* What an edge may do to the memory, of which the chip's own steps are none.
MemoryMove == \/ ChipIsMemory!Put \/ (ChipIsMemory!Fetch /\ FlagFalls) \/ ChipIsMemory!Return
              \/ UNCHANGED <<mem, OnCall, taken, out, answer>>

LEMMA MoveIsStep == MemoryMove => MemoryStep
BY DEF MemoryMove, MemoryStep, ChipIsMemory!Next

LEMMA Idles ==
  ASSUME mem' = mem, OnCall' = OnCall, taken' = taken, out' = out, answer' = answer
  PROVE  MemoryMove
BY DEF MemoryMove

LEMMA Puts ==
  ASSUME OnCall # NoCall, OnCall.words # <<>>, taken # Len(OnCall.words),
         taken' = taken + 1,
         mem' = [mem EXCEPT ![OnCall.at + 2 * taken] = OnCall.words[taken + 1]],
         OnCall' = OnCall, out' = out, answer' = answer
  PROVE  MemoryMove
<1>1. ChipIsMemory!Put
  BY DEF ChipIsMemory!Put, ChipIsMemory!Whole, ChipIsMemory!Reads, OnCall
<1> QED BY <1>1 DEF MemoryMove

LEMMA Fetches ==
  ASSUME OnCall # NoCall, OnCall.words = <<>>, taken = 0,
         taken' = 1, out' = mem[OnCall.at], FlagFalls,
         OnCall' = OnCall, answer' = answer
  PROVE  MemoryMove
<1>1. ChipIsMemory!Fetch
  BY DEF ChipIsMemory!Fetch, ChipIsMemory!Whole, ChipIsMemory!Reads, OnCall
<1> QED BY <1>1 DEF MemoryMove

LEMMA ReturnsIt ==
  ASSUME OnCall # NoCall, OnCall' = NoCall,
         taken = IF OnCall.words = <<>> THEN 1 ELSE Len(OnCall.words),
         answer' = IF OnCall.words = <<>> THEN out ELSE answer,
         mem' = mem, taken' = taken, out' = out
  PROVE  MemoryMove
<1>1. ChipIsMemory!Return
  BY DEF ChipIsMemory!Return, ChipIsMemory!Whole, ChipIsMemory!Reads, OnCall
<1> QED BY <1>1 DEF MemoryMove

LEMMA EdgeInCall ==
  ASSUME Disciplined, Inv, WInv, Edge, InCall PROVE MemoryMove
<1>1. OnCall = Current /\ OnCall # NoCall BY OnCallIs, AccessIs
<1>2. at.store \in 1 .. 6 BY OwnStrobe DEF WInv
<1>3. CASE Computes
  <2>1. at' = at /\ answer' = answer BY <1>3, Waits DEF WInv
  <2>2. OnCall' = OnCall BY <2>1 DEF OnCall, Calling
  <2>3. CASE Takes /\ SetsPointer BY <2>1, <2>2, <2>3, SetsIt, Idles
  <2>4. CASE Takes /\ ~SetsPointer
    <3>1. /\ taken \in Nat /\ taken + 1 = Index /\ Index <= Len(Current.words)
          /\ Current.words # <<>>
          /\ taken' = taken + 1 /\ out' = out
          /\ mem' = [mem EXCEPT ![Current.at + 2 * taken] = Current.words[taken + 1]]
      BY <2>4, PutsWord
    <3>2. Len(Current.words) \in Nat BY AccessIs, LenProperties
    <3>3. taken # Len(Current.words) BY <3>1, <3>2
    <3> QED BY <1>1, <2>1, <2>2, <3>1, <3>3, Puts
  <2>5. CASE Gives
    <3>1. taken = 0 /\ taken' = 1 /\ out' = mem[Current.at] /\ FlagFalls
      BY <2>5, GivesTheWord
    <3>2. Current.words = <<>> BY <2>5 DEF Gives, Asking
    <3> QED BY <1>1, <2>1, <2>2, <3>1, <3>2, Fetches
  <2>6. CASE Ends
    <3>1. mem' = mem /\ out' = out /\ taken' = taken BY <2>6, ChipInRead DEF Ends
    <3> QED BY <2>1, <2>2, <3>1, Idles
  <2>7. CASE ~Takes /\ ~Gives /\ ~Ends
    <3>1. UNCHANGED chip BY <2>7, ChipInWrite, ChipInRead
    <3> QED BY <2>1, <2>2, <3>1, Idles DEF chip
  <2> QED BY <2>3, <2>4, <2>5, <2>6, <2>7
<1>4. CASE Stores
  <2>1. since >= 2 /\ since # 1 BY <1>4, StoresLate DEF WInv
  <2>2. UNCHANGED chip
    <3>1. ~Takes /\ ~Gives /\ ~Ends BY <2>1 DEF Takes, Gives, Ends
    <3> QED BY <3>1, ChipInWrite, ChipInRead
  <2>3. mem' = mem /\ taken' = taken /\ out' = out BY <2>2 DEF chip
  <2>4. answer' = IF Returns /\ Asks THEN temp ELSE answer BY <1>4 DEF Stores
  <2>5. CASE ~Leaves
    <3>1. Within \/ NextAccess BY <1>4, <2>5, StoreMoves
    <3>2. ~Returns BY <1>4, <2>5, StoreMoves
    <3>3. InCall'
      <4>1. at'.call = at.call /\ (at'.access = at.access \/ at'.access = at.access + 1)
        BY <3>1 DEF Within, NextAccess
      <4>2. at.access \in Nat \ {0} BY AccessIs
      <4> QED BY <4>1, <4>2 DEF InCall, Calling
    <3>4. OnCall' = OnCall
      <4>1. Current' = Current BY EdgeStays DEF Current
      <4> QED BY <1>1, <3>3, <4>1, OnCallIs
    <3> QED BY <2>3, <2>4, <3>2, <3>4, Idles
  <2>6. CASE Leaves
    <3>1. at.store = 6 /\ at.access = Len(Program[at.call]) /\ ~Calling' BY <2>6 DEF Leaves
    <3>2. OnCall' = NoCall BY <3>1, OnCallIs DEF InCall
    <3>3. Returns /\ (Asks <=> Current.words = <<>>)
      <4>1. Asks <=> Current.words = <<>> BY DEF Asks, Current, InCall
      <4> QED BY <1>4, <2>6, <4>1, StoreMoves
    <3>4. ~SetsPointer BY <3>1, AccessIs
    <3>5. CASE Current.words = <<>>
      <4>1. Asking BY <3>4, <3>5 DEF Asking
      <4>2. taken = 1 BY <3>1, <4>1 DEF WInv, Progress
      <4>3. temp = out BY <3>1, <4>1 DEF WInv, ReadWires
      <4>4. answer' = out BY <2>4, <3>3, <3>5, <4>3
      <4> QED BY <1>1, <2>3, <3>2, <3>5, <4>2, <4>4, ReturnsIt
    <3>6. CASE Current.words # <<>>
      <4>1. ~Asking BY <3>6 DEF Asking
      <4>2. taken = Index BY <2>1, <3>1, <3>4, <4>1 DEF WInv, Progress
      <4>3. Index = Len(Current.words) BY <3>1, <3>4, <4>1, AccessIs
      <4>4. answer' = answer BY <2>4, <3>3, <3>6
      <4> QED BY <1>1, <2>3, <3>2, <3>6, <4>2, <4>3, <4>4, ReturnsIt
    <3> QED BY <3>5, <3>6
  <2> QED BY <2>5, <2>6
<1> QED BY <1>3, <1>4 DEF Edge

LEMMA EdgeElsewhere ==
  ASSUME Disciplined, Inv, WInv, Edge, ~InCall PROVE MemoryMove
<1>1. UNCHANGED chip BY ChipRests DEF WInv
<1>2. ~InCall' BY EdgeStays
<1>3. OnCall' = OnCall BY <1>2, OnCallIs
<1>4. answer' = answer
  <2>1. CASE Computes BY <2>1 DEF Computes, program
  <2>2. CASE Stores
    <3>1. at.call = 0 BY <2>2 DEF Stores, InCall
    <3> QED BY <2>2, <3>1 DEF Stores, Asks
  <2> QED BY <2>1, <2>2 DEF Edge
<1> QED BY <1>1, <1>3, <1>4, Idles DEF chip

LEMMA CallBegins == ASSUME Call PROVE MemoryStep
<1>1. PICK k \in DOMAIN Script : at' = [call |-> k, access |-> 1, store |-> 1]
  BY Zenon DEF Call
<1>2. /\ ~Calling /\ taken' = 0 /\ mem' = mem /\ out' = out /\ answer' = answer
  BY DEF Call
<1>3. at'.call = k /\ at'.access = 1 BY <1>1
<1>4. k # 0
  <2>1. Len(Script) \in Nat /\ DOMAIN Script = 1 .. Len(Script)
    BY HpiAssumption, LenProperties
  <2> QED BY <2>1
<1>5. OnCall = NoCall BY <1>2 DEF OnCall
<1>6. OnCall' = Script[k] BY <1>3, <1>4 DEF OnCall, Calling
<1>7. OnCall' \in {Script[j] : j \in DOMAIN Script} BY <1>6
<1>8. ChipIsMemory!Begin BY <1>2, <1>5, <1>7 DEF ChipIsMemory!Begin, OnCall
<1> QED BY <1>8 DEF MemoryStep, ChipIsMemory!Next

LEMMA RestOwn == ASSUME Boot \/ Execute \/ Press \/ UNCHANGED vars PROVE MemoryStep
<1>1. at' = at /\ taken' = taken /\ out' = out /\ answer' = answer
  BY DEF Boot, Execute, Press, vars, program, chip
<1>2. OnCall' = OnCall BY <1>1 DEF OnCall, Calling
<1>3. ChipIsMemory!Own BY <1>1, <1>2 DEF ChipIsMemory!Own, OnCall
<1> QED BY <1>3 DEF MemoryStep, ChipIsMemory!Next

\* Implements: the chip behind io_handler.c and hpi_io_intf.sv is a memory for
\* usb.c, whatever blocks it writes and reads, for every pace of the processor
\* within MinStep and MaxStep and every bus that keeps a word long enough, as
\* long as nobody presses KEY0 within a call.
THEOREM PortIsMemory == ASSUME Disciplined PROVE Spec => Implements
<1>1. Init => Inv /\ WInv BY Base, WiresInit
<1>2. Inv /\ WInv /\ [Next]_vars => Inv' /\ WInv' BY Step, WiresStep
<1>3. Inv /\ WInv /\ [Next]_vars => [ChipIsMemory!Next]_<<mem, OnCall, taken, out, answer>>
  <2>1. Inv /\ WInv /\ [Next]_vars => MemoryStep
    BY EdgeInCall, EdgeElsewhere, MoveIsStep, CallBegins, RestOwn DEF Next
  <2> QED BY <2>1 DEF MemoryStep
<1>4. Init => OnCall = NoCall BY DEF Init, OnCall
<1> QED BY <1>1, <1>2, <1>3, <1>4, PTL DEF Spec, Implements, ChipIsMemory!Spec, OnCall

-----------------------------------------------------------------------------
(* The lists.                                                              *)

\* Induction along a list.
LEMMA Along ==
  ASSUME NEW S, 0 \in S, \A k \in 0 .. 11 : k \in S => k + 1 \in S
  PROVE  \A k \in 0 .. MOST : k \in S
<1>1. 1 \in S /\ 2 \in S /\ 3 \in S /\ 4 \in S OBVIOUS
<1>2. 5 \in S /\ 6 \in S /\ 7 \in S /\ 8 \in S BY <1>1
<1>3. 9 \in S /\ 10 \in S /\ 11 \in S /\ 12 \in S BY <1>2
<1> QED BY <1>1, <1>2, <1>3 DEF MOST

Chain(m, f) == f = [n \in 0 .. MOST |-> IF n = 0 THEN LIST_START ELSE Linked(m, f[n - 1])]

LEMMA LinksChosen == ASSUME NEW m PROVE Links(m) = CHOOSE f : Chain(m, f)
BY DEF Links, Chain

LEMMA SomeChain == ASSUME NEW m PROVE \E f : Chain(m, f)
<1> DEFINE UpTo(f, j) == /\ f = [n \in 0 .. MOST |-> f[n]]
                         /\ f[0] = LIST_START
                         /\ \A n \in 1 .. j : f[n] = Linked(m, f[n - 1])
           S == {j \in 0 .. MOST : \E f : UpTo(f, j)}
<1>1. 0 \in S
  <2>1. UpTo([n \in 0 .. MOST |-> LIST_START], 0) BY DEF MOST
  <2> HIDE DEF UpTo
  <2> QED BY <2>1 DEF MOST
<1>2. ASSUME NEW k \in 0 .. 11, k \in S PROVE k + 1 \in S
  <2>1. PICK f : UpTo(f, k) BY <1>2
  <2> DEFINE g == [n \in 0 .. MOST |-> IF n = k + 1 THEN Linked(m, f[k]) ELSE f[n]]
  <2>2. UpTo(g, k + 1)
    <3>1. g = [n \in 0 .. MOST |-> g[n]] OBVIOUS
    <3>2. g[0] = LIST_START BY <2>1 DEF MOST
    <3>3. \A n \in 1 .. k + 1 : g[n] = Linked(m, g[n - 1])
      <4> SUFFICES ASSUME NEW n \in 1 .. k + 1 PROVE g[n] = Linked(m, g[n - 1]) OBVIOUS
      <4>1. g[n - 1] = f[n - 1] BY DEF MOST
      <4>2. CASE n = k + 1 BY <4>1, <4>2 DEF MOST
      <4>3. CASE n # k + 1
        <5>1. g[n] = f[n] /\ n \in 1 .. k BY <4>3 DEF MOST
        <5> QED BY <5>1, <4>1, <2>1
      <4> QED BY <4>2, <4>3
    <3> QED BY <3>1, <3>2, <3>3
  <2> HIDE DEF UpTo, g
  <2> QED BY <2>2 DEF MOST
<1> HIDE DEF S
<1>3. MOST \in S BY <1>1, <1>2, Along DEF MOST
<1>4. PICK f : UpTo(f, MOST) BY <1>3 DEF S
<1>5. \A n \in 0 .. MOST : f[n] = IF n = 0 THEN LIST_START ELSE Linked(m, f[n - 1])
  BY <1>4 DEF MOST
<1>6. Chain(m, f) BY <1>4, <1>5 DEF Chain
<1> QED BY <1>6

LEMMA LinksAre ==
  ASSUME NEW m
  PROVE  /\ Links(m) = [n \in 0 .. MOST |-> Links(m)[n]]
         /\ Links(m)[0] = LIST_START
         /\ \A n \in 0 .. 11 : Links(m)[n + 1] = Linked(m, Links(m)[n])
<1>1. Chain(m, Links(m)) BY LinksChosen, SomeChain
<1> DEFINE f == Links(m)
<1> HIDE DEF f
<1>2. f = [n \in 0 .. MOST |-> IF n = 0 THEN LIST_START ELSE Linked(m, f[n - 1])]
  BY <1>1 DEF f, Chain
<1>3. \A n \in 0 .. MOST : f[n] = IF n = 0 THEN LIST_START ELSE Linked(m, f[n - 1])
  BY <1>2
<1>4. f = [n \in 0 .. MOST |-> f[n]] BY <1>2
<1>5. f[0] = LIST_START BY <1>3 DEF MOST
<1>6. ASSUME NEW n \in 0 .. 11 PROVE f[n + 1] = Linked(m, f[n])
  <2>1. n + 1 \in 0 .. MOST /\ n + 1 # 0 /\ (n + 1) - 1 = n BY DEF MOST
  <2> QED BY <2>1, <1>3
<1> QED BY <1>4, <1>5, <1>6 DEF f

\* What m0 has, m has too.
Has(m0, m) == /\ DOMAIN m0 \subseteq DOMAIN m
                 /\ \A a \in DOMAIN m0 : m[a] = m0[a]

LEMMA LinksKept ==
  ASSUME NEW m0, NEW m, Has(m0, m), WellFormed(m0) PROVE Links(m) = Links(m0)
<1> DEFINE f == Links(m0)   g == Links(m)
           S == {k \in 0 .. MOST : g[k] = f[k]}
<1>1. f[0] = LIST_START /\ g[0] = LIST_START BY LinksAre
<1>2. \A n \in 0 .. 11 : f[n + 1] = Linked(m0, f[n]) /\ g[n + 1] = Linked(m, g[n])
  BY LinksAre
<1>3. f = [n \in 0 .. MOST |-> f[n]] /\ g = [n \in 0 .. MOST |-> g[n]] BY LinksAre
<1>4. \A n \in 0 .. MOST : f[n] # 0 => f[n] + 10 \in DOMAIN m0 BY DEF WellFormed
<1> HIDE DEF f, g
<1>5. 0 \in S BY <1>1 DEF MOST
<1>6. ASSUME NEW k \in 0 .. 11, k \in S PROVE k + 1 \in S
  <2>1. g[k] = f[k] BY <1>6
  <2>2. Linked(m, f[k]) = Linked(m0, f[k])
    <3>1. f[k] # 0 => f[k] + 10 \in DOMAIN m0 BY <1>4 DEF MOST
    <3> QED BY <3>1 DEF Linked, Has
  <2>3. g[k + 1] = f[k + 1] BY <1>2, <2>1, <2>2
  <2> QED BY <2>3 DEF MOST
<1>7. \A k \in 0 .. MOST : k \in S
  <2> HIDE DEF S
  <2> QED BY <1>5, <1>6, Along
<1>8. \A k \in 0 .. MOST : g[k] = f[k] BY <1>7
<1> QED BY <1>3, <1>8 DEF f, g

\* The links that are counted are the first ones.
LEMMA Prefix ==
  ASSUME NEW m, WellFormed(m), NEW n \in 1 .. Length(m)
  PROVE  n - 1 \in 0 .. MOST /\ Links(m)[n - 1] # 0
<1> DEFINE f == Links(m)
           N == {k \in 0 .. MOST : f[k] # 0}
<1>1. f[MOST] = 0 BY DEF WellFormed
<1>2. \A k \in 0 .. 11 : f[k] = 0 => f[k + 1] = 0 BY LinksAre DEF Linked
<1>3. Length(m) = Cardinality(N) BY DEF Length
<1> HIDE DEF f
<1>4. IsFiniteSet(N) /\ Cardinality(N) \in Nat
  <2>1. IsFiniteSet(0 .. MOST)
    <3>1. 0 \in Int /\ MOST \in Int BY DEF MOST
    <3> QED BY <3>1, FS_Interval
  <2>2. N \in SUBSET (0 .. MOST) OBVIOUS
  <2> QED BY <2>1, <2>2, FS_Subset, FS_CardinalityType
<1>5. ASSUME NEW i \in 0 .. MOST, f[i] = 0 PROVE Cardinality(N) <= i
  <2> DEFINE S == {k \in 0 .. MOST : i <= k => f[k] = 0}
  <2>1. 0 \in S BY <1>5 DEF MOST
  <2>2. ASSUME NEW k \in 0 .. 11, k \in S PROVE k + 1 \in S
    <3>1. CASE i <= k BY <3>1, <2>2, <1>2 DEF MOST
    <3>2. CASE ~(i <= k)
      <4>1. i <= k + 1 => i = k + 1 BY <3>2 DEF MOST
      <4> QED BY <4>1, <1>5 DEF MOST
    <3> QED BY <3>1, <3>2
  <2>3. \A k \in 0 .. MOST : k \in S
    <3> HIDE DEF S
    <3> QED BY <2>1, <2>2, Along
  <2>4. \A k \in N : k < i
    <3>1. \A k \in N : k \in S /\ k \in 0 .. MOST BY <2>3
    <3> QED BY <3>1 DEF MOST
  <2>5. N \in SUBSET (0 .. i - 1) BY <2>4 DEF MOST
  <2>6. IsFiniteSet(0 .. i - 1) /\ Cardinality(0 .. i - 1) = i
    <3>1. i \in Nat BY DEF MOST
    <3>2. 0 \in Int /\ i - 1 \in Int /\ (0 > i - 1 <=> i = 0) /\ (i - 1) - 0 + 1 = i BY <3>1
    <3> QED BY <3>1, <3>2, FS_Interval
  <2> HIDE DEF N
  <2> QED BY <2>5, <2>6, FS_Subset
<1>6. n \in Nat /\ 1 <= n /\ n <= Cardinality(N)
  <2> HIDE DEF N
  <2> QED BY <1>3, <1>4
<1>7. Cardinality(N) <= MOST
  <2> HIDE DEF N
  <2> QED BY <1>1, <1>5 DEF MOST
<1>8. n - 1 \in 0 .. MOST
  <2> HIDE DEF N
  <2> QED BY <1>4, <1>6, <1>7 DEF MOST
<1>9. ~(Cardinality(N) <= n - 1)
  <2> HIDE DEF N
  <2> QED BY <1>4, <1>6
<1>10. f[n - 1] # 0
  <2> HIDE DEF N
  <2> QED BY <1>5, <1>8, <1>9
<1> QED BY <1>8, <1>10 DEF f

LEMMA DescriptorsKept ==
  ASSUME NEW m0, NEW m, Has(m0, m), WellFormed(m0) PROVE Descriptors(m) = Descriptors(m0)
<1>1. Links(m) = Links(m0) BY LinksKept
<1>2. Length(m) = Length(m0) BY <1>1 DEF Length
<1>3. ASSUME NEW n \in 1 .. Length(m0)
      PROVE  Descriptor(m, Links(m0)[n - 1]) = Descriptor(m0, Links(m0)[n - 1])
  <2> DEFINE a == Links(m0)[n - 1]
  <2>1. n - 1 \in 0 .. MOST /\ a # 0 BY Prefix
  <2>2. {a, a + 2, a + 4, a + 6, a + 10} \subseteq DOMAIN m0 BY <2>1 DEF WellFormed
  <2> HIDE DEF a
  <2>3. /\ m[a] = m0[a] /\ m[a + 2] = m0[a + 2] /\ m[a + 4] = m0[a + 4]
        /\ m[a + 6] = m0[a + 6]
    BY <2>2 DEF Has
  <2>4. Descriptor(m, a) = Descriptor(m0, a) BY <2>3 DEF Descriptor
  <2> QED BY <2>4 DEF a
<1> QED BY <1>1, <1>2, <1>3 DEF Descriptors

\* A list that is one the chip can execute stays one whatever else the chip
\* has in its memory.
LEMMA StaysWellFormed ==
  ASSUME NEW m0, NEW m, Has(m0, m), WellFormed(m0) PROVE WellFormed(m)
<1> DEFINE ds == Descriptors(m0)
<1>1. Links(m) = Links(m0) /\ Descriptors(m) = ds BY LinksKept, DescriptorsKept
<1>2. /\ Links(m)[MOST] = 0
      /\ \A n \in 0 .. MOST :
           LET a == Links(m)[n] IN a # 0 => {a, a + 2, a + 4, a + 6, a + 10} \subseteq DOMAIN m
      /\ Disjoint(ds)
  <2>1. DOMAIN m0 \subseteq DOMAIN m BY DEF Has
  <2> HIDE DEF ds
  <2>2. /\ Links(m0)[MOST] = 0
        /\ \A n \in 0 .. MOST :
             LET a == Links(m0)[n] IN a # 0 => {a, a + 2, a + 4, a + 6, a + 10} \subseteq DOMAIN m0
        /\ Disjoint(ds)
    BY DEF WellFormed, ds
  <2> QED BY <1>1, <2>1, <2>2
<1>3. Poll(ds) \/ Control(m0, ds) BY DEF WellFormed
<1> HIDE DEF ds
<1>4. ASSUME Control(m0, ds) PROVE Control(m, ds)
  <2> DEFINE packet == ds[1].base
  <2>1. {packet, packet + 6} \subseteq DOMAIN m0 BY <1>4 DEF Control
  <2>2. {packet, packet + 6} \subseteq DOMAIN m BY <2>1 DEF Has
  <2>3. m[packet] = m0[packet] /\ m[packet + 6] = m0[packet + 6] BY <2>1 DEF Has
  <2> QED BY <1>4, <2>2, <2>3 DEF Control
<1> QED BY <1>1, <1>2, <1>3, <1>4 DEF WellFormed

-----------------------------------------------------------------------------
(* The lists in the chip's memory, while usb.c sends them.                 *)

Place(i) == LIST_START + 2 * (i - 1)

\* The word i of the list is there; the control byte need not be.
Holds(m, list, i) == i # 5 => m[Place(i)] = list[i]

LEMMA LaidIs ==
  ASSUME NEW list \in Seq(Nat), NEW m, DOMAIN Laid(list) \subseteq DOMAIN m
  PROVE  /\ \A i \in DOMAIN list : i \in Nat \ {0} /\ (i # 5 => Place(i) \in DOMAIN m)
         /\ (\A i \in DOMAIN list : Holds(m, list, i)) => Has(Laid(list), m)
<1>1. \A i \in DOMAIN list : i \in Nat \ {0} BY LenProperties
<1>2. DOMAIN Laid(list) = {Place(i) : i \in DOMAIN list \ {5}} BY DEF Laid, Place
<1>3. ASSUME \A i \in DOMAIN list : Holds(m, list, i), NEW a \in DOMAIN Laid(list)
      PROVE  m[a] = Laid(list)[a]
  <2>1. PICK i \in DOMAIN list \ {5} : a = Place(i) BY <1>2
  <2>2. i \in Nat BY <1>1
  <2>3. (a - LIST_START) \div 2 + 1 = i BY <2>1, <2>2 DEF Place, LIST_START
  <2>4. Laid(list)[a] = list[(a - LIST_START) \div 2 + 1] BY <1>2, <1>3 DEF Laid, Place
  <2> QED BY <1>3, <2>1, <2>3, <2>4 DEF Holds
<1> QED BY <1>1, <1>2, <1>3 DEF Has

LEMMA Placed ==
  ASSUME NEW i \in Nat \ {0}, NEW j \in Nat \ {0}
  PROVE  /\ Place(i) = Place(j) => i = j
         /\ Place(i) # HUSB_SIE1_pCurrentTDPtr /\ Place(i) # HPI_SIE1_MSG_ADR
         /\ Place(i) = CONTROL => i = 5
         /\ LIST_START + 2 * (i - 1) = Place(i)
         /\ LIST_START # HUSB_SIE1_pCurrentTDPtr /\ LIST_START # 0
BY DEF Place, LIST_START, HUSB_SIE1_pCurrentTDPtr, HPI_SIE1_MSG_ADR, CONTROL


\* The address of a word of a list is no other that is used.
LEMMA LaidPlaces ==
  ASSUME Disciplined, ListsFirst, NEW k, Listing(k), NEW a \in DOMAIN Laid(Script[k].words)
  PROVE  /\ a \in Cells
         /\ a \notin {HUSB_SIE1_pCurrentTDPtr, HPI_SIE1_MSG_ADR, HPI_STATUS, LIST_START + 8}
<1>1. k \in DOMAIN Script BY DEF Listing
<1>2. a \in Cells BY <1>1 DEF ListsFirst
<1>3. Script[k].words \in Seq(Nat) BY <1>1 DEF Disciplined
<1>4. PICK i \in DOMAIN Script[k].words \ {5} : a = Place(i) BY DEF Laid, Place
<1>5. i \in Nat \ {0} BY <1>3, <1>4, LenProperties
<1> QED BY <1>2, <1>4, <1>5
        DEF Place, LIST_START, HUSB_SIE1_pCurrentTDPtr, HPI_SIE1_MSG_ADR, HPI_STATUS

\* The list that the call k writes is in the memory m.
Present(m, k) == \A i \in DOMAIN Script[k].words : Holds(m, Script[k].words, i)

\* The call k has written the last list up to the call j.
Latest(k, j) == k \in DOMAIN Script /\ k <= j /\ Listing(k) /\ \A i \in k + 1 .. j : ~Listing(i)

\* The chip's pointer is the one that the call k has written, up to the call j.
Strayed(k, j) ==
  /\ k \in DOMAIN Script /\ k <= j /\ ~Listed(k) /\ Script[k].at = HUSB_SIE1_pCurrentTDPtr
  /\ mem[HUSB_SIE1_pCurrentTDPtr] = Script[k].words[1]
  /\ \A i \in k + 1 .. j - 1 : ~Listed(i)

\* What is in the memory of the list that is being written or was written last,
\* and which list, or which other place, the pointer shows.
Lists ==
  /\ InCall /\ Current.words # <<>> => taken \in 0 .. Len(Current.words)
  /\ Listing(at.call) =>
       \A i \in DOMAIN Script[at.call].words :
         (InCall => i <= taken) => Holds(mem, Script[at.call].words, i)
  /\ Listed(at.call) =>
       /\ Present(mem, at.call - 1)
       /\ (InCall => taken = 1) => mem[HUSB_SIE1_pCurrentTDPtr] \in {0, LIST_START}
  /\ mem[HUSB_SIE1_pCurrentTDPtr] = LIST_START /\ ~over =>
       \E k \in DOMAIN Script : Latest(k, at.call) /\ Present(mem, k)
  /\ \/ mem[HUSB_SIE1_pCurrentTDPtr] \in {0, LIST_START}
     \/ \E k \in DOMAIN Script : Strayed(k, at.call)

\* The calls around a list.
LEMMA CallsAre ==
  ASSUME Disciplined, ListsFirst, NEW k \in DOMAIN Script
  PROVE  /\ k \in 1 .. Len(Script) /\ Len(Script) \in Nat
         /\ Script[k].at \in Nat /\ Script[k].words \in Seq(Nat)
         /\ Listing(k) => /\ ~Listed(k) /\ Listed(k + 1) /\ WellFormed(Laid(Script[k].words))
                          /\ DOMAIN Laid(Script[k].words) \subseteq Cells
         /\ Listed(k) => /\ Listing(k - 1) /\ ~Listing(k)
                         /\ \A i \in {k + 1, k + 2, k + 3} :
                              /\ i \in DOMAIN Script /\ ~Listing(i) /\ ~Listed(i)
                              /\ Script[i].at # HUSB_SIE1_pCurrentTDPtr
<1>1. Script \in Seq([at : Nat, words : Seq(Int)]) BY HpiAssumption
<1>2. Len(Script) \in Nat /\ DOMAIN Script = 1 .. Len(Script) BY <1>1, LenProperties
<1>3. Script[k] \in [at : Nat, words : Seq(Int)] BY <1>1, ElementOfSeq, <1>2
<1>4. Script[k].words \in Seq(Nat) BY DEF Disciplined
<1>5. LIST_START # HUSB_SIE1_pCurrentTDPtr BY DEF LIST_START, HUSB_SIE1_pCurrentTDPtr
<1>6. ~(Listing(k) /\ Listed(k)) BY <1>5 DEF Listing, Listed
<1>7. Listing(k) => /\ Listed(k + 1) /\ WellFormed(Laid(Script[k].words))
                    /\ DOMAIN Laid(Script[k].words) \subseteq Cells
  BY DEF ListsFirst
<1>8. ASSUME Listed(k)
      PROVE  /\ Listing(k - 1)
             /\ \A i \in {k + 1, k + 2, k + 3} :
                  /\ i \in DOMAIN Script /\ ~Listing(i) /\ ~Listed(i)
                  /\ Script[i].at # HUSB_SIE1_pCurrentTDPtr
  <2>1. /\ Listing(k - 1)
        /\ \A i \in k + 1 .. k + 3 :
             /\ i \in DOMAIN Script
             /\ Script[i].at \notin {LIST_START, HUSB_SIE1_pCurrentTDPtr}
    BY <1>8 DEF ListsFirst
  <2>2. \A i \in {k + 1, k + 2, k + 3} : i \in k + 1 .. k + 3 BY <1>2
  <2> QED BY <2>1, <2>2 DEF Listing, Listed
<1> QED BY <1>2, <1>3, <1>4, <1>6, <1>7, <1>8

LEMMA MemoryCells == ASSUME WInv PROVE DOMAIN mem = Cells
<1>1. mem = [x \in Cells |-> mem[x]] BY DEF WInv, Undisturbed
<1> QED BY <1>1

\* A word of a list stays where nothing is written over the list.
LEMMA HoldsOn ==
  ASSUME Disciplined, ListsFirst, NEW k, Listing(k), NEW i \in DOMAIN Script[k].words,
         \A a \in DOMAIN Laid(Script[k].words) : mem'[a] = mem[a],
         Holds(mem, Script[k].words, i)
  PROVE  Holds(mem', Script[k].words, i)
<1>1. SUFFICES ASSUME i # 5 PROVE mem'[Place(i)] = mem[Place(i)] BY DEF Holds
<1>2. Place(i) \in DOMAIN Laid(Script[k].words) BY <1>1 DEF Laid, Place
<1> QED BY <1>2

LEMMA PresentOn ==
  ASSUME Disciplined, ListsFirst, NEW k, Listing(k), Present(mem, k),
         \A a \in DOMAIN Laid(Script[k].words) : mem'[a] = mem[a]
  PROVE  Present(mem', k)
BY HoldsOn DEF Present

\* One more word of a list is put, for the first time or once more.
LEMMA PutHolds ==
  ASSUME NEW list \in Seq(Nat), NEW n \in Nat, n + 1 \in DOMAIN list,
         DOMAIN Laid(list) \subseteq DOMAIN mem,
         mem' = [mem EXCEPT ![LIST_START + 2 * n] = list[n + 1]],
         NEW i \in DOMAIN list, i = n + 1 \/ Holds(mem, list, i)
  PROVE  Holds(mem', list, i)
<1> SUFFICES ASSUME i # 5 PROVE mem'[Place(i)] = list[i] BY DEF Holds
<1>1. i \in Nat \ {0} /\ Place(i) \in DOMAIN mem BY LaidIs
<1>2. LIST_START + 2 * n = Place(n + 1) BY DEF Place, LIST_START
<1>3. Place(i) = Place(n + 1) => i = n + 1 BY <1>1, Placed
<1>4. mem' = [mem EXCEPT ![Place(n + 1)] = list[n + 1]] BY <1>2
<1>5. CASE i = n + 1 BY <1>1, <1>4, <1>5
<1>6. CASE i # n + 1 BY <1>1, <1>3, <1>4, <1>6 DEF Holds
<1> QED BY <1>5, <1>6

LEMMA ListsInit == ASSUME Init, Disciplined, ListsFirst PROVE Lists
<1>1. at.call = 0 /\ mem = [a \in Cells |-> 0] BY DEF Init
<1>2. mem[HUSB_SIE1_pCurrentTDPtr] = 0 BY <1>1 DEF ListsFirst
<1>3. LIST_START # 0 BY DEF LIST_START
<1>4. 0 \notin DOMAIN Script BY HpiAssumption, LenProperties
<1> QED BY <1>1, <1>2, <1>3, <1>4 DEF Lists, InCall, Listing, Listed

\* A list has a first descriptor.
LEMMA NoEmptyList == ~WellFormed(Laid(<<>>))
<1> DEFINE m == Laid(<<>>)
<1>1. DOMAIN m = {} BY DEF Laid
<1>2. Links(m)[0] = LIST_START /\ LIST_START # 0 BY LinksAre DEF LIST_START
<1> HIDE DEF m
<1>3. SUFFICES ASSUME WellFormed(m) PROVE FALSE BY DEF m
<1>4. {Links(m)[0], Links(m)[0] + 10} \subseteq DOMAIN m BY <1>2, <1>3 DEF WellFormed, MOST
<1> QED BY <1>1, <1>4

\* Where nothing of the lists, the pointer and the place in the script changes.
Beside ==
  /\ mem'[HUSB_SIE1_pCurrentTDPtr] = mem[HUSB_SIE1_pCurrentTDPtr]
  /\ \A k : Listing(k) => \A a \in DOMAIN Laid(Script[k].words) : mem'[a] = mem[a]

LEMMA FlagBeside ==
  ASSUME Disciplined, ListsFirst, WInv, FlagFalls PROVE Beside
<1>1. HUSB_SIE1_pCurrentTDPtr # HPI_STATUS BY DEF HUSB_SIE1_pCurrentTDPtr, HPI_STATUS
<1>2. HUSB_SIE1_pCurrentTDPtr \in DOMAIN mem BY MemoryCells DEF ListsFirst
<1>3. ASSUME NEW k, Listing(k), NEW a \in DOMAIN Laid(Script[k].words) PROVE mem'[a] = mem[a]
  <2>1. a \in DOMAIN mem /\ a # HPI_STATUS BY <1>3, LaidPlaces, MemoryCells
  <2> QED BY <2>1 DEF FlagFalls
<1> QED BY <1>1, <1>2, <1>3 DEF FlagFalls, Beside

LEMMA ListsSame ==
  ASSUME Disciplined, ListsFirst, Inv, Lists, Beside, at'.call = at.call, over' = over,
         InCall' => InCall /\ (taken' = taken \/ Current.words = <<>>),
         InCall /\ ~InCall' => Current.words = <<>> \/ taken = Len(Current.words)
  PROVE  Lists'
<1> DEFINE ptr == HUSB_SIE1_pCurrentTDPtr
           c == at.call
<1>1. c' = c /\ Current' = Current /\ mem'[ptr] = mem[ptr] BY DEF Current, Beside
<1>2. InCall => Current = Script[c] /\ c \in DOMAIN Script
  BY HpiAssumption, LenProperties DEF Current, InCall, Inv, Position
<1>3. InCall' /\ Current'.words # <<>> => taken' \in 0 .. Len(Current'.words)
  BY <1>1 DEF Lists
<1>4. Listing(c) => Script[c].words # <<>>
  BY CallsAre, NoEmptyList DEF Listing
<1>5. ASSUME Listing(c), NEW i \in DOMAIN Script[c].words, InCall' => i <= taken'
      PROVE  Holds(mem', Script[c].words, i)
  <2>1. InCall => i <= taken
    <3>1. CASE InCall' BY <1>2, <1>4, <1>5, <3>1
    <3>2. CASE InCall /\ ~InCall'
      <4>1. Script[c].words \in Seq(Nat) BY <1>2, <3>2, CallsAre
      <4>2. i <= Len(Script[c].words) BY <1>5, <4>1, LenProperties
      <4> QED BY <1>2, <1>4, <1>5, <3>2, <4>2
    <3> QED BY <3>1, <3>2
  <2>2. Holds(mem, Script[c].words, i) BY <1>5, <2>1 DEF Lists
  <2> QED BY <1>5, <2>2, HoldsOn DEF Beside
<1>6. ASSUME Listed(c)
      PROVE  /\ Present(mem', c - 1)
             /\ (InCall' => taken' = 1) => mem'[ptr] \in {0, LIST_START}
  <2>1. Listing(c - 1) /\ Present(mem, c - 1) BY <1>6, CallsAre DEF Lists, Listed
  <2>2. Present(mem', c - 1) BY <2>1, PresentOn DEF Beside
  <2>3. Script[c].words = <<LIST_START>> BY <1>6 DEF Listed
  <2>4. Len(Script[c].words) = 1 /\ Script[c].words # <<>> BY <2>3
  <2>5. (InCall' => taken' = 1) => (InCall => taken = 1) BY <1>2, <2>4
  <2>6. (InCall => taken = 1) => mem[ptr] \in {0, LIST_START} BY <1>6 DEF Lists
  <2> QED BY <1>1, <2>2, <2>5, <2>6
<1>7. ASSUME mem'[ptr] = LIST_START, ~over
      PROVE  \E k \in DOMAIN Script : Latest(k, c) /\ Present(mem', k)
  <2>1. PICK k \in DOMAIN Script : Latest(k, c) /\ Present(mem, k) BY <1>1, <1>7 DEF Lists
  <2>2. Present(mem', k) BY <2>1, PresentOn DEF Beside, Latest
  <2> QED BY <2>1, <2>2
<1>8. \/ mem'[ptr] \in {0, LIST_START}
      \/ \E k \in DOMAIN Script : Strayed(k, c)'
  BY <1>1 DEF Lists, Strayed
<1> QED BY <1>1, <1>3, <1>5, <1>6, <1>7, <1>8 DEF Lists

LEMMA ListsPut ==
  ASSUME Disciplined, ListsFirst, Inv, WInv, Lists, at'.call = at.call, over' = over,
         InCall, InCall', Current.words # <<>>, taken # Len(Current.words), taken' = taken + 1,
         mem' = [mem EXCEPT ![Current.at + 2 * taken] = Current.words[taken + 1]]
  PROVE  Lists'
<1> DEFINE c == at.call
           words == Script[c].words
           cell == Script[c].at + 2 * taken
           ptr == HUSB_SIE1_pCurrentTDPtr
<1>0. Len(Script) \in Nat /\ DOMAIN Script = 1 .. Len(Script) BY HpiAssumption, LenProperties
<1>1. c \in DOMAIN Script /\ Current = Script[c] /\ Current' = Current
  BY HpiAssumption, LenProperties DEF Current, InCall, Inv, Position
<1>2. words \in Seq(Nat) /\ Len(words) \in Nat /\ DOMAIN words = 1 .. Len(words)
      /\ Script[c].at \in Nat /\ c \in Nat
  BY <1>1, CallsAre, LenProperties
<1>3. taken \in 0 .. Len(words) /\ taken # Len(words) BY <1>1 DEF Lists
<1>4. taken \in Nat /\ taken + 1 \in DOMAIN words /\ taken' \in 0 .. Len(words)
  BY <1>2, <1>3
<1>5. DOMAIN mem = Cells /\ ptr \in DOMAIN mem BY MemoryCells DEF ListsFirst
<1>6. mem' = [mem EXCEPT ![cell] = words[taken + 1]] BY <1>1
<1>7. cell \in Written(Script[c])
  <2>1. cell = Script[c].at + 2 * ((taken + 1) - 1) BY <1>2, <1>4
  <2> QED BY <1>4, <2>1 DEF Written
<1>8. LIST_START # ptr /\ LIST_START # 0 BY DEF LIST_START, HUSB_SIE1_pCurrentTDPtr
<1>9. Script[c].at # ptr => mem'[ptr] = mem[ptr]
  BY <1>1, <1>5, <1>6, <1>7 DEF ListsFirst
<1>10. Script[c].at # ptr =>
         \/ mem'[ptr] \in {0, LIST_START}
         \/ \E k \in DOMAIN Script : Strayed(k, c)'
  BY <1>9 DEF Lists, Strayed
<1>11. InCall' /\ Current'.words # <<>> => taken' \in 0 .. Len(Current'.words)
  BY <1>1, <1>4
<1>12. CASE Listing(c)
  <2>1. DOMAIN Laid(words) \subseteq DOMAIN mem /\ ~Listed(c) /\ Script[c].at # ptr
    BY <1>1, <1>5, <1>8, <1>12, CallsAre DEF Listing
  <2>2. mem' = [mem EXCEPT ![LIST_START + 2 * taken] = words[taken + 1]]
    BY <1>6, <1>12 DEF Listing
  <2>3. ASSUME NEW i \in DOMAIN words, i <= taken' \/ Holds(mem, words, i)
        PROVE  Holds(mem', words, i)
    <3>1. i = taken + 1 \/ i <= taken \/ Holds(mem, words, i) BY <1>2, <1>4, <2>3
    <3>2. i <= taken => Holds(mem, words, i) BY <1>12, <2>3 DEF Lists
    <3> QED BY <1>2, <1>4, <2>1, <2>2, <2>3, <3>1, <3>2, PutHolds
  <2>4. ASSUME mem'[ptr] = LIST_START, ~over
        PROVE  \E k \in DOMAIN Script : Latest(k, c) /\ Present(mem', k)
    <3>1. PICK k \in DOMAIN Script : Latest(k, c) /\ Present(mem, k)
      BY <1>9, <2>1, <2>4 DEF Lists
    <3>2. k = c
      <4>1. k \in Nat BY <1>0
      <4> QED BY <1>2, <1>12, <3>1, <4>1 DEF Latest
    <3>3. Present(mem', c) BY <2>3, <3>1, <3>2 DEF Present
    <3> QED BY <3>1, <3>2, <3>3
  <2> HIDE DEF c, words, ptr
  <2>5. \A i \in DOMAIN words : (InCall' => i <= taken') => Holds(mem', words, i) BY <2>3
  <2> QED BY <1>10, <1>11, <2>1, <2>4, <2>5 DEF Lists, c, words, ptr
<1>13. CASE Listed(c)
  <2>1. Listing(c - 1) /\ ~Listing(c) BY <1>1, <1>13, CallsAre
  <2>2. words = <<LIST_START>> /\ Script[c].at = ptr BY <1>13 DEF Listed
  <2>3. taken = 0
    <3>1. Len(words) = 1 BY <2>2
    <3> QED BY <1>3, <3>1
  <2>4. mem' = [mem EXCEPT ![ptr] = LIST_START]
    <3>1. cell = ptr BY <2>2, <2>3 DEF HUSB_SIE1_pCurrentTDPtr
    <3>2. words[taken + 1] = LIST_START BY <2>2, <2>3
    <3> QED BY <1>6, <3>1, <3>2
  <2>5. mem'[ptr] = LIST_START BY <1>5, <2>4
  <2>6. Present(mem', c - 1)
    <3>1. Present(mem, c - 1) BY <1>13 DEF Lists
    <3>2. ASSUME NEW a \in DOMAIN Laid(Script[c - 1].words) PROVE mem'[a] = mem[a]
      <4>1. a \in DOMAIN mem /\ a # ptr BY <1>5, <2>1, LaidPlaces
      <4> QED BY <2>4, <4>1
    <3> QED BY <2>1, <3>1, <3>2, PresentOn
  <2>7. c - 1 \in DOMAIN Script /\ Latest(c - 1, c)
    <3>1. c - 1 \in DOMAIN Script /\ c - 1 <= c BY <1>2, <2>1 DEF Listing
    <3>2. \A i \in (c - 1) + 1 .. c : i = c BY <1>2
    <3> QED BY <2>1, <3>1, <3>2 DEF Latest
  <2> HIDE DEF c, words, ptr
  <2> QED BY <1>11, <2>1, <2>5, <2>6, <2>7 DEF Lists, c, words, ptr
<1>14. CASE Script[c].at = ptr /\ ~Listed(c)
  <2>1. Len(words) = 1 BY <1>1, <1>14 DEF ListsFirst
  <2>2. taken = 0 BY <1>3, <2>1
  <2>3. ~Listing(c) BY <1>8, <1>14 DEF Listing
  <2>4. words[1] # LIST_START
    <3>1. words = <<words[1]>> BY <1>2, <2>1
    <3> QED BY <1>1, <1>14, <3>1 DEF Listed
  <2>5. mem'[ptr] = words[1]
    <3>1. cell = ptr BY <1>14, <2>2 DEF HUSB_SIE1_pCurrentTDPtr
    <3> QED BY <1>5, <1>6, <2>2, <3>1
  <2>6. Strayed(c, c)'
    <3>1. \A i \in c + 1 .. c - 1 : FALSE BY <1>2
    <3> QED BY <1>1, <1>2, <1>14, <2>5, <3>1 DEF Strayed
  <2> HIDE DEF c, words, ptr
  <2> QED BY <1>1, <1>11, <1>14, <2>3, <2>4, <2>5, <2>6 DEF Lists, c, words, ptr
<1>15. CASE Script[c].at # ptr /\ ~Listing(c)
  <2>1. ~Listed(c) BY <1>15 DEF Listed
  <2>2. ASSUME mem'[ptr] = LIST_START, ~over
        PROVE  \E k \in DOMAIN Script : Latest(k, c) /\ Present(mem', k)
    <3>1. PICK k \in DOMAIN Script : Latest(k, c) /\ Present(mem, k)
      BY <1>9, <1>15, <2>2 DEF Lists
    <3>2. Since(k, c)
      <4>1. k \in Nat BY <1>0
      <4>2. k # c BY <1>15, <3>1 DEF Latest
      <4> QED BY <1>2, <3>1, <4>1, <4>2 DEF Latest, Since
    <3>3. Written(Script[c]) \cap DOMAIN Laid(Script[k].words) = {}
      BY <1>1, <1>15, <3>1, <3>2 DEF ListsFirst
    <3>4. ASSUME NEW a \in DOMAIN Laid(Script[k].words) PROVE mem'[a] = mem[a]
      <4>1. a \in DOMAIN mem BY <1>5, <3>1, LaidPlaces DEF Latest
      <4>2. a # cell BY <1>7, <3>3
      <4> QED BY <1>6, <4>1, <4>2
    <3>5. Present(mem', k) BY <3>1, <3>4, PresentOn DEF Latest
    <3> QED BY <3>1, <3>5
  <2> HIDE DEF c, words, ptr
  <2> QED BY <1>10, <1>11, <1>15, <2>1, <2>2 DEF Lists, c, words, ptr
<1> QED BY <1>12, <1>13, <1>14, <1>15

LEMMA ListsEdge ==
  ASSUME Disciplined, ListsFirst, Inv, WInv, Lists, Edge PROVE Lists'
<1>1. at'.call = at.call /\ (InCall' => InCall) /\ over' = over BY EdgeStays DEF Edge
<1>2. Current' = Current BY <1>1 DEF Current
<1>3. InCall => OnCall = Current /\ Current # NoCall BY OnCallIs, AccessIs
<1>4. MemoryMove BY EdgeInCall, EdgeElsewhere
<1>5. CASE ChipIsMemory!Put
  <2>1. /\ OnCall # NoCall /\ OnCall.words # <<>> /\ OnCall' = OnCall
        /\ taken # Len(OnCall.words) /\ taken' = taken + 1
        /\ mem' = [mem EXCEPT ![OnCall.at + 2 * taken] = OnCall.words[taken + 1]]
    BY <1>5 DEF ChipIsMemory!Put, ChipIsMemory!Whole, ChipIsMemory!Reads, OnCall
  <2>2. InCall /\ InCall' BY <2>1, OnCallIs
  <2> QED BY <1>1, <1>3, <2>1, <2>2, ListsPut
<1>6. CASE ChipIsMemory!Fetch /\ FlagFalls
  <2>1. OnCall # NoCall /\ OnCall.words = <<>> /\ OnCall' = OnCall
    BY <1>6 DEF ChipIsMemory!Fetch, ChipIsMemory!Whole, ChipIsMemory!Reads, OnCall
  <2>2. InCall /\ InCall' BY <2>1, OnCallIs
  <2>3. Beside BY <1>6, FlagBeside
  <2> QED BY <1>1, <1>3, <2>1, <2>2, <2>3, ListsSame
<1>7. CASE ChipIsMemory!Return
  <2>1. /\ OnCall # NoCall /\ OnCall' = NoCall /\ mem' = mem
        /\ OnCall.words = <<>> \/ taken = Len(OnCall.words)
    BY <1>7 DEF ChipIsMemory!Return, ChipIsMemory!Whole, ChipIsMemory!Reads, OnCall
  <2>2. InCall BY <2>1, OnCallIs
  <2>3. ~InCall' BY <1>2, <1>3, <2>1, <2>2, OnCallIs
  <2>4. Beside BY <2>1 DEF Beside
  <2> QED BY <1>1, <1>3, <2>1, <2>2, <2>3, <2>4, ListsSame
<1>8. CASE UNCHANGED <<mem, OnCall, taken, out, answer>>
  <2>1. OnCall' = OnCall /\ mem' = mem /\ taken' = taken BY <1>8
  <2>2. InCall => InCall' BY <1>3, <2>1, OnCallIs
  <2>3. Beside BY <2>1 DEF Beside
  <2> QED BY <1>1, <2>1, <2>2, <2>3, ListsSame
<1> QED BY <1>4, <1>5, <1>6, <1>7, <1>8 DEF MemoryMove

\* The call after the call c, and what is known where it goes back.
GoesOnTo(c, k) ==
  \/ k = c - 2 /\ Listed(c - 1)
  \/ k = c - 1 /\ Listed(c - 3)
  \/ k = c /\ Script[c].at = CONTROL
  \/ k = c + 1

LEMMA ListsCall ==
  ASSUME Disciplined, ListsFirst, Inv, WInv, Lists, Call PROVE Lists'
<1> DEFINE c == at.call
           k == Following(c)
           ptr == HUSB_SIE1_pCurrentTDPtr
<1>1. Len(Script) \in Nat /\ DOMAIN Script = 1 .. Len(Script) /\ c \in 0 .. Len(Script)
  BY HpiAssumption, LenProperties DEF Inv, Position
<1>2. k \in DOMAIN Script /\ at' = [call |-> k, access |-> 1, store |-> 1] BY DEF Call
<1>3. k \in Nat \ {0} /\ c \in Nat /\ at'.call = k /\ at'.access = 1 BY <1>1, <1>2
<1>4. ~InCall /\ taken' = 0 /\ mem' = mem BY DEF Call, InCall
<1>5. InCall' /\ Current' = Script[k] BY <1>3 DEF InCall, Calling, Current
<1>6. GoesOnTo(c, k) BY DEF Following, GoesOnTo
<1>7. over' = IF Listing(k) THEN mem[ptr] = LIST_START /\ (over \/ k > c) ELSE over BY DEF Call
<1>8. CONTROL # LIST_START /\ CONTROL # ptr /\ LIST_START # ptr
  BY DEF CONTROL, LIST_START, HUSB_SIE1_pCurrentTDPtr
<1> HIDE DEF k
<1>9. k = c - 2 /\ Listed(c - 1) => Listing(k) /\ ~Listing(c - 1) /\ ~Listing(c) /\ Script[c].at # ptr
  <2>1. SUFFICES ASSUME k = c - 2, Listed(c - 1)
                 PROVE Listing(k) /\ ~Listing(c - 1) /\ ~Listing(c) /\ Script[c].at # ptr
    OBVIOUS
  <2>2. c - 1 \in DOMAIN Script /\ (c - 1) + 1 = c /\ (c - 1) - 1 = k BY <1>3, <2>1 DEF Listed
  <2> QED BY <2>1, <2>2, CallsAre
<1>10. k = c - 1 /\ Listed(c - 3) =>
         ~Listing(k) /\ ~Listed(k) /\ ~Listing(c) /\ Script[c].at # ptr
  <2>1. SUFFICES ASSUME k = c - 1, Listed(c - 3)
                 PROVE ~Listing(k) /\ ~Listed(k) /\ ~Listing(c) /\ Script[c].at # ptr
    OBVIOUS
  <2>2. c - 3 \in DOMAIN Script /\ (c - 3) + 3 = c /\ (c - 3) + 2 = k BY <1>3, <2>1 DEF Listed
  <2> QED BY <2>1, <2>2, CallsAre
<1>11. k = c /\ Script[c].at = CONTROL => ~Listing(k) /\ ~Listed(k)
  BY <1>8 DEF Listing, Listed
<1>12. \A i \in DOMAIN Script[k].words : ~(i <= taken')
  <2>1. Script[k].words \in Seq(Nat) BY <1>2, CallsAre
  <2>2. \A i \in DOMAIN Script[k].words : i \in Nat \ {0} BY <2>1, LenProperties
  <2> QED BY <1>4, <2>2
<1>13. ASSUME Listed(k) PROVE Present(mem, k - 1)
  <2>1. Listing(k - 1) /\ ~Listing(k) BY <1>2, <1>13, CallsAre
  <2>2. k = c + 1 BY <1>6, <1>9, <1>10, <1>11, <1>13, <2>1 DEF GoesOnTo
  <2>3. k - 1 = c BY <1>3, <2>2
  <2> QED BY <1>4, <2>1, <2>3 DEF Lists, Present
<1>14. ASSUME mem[ptr] = LIST_START, ~over'
       PROVE  \E j \in DOMAIN Script : Latest(j, k) /\ Present(mem, j)
  <2>1. ~over BY <1>7, <1>14
  <2>2. PICK j \in DOMAIN Script : Latest(j, c) /\ Present(mem, j) BY <1>14, <2>1 DEF Lists
  <2>3. j \in Nat /\ j <= c /\ Listing(j) /\ \A i \in j + 1 .. c : ~Listing(i)
    BY <1>1, <2>2 DEF Latest
  <2>4. CASE Listing(k)
    <3>1. ~(k > c) BY <1>7, <1>14, <2>4
    <3>2. k = c - 2 /\ Listed(c - 1) BY <1>3, <1>6, <1>10, <1>11, <2>4, <3>1 DEF GoesOnTo
    <3>3. j # c /\ j # c - 1 BY <1>9, <2>3, <3>2
    <3>4. j = k BY <1>3, <2>3, <2>4, <3>2, <3>3
    <3>5. \A i \in k + 1 .. k : FALSE BY <1>3
    <3> QED BY <1>2, <1>3, <2>2, <2>4, <3>4, <3>5 DEF Latest
  <2>5. CASE ~Listing(k)
    <3>1. k = c - 1 \/ k = c \/ k = c + 1 BY <1>6, <1>9, <2>5 DEF GoesOnTo
    <3>2. j <= k
      <4>1. k = c - 1 => j # c BY <1>3, <1>6, <1>10, <2>3 DEF GoesOnTo
      <4> QED BY <1>3, <2>3, <3>1, <4>1
    <3>3. \A i \in j + 1 .. k : ~Listing(i)
      <4>1. \A i \in j + 1 .. k : i \in j + 1 .. c \/ i = k BY <1>3, <2>3, <3>1
      <4> QED BY <2>3, <2>5, <4>1
    <3> QED BY <2>2, <2>3, <3>2, <3>3 DEF Latest
  <2> QED BY <2>4, <2>5
<1>15. \/ mem[ptr] \in {0, LIST_START}
       \/ \E j \in DOMAIN Script : Strayed(j, k)
  <2>1. SUFFICES ASSUME mem[ptr] \notin {0, LIST_START}
                 PROVE  \E j \in DOMAIN Script : Strayed(j, k)
    OBVIOUS
  <2>2. PICK j \in DOMAIN Script : Strayed(j, c) BY <2>1 DEF Lists
  <2>3. /\ j \in Nat /\ j <= c /\ ~Listed(j) /\ Script[j].at = ptr /\ mem[ptr] = Script[j].words[1]
        /\ \A i \in j + 1 .. c - 1 : ~Listed(i)
    BY <1>1, <2>2 DEF Strayed
  <2>4. ~Listed(c) BY <1>4, <2>1 DEF Lists
  <2>5. k # c - 2 \/ ~Listed(c - 1)
    <3>1. SUFFICES ASSUME k = c - 2, Listed(c - 1) PROVE FALSE OBVIOUS
    <3>2. j # c /\ j # c - 1 BY <1>9, <2>3, <3>1
    <3>3. c - 1 \in j + 1 .. c - 1 BY <1>3, <2>3, <3>2
    <3> QED BY <2>3, <3>1, <3>3
  <2>6. k = c - 1 \/ k = c \/ k = c + 1 BY <1>6, <2>5 DEF GoesOnTo
  <2>7. j <= k
    <3>1. k = c - 1 => j # c BY <1>3, <1>6, <1>10, <2>3 DEF GoesOnTo
    <3> QED BY <1>3, <2>3, <2>6, <3>1
  <2>8. \A i \in j + 1 .. k - 1 : ~Listed(i)
    <3>1. \A i \in j + 1 .. k - 1 : i \in j + 1 .. c - 1 \/ i = c BY <1>3, <2>3, <2>6
    <3> QED BY <2>3, <2>4, <3>1
  <2> QED BY <2>3, <2>7, <2>8 DEF Strayed
<1>16. (\E j \in DOMAIN Script : Strayed(j, k)) => \E j \in DOMAIN Script : Strayed(j, at.call)'
  BY <1>3, <1>4 DEF Strayed
<1>17. InCall' /\ Current'.words # <<>> => taken' \in 0 .. Len(Current'.words)
  <2>1. Script[k].words \in Seq(Nat) BY <1>2, CallsAre
  <2>2. Len(Script[k].words) \in Nat BY <2>1, LenProperties
  <2> QED BY <1>4, <1>5, <2>2
<1> HIDE DEF ptr
<1> QED BY <1>3, <1>4, <1>5, <1>12, <1>13, <1>14, <1>15, <1>16, <1>17 DEF Lists, ptr

LEMMA ListsRest ==
  ASSUME Disciplined, ListsFirst, Inv, WInv, Lists, Boot \/ Execute \/ Press \/ UNCHANGED vars
  PROVE  Lists'
<1>1. at' = at /\ taken' = taken /\ over' = over
  BY DEF Boot, Execute, Press, vars, program, chip
<1>2. InCall' = InCall /\ Current' = Current BY <1>1 DEF InCall, Calling, Current
<1>3. CASE ~Execute
  <2>1. mem' = mem BY <1>3 DEF Boot, Press, vars, chip
  <2>2. Beside BY <2>1 DEF Beside
  <2> QED BY <1>1, <1>2, <2>2, ListsSame
<1>4. CASE Execute
  <2> DEFINE c == at.call
             ptr == HUSB_SIE1_pCurrentTDPtr
             first == mem[ptr]
  <2>1. /\ first # 0
        /\ mem' = [mem EXCEPT ![first + 8] = 3, ![HPI_SIE1_MSG_ADR] = HUSB_TDListDone,
                              ![HPI_STATUS] = HPI_STATUS_SIE1msg_FLAG, ![ptr] = 0]
    BY <1>4 DEF Execute
  <2>2. DOMAIN mem = Cells /\ ptr \in DOMAIN mem BY MemoryCells DEF ListsFirst
  <2>3. mem'[ptr] = 0 /\ LIST_START # 0 BY <2>1, <2>2 DEF LIST_START
  <2>4. c \in Nat BY HpiAssumption, LenProperties DEF Inv, Position
  <2>5. ASSUME NEW j, Listing(j), j = c \/ (j = c - 1 /\ Listed(c)),
               NEW a \in DOMAIN Laid(Script[j].words)
        PROVE  mem'[a] = mem[a]
    <3>1. /\ a \in DOMAIN mem /\ a # ptr /\ a # HPI_SIE1_MSG_ADR /\ a # HPI_STATUS
          /\ a # LIST_START + 8
      BY <2>2, <2>5, LaidPlaces
    <3>2. a # first + 8
      <4>1. CASE first = LIST_START BY <3>1, <4>1
      <4>2. CASE first # LIST_START
        <5>1. PICK s \in DOMAIN Script : Strayed(s, c) BY <2>1, <4>2 DEF Lists
        <5>2. s \in Nat /\ j \in DOMAIN Script BY <5>1, <2>5, CallsAre DEF Listing
        <5>3. /\ s <= c /\ ~Listed(s) /\ Script[s].at = ptr /\ first = Script[s].words[1]
              /\ \A i \in s + 1 .. c - 1 : ~Listed(i)
          BY <5>1 DEF Strayed
        <5>4. s # j
          <6>1. Script[j].at = LIST_START /\ LIST_START # ptr
            BY <2>5 DEF Listing, LIST_START, HUSB_SIE1_pCurrentTDPtr
          <6> QED BY <5>3, <6>1
        <5>5. s # c \/ j = c BY <2>5, <5>3
        <5>6. s < j /\ \A i \in s + 1 .. j - 1 : i \in s + 1 .. c - 1
          BY <2>4, <2>5, <5>2, <5>3, <5>4, <5>5
        <5>7. Astray(s, j) BY <5>1, <5>3, <5>6 DEF Astray
        <5>8. Script[s].words[1] + 8 \notin DOMAIN Laid(Script[j].words)
          BY <2>5, <5>1, <5>2, <5>7 DEF ListsFirst
        <5> QED BY <5>3, <5>8
      <4> QED BY <4>1, <4>2
    <3> HIDE DEF first, ptr
    <3> QED BY <2>1, <3>1, <3>2
  <2>6. ASSUME Listing(c), NEW i \in DOMAIN Script[c].words, Holds(mem, Script[c].words, i)
        PROVE  Holds(mem', Script[c].words, i)
    BY <2>5, <2>6, HoldsOn
  <2>7. ASSUME Listed(c) PROVE Present(mem', c - 1)
    <3>1. Listing(c - 1) /\ Present(mem, c - 1) BY <2>7, CallsAre DEF Lists, Listed
    <3> QED BY <2>5, <2>7, <3>1, PresentOn
  <2>8. ASSUME Listing(c), NEW i \in DOMAIN Script[c].words, InCall => i <= taken
        PROVE  Holds(mem', Script[c].words, i)
    <3>1. Holds(mem, Script[c].words, i) BY <2>8 DEF Lists
    <3> QED BY <2>6, <2>8, <3>1
  <2>9. InCall /\ Current.words # <<>> => taken \in 0 .. Len(Current.words) BY DEF Lists
  <2> HIDE DEF c, ptr, first
  <2> QED BY <1>1, <1>2, <2>3, <2>7, <2>8, <2>9 DEF Lists, c, ptr
<1> QED BY <1>3, <1>4

LEMMA ListsStep ==
  ASSUME Disciplined, ListsFirst, Inv, WInv, Lists, [Next]_vars PROVE Lists'
BY ListsEdge, ListsCall, ListsRest DEF Next

LEMMA ListsReady ==
  ASSUME Disciplined, ListsFirst, WInv, Lists PROVE Executable
<1> SUFFICES ASSUME mem[HUSB_SIE1_pCurrentTDPtr] = LIST_START, ~over PROVE WellFormed(mem)
  BY DEF Executable
<1>1. PICK k \in DOMAIN Script : Latest(k, at.call) /\ Present(mem, k) BY DEF Lists
<1>2. /\ Listing(k) /\ WellFormed(Laid(Script[k].words)) /\ Script[k].words \in Seq(Nat)
      /\ DOMAIN Laid(Script[k].words) \subseteq DOMAIN mem
  BY <1>1, CallsAre, MemoryCells DEF Latest
<1>3. Has(Laid(Script[k].words), mem) BY <1>1, <1>2, LaidIs DEF Present
<1> QED BY <1>2, <1>3, StaysWellFormed

\* Executable: whenever the pointer shows a list that was not begun over one it
\* still showed, the chip's memory holds a list that it can execute, for every
\* script that writes the pointer right after a list and lets other pointers
\* and blocks be beside the lists: store by store, sent again or not, executed
\* at any moment.
THEOREM ListsExecutable == ASSUME Disciplined, ListsFirst PROVE Spec => []Executable
<1>1. Init => Inv /\ WInv /\ Lists BY Base, WiresInit, ListsInit
<1>2. Inv /\ WInv /\ Lists /\ [Next]_vars => Inv' /\ WInv' /\ Lists'
  BY Step, WiresStep, ListsStep
<1>3. WInv /\ Lists => Executable BY ListsReady
<1> QED BY <1>1, <1>2, <1>3, PTL DEF Spec

=============================================================================
