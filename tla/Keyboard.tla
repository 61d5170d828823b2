------------------------------ MODULE Keyboard ------------------------------
(***************************************************************************)
(* The keyboard driver: get_keycode and keyboard_init of keyboard_util.c   *)
(* with the routines of usb.c they call, the USB chip they talk to (a      *)
(* CY7C67200, as far as the driver relies on it) and the keyboard, which a *)
(* player may pull out and put in.                                         *)
(*                                                                         *)
(* The driver writes a list of transfers at 0x0500 of the chip's memory    *)
(* and then its address into the chip's list pointer; the chip executes it *)
(* when it gets to it, descriptor by descriptor, and posts a message.      *)
(* Nothing but one message register, one flag and the control byte of the  *)
(* first descriptor tells an answer from another, and the driver never     *)
(* looks whether the pointer still shows a list.                           *)
(*                                                                         *)
(* Left out as data: the toggle bit of the lists, data_size, which is 8    *)
(* once set up, and keycode_base, which drives a display.  Each count of   *)
(* tries is one place with two ways out: the keyboard is there in time, or *)
(* it is not.                                                              *)
(***************************************************************************)
EXTENDS Integers, FiniteSets

CONSTANTS
  Keys,      \* keys a player may hold down
  Settings   \* the conditions that are considered; one of them holds for a behaviour:
             \*   paced    the chip is slower than the driver's code and faster than its sleeps
             \*   retries  a transfer of keyboard_init may succeed only after a retry, or fail
             \*   stray    the chip answers the list it finds at 0x0576
             \*   pullAt   where the driver may be when the keyboard is pulled out ...
             \*   putAt    ... and when it is put in

NO_KEY   == 0
\* The word that the list of UsbGetReportDesc leaves at 0x051e.
LEFTOVER == 1312

ASSUME KeyboardAssumption ==
  /\ Keys \subseteq 1 .. 255
  /\ \A s \in Settings : {s.paced, s.retries, s.stray} \subseteq BOOLEAN

\* The requests of keyboard_init in their order: UsbSetAddress is 1, then
\* UsbGetDeviceDesc1, UsbGetDeviceDesc2, UsbGetConfigDesc1, UsbGetConfigDesc2,
\* UsbSetConfig, UsbClassRequest, UsbGetHidDesc and UsbGetReportDesc.
Requests == 1 .. 9
POLL     == 0     \* the list of get_keycode
MIXED    == -1    \* words of two lists

VARIABLES
  setting,   \* the conditions of this behaviour
  at,        \* where the driver is
  step,      \* the request it is at, POLL in get_keycode
  got,       \* the message UsbWaitTDListDone has read
  keycode,   \* get_keycode's keycode
  key,       \* what main got last
  again,     \* the list being written has been sent before
  list,      \* whose words are at 0x0500
  pending,   \* what the chip's pointer shows: the list at 0x0500, its rest, 0x0576, or nothing
  control,   \* the byte at 0x0508: the control byte of the first descriptor
  word,      \* the word at 0x051e, where reports arrive
  msg, flag, \* HPI_SIE1_MSG_ADR and HPI_STATUS_SIE1msg_FLAG
  plugged, addressed, \* the keyboard is there; it answers to its address
  held, told,         \* the key that is down, and in the last report the keyboard gave
  acked, mixed, age   \* history: see below

driver   == <<at, step, again, got, keycode, key>>
memory   == <<list, pending, control, word>>
chip     == <<memory, msg, flag>>
keyboard == <<plugged, addressed, held, told>>
history  == <<acked, mixed, age>>
parts    == <<driver, chip, keyboard, history>>
vars     == <<setting, parts>>

\* Since the chip was reset, acked: the requests whose SETUP packet went through
\* without a retry; mixed: a list was executed while it was half written, and
\* acked is not kept any longer.
\* age: the messages that get_keycode has taken since the key that word says
\* was last down, or a transfer failed; OLD of them or more.
OLD   == 3
Words == Keys \cup {NO_KEY, LEFTOVER}

Shown == {"none", "list", "rest", "stray"}

Places == {"reset", "boot", "look", "absent", "send", "words", "pointer", "flag", "resend",
           "sleep", "read", "clear", "check", "retry", "retryclear", "retrywait", "retryread",
           "stray", "main", "pause", "fetch", "status", "tries", "gone"}

-----------------------------------------------------------------------------
(* The chip and the keyboard.                                              *)

\* A paced chip executes lists only while the driver sleeps or waits,
\* and has ended before a sleep has.
Pauses == {"sleep", "pause", "read", "retry", "retrywait", "retryread"}
ChipsTurn == setting.paced => at \in Pauses

\* There is one message at a time: a later one takes its place.
Post(m) == msg' = m /\ flag' = TRUE

\* The keyboard answers SetAddress as a new device, all else at its address.
Answers(r) == plugged /\ (r = 1 <=> ~addressed)

\* The first descriptor of a request, its SETUP packet; one whose control byte
\* says that it is done is passed over, or taken again.
ExecuteSetup ==
  /\ pending = "list" /\ list \in Requests /\ ChipsTurn
  /\ \/ /\ Answers(list)
        /\ control' = "clean" /\ acked' = IF mixed THEN {} ELSE acked \cup {list}
     \/ /\ Answers(list) => setting.retries
        /\ control' = "retried" /\ UNCHANGED acked
     \/ /\ control # "active"
        /\ UNCHANGED <<control, acked>>
  /\ pending' = "rest"
  /\ UNCHANGED <<driver, list, word, msg, flag, keyboard, mixed, age>>

\* The data and the status of a request, which have control bytes of their own
\* that the driver does not read.  SetAddress takes effect with its status.
ExecuteRest ==
  /\ pending = "rest" /\ ChipsTurn
  /\ \/ list = 1 /\ Answers(1) /\ addressed' = TRUE
     \/ (list = 1 /\ Answers(1) => setting.retries) /\ UNCHANGED addressed
  /\ pending' = "none" /\ Post("done")
  /\ UNCHANGED <<driver, list, control, word, plugged, held, told, history>>

\* The keyboard gives a report when it has news, and a NAK, which leaves
\* the last report where it is, when it has none.
Report ==
  /\ Answers(POLL)
  /\ word' = (IF held # told THEN held ELSE word) /\ told' = held
  /\ age' = IF word' = held THEN 0 ELSE age

\* A transfer that fails leaves the last report where it is, and the driver
\* does not look whether one failed.
ExecutePoll ==
  /\ pending = "list" /\ list = POLL /\ ChipsTurn
  /\ \/ Report /\ control' = "clean"
     \/ /\ Answers(POLL) => setting.retries
        /\ control' = "retried" /\ age' = 0
        /\ UNCHANGED <<word, told>>
     \/ /\ control # "active"
        /\ UNCHANGED <<control, word, told, age>>
  /\ pending' = "none" /\ Post("done")
  /\ UNCHANGED <<driver, list, plugged, addressed, held, acked, mixed>>

\* A list that is half written: the first descriptor may be taken or not, before
\* or after the driver writes its control byte, and be another request's.
ExecuteMixed ==
  /\ pending = "list" /\ list = MIXED /\ ChipsTurn
  /\ control' \in {"active", "clean", "retried"}
  /\ mixed' = TRUE /\ acked' = {}
  /\ addressed' \in {addressed, addressed \/ (plugged /\ step = 2)}
  /\ \/ step = POLL /\ Report
     \/ UNCHANGED <<word, told, age>>
  /\ pending' = "rest"
  /\ UNCHANGED <<driver, list, msg, flag, plugged, held>>

\* The words at 0x0576 are a piece of a descriptor and no active transfer.
ExecuteStray ==
  /\ pending = "stray" /\ ChipsTurn
  /\ pending' = "none"
  /\ IF setting.stray THEN Post("done") ELSE UNCHANGED <<msg, flag>>
  /\ UNCHANGED <<driver, list, control, word, keyboard, history>>

Execute == ExecuteSetup \/ ExecuteRest \/ ExecutePoll \/ ExecuteMixed \/ ExecuteStray

\* The chip posts HUSB_ARMV and HUSB_AINS in the same register.
Pull ==
  /\ plugged /\ at \in setting.pullAt
  /\ plugged' = FALSE /\ addressed' = FALSE
  /\ Post("other")
  /\ UNCHANGED <<driver, memory, held, told, history>>

Put ==
  /\ ~plugged /\ at \in setting.putAt
  /\ plugged' = TRUE /\ told' = NO_KEY
  /\ Post("other")
  /\ UNCHANGED <<driver, memory, addressed, held, history>>

Press(k) ==
  /\ held # k /\ held' = k
  /\ age' = IF k = word THEN 0 ELSE age
  /\ UNCHANGED <<driver, chip, plugged, addressed, told, acked, mixed>>

-----------------------------------------------------------------------------
(* The driver: a list is sent until there is a message, then the message   *)
(* is awaited.                                                             *)

\* What the list of a request leaves at 0x051e.
Overwritten(r) == CASE r = POLL -> word
                    [] r \in {1, 6, 7} -> 0
                    [] OTHER -> LEFTOVER

\* UsbSetAddress ... UsbGetReportDesc, and the lists of get_keycode: the words,
\* the control byte 0x13 among the first of them, then the pointer.  What the
\* pointer shows may be executed in between.
Begin ==
  /\ at' = "words"
  /\ list' = (IF list = step THEN list ELSE MIXED) /\ control' = "active"
  /\ UNCHANGED <<step, got, keycode, key, pending, word, msg, flag, keyboard, history>>

Finish ==
  /\ at = "words" /\ at' = "pointer"
  /\ list' = step /\ word' = Overwritten(step)
  /\ age' = IF step = POLL THEN age ELSE 0
  /\ UNCHANGED <<step, again, got, keycode, key, pending, control, msg, flag, keyboard,
                 acked, mixed>>

\* A pointer that the chip is moving along a list may be lost.
Pointed(p) == {p} \cup ({pending} \cap {"rest"})

\* Only UsbGetConfigDesc2 is given time before the first look at the flag, and
\* every list that is sent again.
Point ==
  /\ at = "pointer" /\ pending' \in Pointed("list")
  /\ at' = (IF again \/ step = 5 THEN "sleep" ELSE "flag") /\ again' = FALSE
  /\ UNCHANGED <<step, got, keycode, key, list, control, word, msg, flag, keyboard, history>>

Send   == at = "send" /\ Begin /\ again' = FALSE
Resend == at = "resend" /\ Begin /\ again' = TRUE

TestFlag ==
  /\ at = "flag" /\ at' = IF flag THEN "read" ELSE "resend"
  /\ UNCHANGED <<step, again, got, keycode, key, chip, keyboard, history>>

Wake ==
  /\ at = "sleep" /\ (setting.paced => pending = "none")
  /\ at' = "flag"
  /\ UNCHANGED <<step, again, got, keycode, key, chip, keyboard, history>>

\* UsbWaitTDListDone: a read of the message, which clears the flag, and a
\* write of 0.  What the chip posts between the two is lost.
Received_late == "none"
Received == msg

ReadMessage ==
  /\ at = "read" /\ got' = Received /\ flag' = FALSE
  /\ at' = "clear"
  /\ UNCHANGED <<step, again, keycode, key, memory, msg, keyboard, history>>

\* A slip: any message ends the wait.
Ends_any(m) == m # "none"
Ends(m) == m = "done"

ClearMessage ==
  /\ at = "clear" /\ msg' = "none" /\ got' = "none"
  /\ at' = (IF ~Ends(got) THEN "read" ELSE IF step = POLL THEN "fetch" ELSE "check")
  /\ age' = IF ~Ends(got) \/ step # POLL THEN age
            ELSE IF word = held THEN 0 ELSE IF age = OLD THEN OLD ELSE age + 1
  /\ UNCHANGED <<step, again, keycode, key, memory, flag, keyboard, acked, mixed>>


-----------------------------------------------------------------------------
(* keyboard_init.                                                          *)

\* IO_init or UsbSoftReset, the setting up of the registers and the reset of
\* the bus: the keyboard forgets its address.
Reset ==
  /\ at = "reset" /\ at' = "boot"
  /\ pending' = "none" /\ msg' = "none" /\ flag' = FALSE
  /\ addressed' = FALSE /\ told' = NO_KEY
  /\ acked' = {} /\ mixed' = FALSE /\ age' = 0
  /\ UNCHANGED <<step, again, got, keycode, key, list, control, word, plugged, held>>

\* The two interrupts answered by COMM_ACK, or by something else.  The reset
\* of the bus may make the chip announce the keyboard.
Acknowledged ==
  /\ at = "boot" /\ at' = "look"
  /\ \/ UNCHANGED <<msg, flag>>
     \/ plugged /\ Post("other")
  /\ UNCHANGED <<step, again, got, keycode, key, memory, keyboard, history>>
NotAcknowledged ==
  /\ at = "boot" /\ at' = "reset"
  /\ UNCHANGED <<step, again, got, keycode, key, chip, keyboard, history>>

\* The first look at the keyboard and five more; "look" is any of them.
LookFinds ==
  /\ at = "look" /\ plugged
  /\ at' = "send" /\ step' = 1
  /\ UNCHANGED <<again, got, keycode, key, chip, keyboard, history>>
LookFails ==
  /\ at = "look" /\ ~plugged /\ at' = "absent"
  /\ UNCHANGED <<step, again, got, keycode, key, chip, keyboard, history>>
AbsentFinds ==
  /\ at = "absent" /\ plugged /\ at' = "reset"
  /\ UNCHANGED <<step, again, got, keycode, key, chip, keyboard, history>>

\* The next request; what keyboard_init returns to is main or the end of the
\* get_keycode that called it, whose keycode it does not change.
Last == 9

\* keycode is get_keycode's own.
Returned == key' = keycode /\ keycode' = NO_KEY

Onward ==
  IF step = Last
  THEN at' = "main" /\ step' = POLL /\ Returned
  ELSE at' = (IF step = 5 THEN "stray" ELSE "send") /\ step' = step + 1 /\ UNCHANGED <<keycode, key>>

\* Between UsbGetConfigDesc2 and UsbSetConfig the pointer is set to 0x0576.
PointStray ==
  /\ at = "stray" /\ at' = "send"
  /\ pending' \in Pointed("stray")
  /\ UNCHANGED <<step, again, got, keycode, key, list, control, word, msg, flag, keyboard, history>>

\* A slip: no look at the control byte.
Processed_any(c) == TRUE
Processed(c) == c = "clean"

Check ==
  /\ at = "check"
  /\ IF Processed(control) THEN Onward
     ELSE at' = "retry" /\ UNCHANGED <<step, keycode, key>>
  /\ UNCHANGED <<again, got, chip, keyboard, history>>

\* UsbGetRetryCnt: HPI_STATUS, the message, perhaps a wait for one more, the
\* control byte.
RetryMessage ==
  /\ at = "retry" /\ flag' = FALSE
  /\ at' = IF msg = "done" THEN "retryclear" ELSE "retryread"
  /\ UNCHANGED <<step, again, got, keycode, key, memory, msg, keyboard, history>>
RetryClear ==
  /\ at = "retryclear" /\ msg' = "none" /\ at' = "retrywait"
  /\ UNCHANGED <<step, again, got, keycode, key, memory, flag, keyboard, history>>
RetryWait ==
  /\ at = "retrywait" /\ flag /\ at' = "retryread"
  /\ UNCHANGED <<step, again, got, keycode, key, chip, keyboard, history>>

\* After UsbSetAddress everything begins again; else it is asked again.
RetryRead ==
  /\ at = "retryread"
  /\ CASE step = 1 -> at' = "reset" /\ UNCHANGED <<step, keycode, key>>
       [] step # 1 /\ Processed(control) -> Onward
       [] OTHER -> at' = "retry" /\ UNCHANGED <<step, keycode, key>>
  /\ UNCHANGED <<again, got, chip, keyboard, history>>

-----------------------------------------------------------------------------
(* get_keycode.                                                            *)

\* main calls; get_keycode sleeps, and sends its list.
Call ==
  /\ at = "main" /\ at' = "pause"
  /\ UNCHANGED <<step, again, got, keycode, key, chip, keyboard, history>>
CallWakes ==
  /\ at = "pause" /\ (setting.paced => pending = "none")
  /\ Begin /\ again' = FALSE

Fetch ==
  /\ at = "fetch" /\ keycode' = word /\ at' = "status"
  /\ UNCHANGED <<step, again, got, key, chip, keyboard, history>>

\* "status" is the first look at the keyboard, "tries" any of seven more.
Return ==
  /\ at \in {"status", "tries"} /\ plugged
  /\ Returned /\ at' = "main"
  /\ UNCHANGED <<step, again, got, chip, keyboard, history>>
StatusFails ==
  /\ at = "status" /\ ~plugged /\ at' = "tries"
  /\ UNCHANGED <<step, again, got, keycode, key, chip, keyboard, history>>
TriesFail ==
  /\ at = "tries" /\ ~plugged /\ at' = "gone"
  /\ UNCHANGED <<step, again, got, keycode, key, chip, keyboard, history>>

\* A slip: the keyboard that is put in is not set up again.
Reinserted_as_is == "main"
Reinserted == "reset"

GoneFinds ==
  /\ at = "gone" /\ plugged /\ at' = Reinserted
  /\ UNCHANGED <<step, again, got, keycode, key, chip, keyboard, history>>

-----------------------------------------------------------------------------
Init ==
  /\ setting \in Settings
  /\ at = "reset" /\ step = POLL /\ again = FALSE /\ got = "none"
  /\ keycode = NO_KEY /\ key = NO_KEY
  /\ list = MIXED /\ pending = "none" /\ control = "retried" /\ word = 0
  /\ msg = "none" /\ flag = FALSE
  /\ plugged \in BOOLEAN /\ addressed = FALSE
  /\ held = NO_KEY /\ told = NO_KEY
  /\ acked = {} /\ mixed = FALSE /\ age = 0

Driver ==
  \/ Send \/ Finish \/ Point \/ TestFlag \/ Resend \/ Wake \/ ReadMessage \/ ClearMessage
  \/ Reset \/ Acknowledged \/ LookFinds \/ LookFails \/ AbsentFinds
  \/ Check \/ PointStray \/ RetryMessage \/ RetryClear \/ RetryWait \/ RetryRead
  \/ Call \/ CallWakes \/ Fetch \/ Return \/ StatusFails \/ TriesFail \/ GoneFinds

Next ==
  /\ \/ Driver \/ NotAcknowledged
     \/ Execute \/ Pull \/ Put \/ \E k \in Keys \cup {NO_KEY} : Press(k)
  /\ UNCHANGED setting

\* The processor and the chip run, each by itself; a chip that is reset again
\* and again acknowledges in the end.  Nothing is assumed about the player.
Spec == Init /\ [][Next]_vars
             /\ WF_parts(Driver) /\ SF_parts(Acknowledged) /\ SF_parts(Execute)

-----------------------------------------------------------------------------
(* Properties.                                                             *)

\* Every variable keeps to its range: the requests come in their order and
\* end, and the word at 0x051e is a report or a piece of a list.
TypeOK ==
  /\ at \in Places /\ step \in Requests \cup {POLL}
  /\ got \in {"none", "done", "other"} /\ msg \in {"none", "done", "other"}
  /\ {keycode, key, word} \subseteq Words
  /\ list \in Requests \cup {POLL, MIXED} /\ pending \in Shown
  /\ control \in {"active", "clean", "retried"}
  /\ {again, flag, plugged, addressed, mixed} \subseteq BOOLEAN
  /\ {held, told} \subseteq Keys \cup {NO_KEY}
  /\ acked \subseteq Requests /\ age \in 0 .. OLD

\* The key that get_keycode takes was down at some time since the last call but
\* one took its message, whatever was sent twice, passed over, answered late or
\* announced in between; or no report has come since the keyboard was set up,
\* or a transfer has failed in that time.
Fresh == at = "fetch" => word = LEFTOVER \/ age < OLD

\* No report is asked for before the SETUP packet of every request of
\* keyboard_init has gone through, in this setting-up and without a retry,
\* although an old message can end the wait for any of them; unless the chip
\* has executed a list that was half written.
SetUpFirst == pending = "list" /\ list = POLL /\ ~mixed => acked = Requests

\* A chip that needs a frame for a list and no retry, and a player who pulls
\* the keyboard out between two calls at most and puts it in at rest.
Calm == setting.paced /\ ~setting.retries /\ ~setting.stray

\* With a keyboard that stays plugged in get_keycode returns again and again,
\* also to a player who has pulled it out between two calls.
PollsReturn == Calm /\ <>[]plugged => []<>(at = "main")

\* A key that is held for good becomes what main gets, and stays it; a word
\* of the last list stands for no key until the first report.
Followed ==
  \A k \in Keys \cup {NO_KEY} :
    Calm /\ <>[](plugged /\ held = k) => <>[](key = k \/ (k = NO_KEY /\ key = LEFTOVER))

\* What the comments of keyboard_init say of each request: it is called again
\* if it was not processed successfully.
CalledAgain ==
  \A r \in Requests :
    at = "check" /\ step = r /\ control = "retried"
      ~> (at = "words" /\ step = r) \/ at = "reset"

\* What usb.h says of UsbWaitTDListDone, "check and wait until HUSB_TDListDone is
\* read": the message that it waits for is read in the end.
WaitEnds == at = "read" ~> at \in {"fetch", "check"}
=============================================================================
