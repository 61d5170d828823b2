------------------------------- MODULE MCHpi -------------------------------
EXTENDS Hpi

\* bound: cells for the longest list and its buffers, and what else is used
SomeCells == {2 * n : n \in 640 .. 735}
               \cup {HPI_MAILBOX, HPI_STATUS, HPI_SIE1_MSG_ADR, HUSB_SIE1_pCurrentTDPtr}

WriteCall(a, words) == [at |-> a, words |-> words]
ReadCall(a)         == [at |-> a, words |-> <<>>]

\* A list and its pointer, the flag, UsbWaitTDListDone and a look at what has come.
Sent(list, look) ==
  << WriteCall(LIST_START, list), WriteCall(HUSB_SIE1_pCurrentTDPtr, <<LIST_START>>),
     ReadCall(HPI_STATUS), ReadCall(HPI_SIE1_MSG_ADR), WriteCall(HPI_SIE1_MSG_ADR, <<0>>),
     ReadCall(look) >>

\* Between UsbGetConfigDesc2 and UsbSetConfig: half a descriptor, and its address.
Stray == << WriteCall(\h0576, <<\h073F, \h8105, \h0003, \h0008, \hAC0A>>),
            WriteCall(HUSB_SIE1_pCurrentTDPtr, <<\h0576>>), ReadCall(\h057C) >>

\* keyboard_init and two calls of get_keycode, with the accesses of a register
\* that are like others left out.
SetUpAndPoll ==
  << WriteCall(HPI_MAILBOX, <<\hFA50>>), ReadCall(HPI_MAILBOX), ReadCall(HPI_STATUS),
     ReadCall(HPI_SIE1_MSG_ADR), WriteCall(HPI_SIE1_MSG_ADR, <<0>>) >>
  \o Sent(UsbSetAddress, CONTROL) \o Sent(UsbGetDeviceDesc1, CONTROL)
  \o Sent(UsbGetDeviceDesc2, CONTROL) \o Sent(UsbGetConfigDesc1, CONTROL)
  \o Sent(UsbGetConfigDesc2, CONTROL) \o Stray \o Sent(UsbSetConfig, CONTROL)
  \o Sent(UsbClassRequest, CONTROL) \o Sent(UsbGetHidDesc, CONTROL)
  \o Sent(UsbGetReportDesc, CONTROL)
  \o Sent(PollList(8, 1), \h051E) \o Sent(PollList(8, 2), \h051E)

ASSUME Disciplined /\ ListsFirst
=============================================================================
