---------------------------------- MODULE WinIo ----------------------------------
(***************************************************************************)
(* Pin access in the Windows driver: langfordIo and langfordPowerPeriph    *)
(* (langford.c) and the ioctl handler of langford_io.c.  The registers and *)
(* fields are those of Pins without PIO6 and PIO7.  An argument is         *)
(* unsigned, so no negative one passes the range check; and the ioctl      *)
(* queue is sequential, so that one set is never inside another.           *)
(***************************************************************************)
EXTENDS Pins, SequencesExt

CONSTANT CtlCalls      \* the ioctl requests programs make

VARIABLES
    words,     \* the words of the PIO registers
    lastset    \* history, per field: <<>> or the last value set in it

pinVars == <<words, lastset>>

WinLayout == {f \in Layout : f.reg \notin {"PIO6", "PIO7"}}
WinRegisters == {f.reg : f \in WinLayout}
WinNames == {f.name : f \in WinLayout}

\* An ioctl request: the command, whether its buffer holds a ULONG, and the value.
ASSUME WinIoAssumption ==
    CtlCalls \subseteq [op : {"GET", "SET"}, name : WinNames, sized : BOOLEAN, arg : SUBSET Bits]

\* Mutant: the argument is compared as a signed number.
WinAccepted_Signed(f, arg) ==
    f.width = WordBits \/ arg \subseteq 0 .. f.width - 1 \/ WordBits - 1 \in arg

WinAccepted(f, arg) == f.width = WordBits \/ arg \subseteq 0 .. f.width - 1

\* langfordIo of a SET: nothing, or one field of one register.
langfordIo(ws, name, arg) ==
    LET f == Field(name)
    IN IF Settable(f) /\ WinAccepted(f, arg)
       THEN [ws EXCEPT ![f.reg] = SetField(@, f, arg)] ELSE ws

\* Eleven sets of one bit each, which langfordIo accepts.
langfordPowerPeriph(ws, on) ==
    LET State == IF on THEN {0} ELSE {}
        nState == IF on THEN {} ELSE {0}
        sets == {<<Field("ADCAPD"), nState>>, <<Field("ADCBPD"), nState>>,
                 <<Field("DACReset"), {0}>>, <<Field("DACSClk"), nState>>,
                 <<Field("DACSDIO"), nState>>, <<Field("DACCSB"), nState>>,
                 <<Field("DACSDO"), nState>>, <<Field("RxDspEn"), State>>,
                 <<Field("TxDspEn"), State>>, <<Field("RxIsSigned"), nState>>,
                 <<Field("TxIsSigned"), nState>>}
    IN [r \in WinRegisters |-> SetFields(ws[r], {set \in sets : set[1].reg = r})]

\* What a user may set: a value that fits a field that is an output.
InRange(name, arg) ==
    \E f \in WinLayout : f.name = name /\ Settable(f) /\ \A b \in arg : b < f.width

PinsInit ==
    /\ words = [r \in WinRegisters |-> {}]
    /\ lastset = [n \in WinNames |-> <<>>]

\* The history of a power-down: its eleven pins were set.
PoweredDown(last) ==
    [n \in WinNames |->
        CASE n \in {"ADCAPD", "ADCBPD", "DACReset", "DACSClk", "DACSDIO", "DACCSB", "DACSDO",
                    "RxIsSigned", "TxIsSigned"} -> <<{0}>>
          [] n \in {"RxDspEn", "TxDspEn"} -> <<{}>>
          [] OTHER -> last[n]]

PowerDown ==
    /\ words' = langfordPowerPeriph(words, FALSE)
    /\ lastset' = PoweredDown(lastset)

\* langfordEvtIoDeviceControl, for a command the driver knows: a buffer of another
\* size is refused, a GET changes nothing, a SET goes to langfordIo.
langfordEvtIoDeviceControl ==
    \E c \in CtlCalls :
        IF c.op = "SET" /\ c.sized
        THEN /\ words' = langfordIo(words, c.name, c.arg)
             /\ lastset' = IF InRange(c.name, c.arg)
                           THEN [lastset EXCEPT ![c.name] = <<c.arg>>] ELSE lastset
        ELSE UNCHANGED pinVars
===============================================================================
