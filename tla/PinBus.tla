--------------------------------- MODULE PinBus ---------------------------------
(***************************************************************************)
(* Programs that set up the radio through ioctl calls on /dev/langford:    *)
(* langford_adc_util (LangordSpiWrite), fsynth (WriteReg, SetDDCFreq),     *)
(* lmh6521 (WriteReg) and langford_util.  Each opens the device, makes its *)
(* calls and closes it; the first open and the last close of the device    *)
(* run PowerPeriph, which sets pins of the same registers.                 *)
(*                                                                         *)
(* ioctl_helper holds no lock: a set is a readl and a writel, two steps,   *)
(* and sets of one register may overlap.  Nothing keeps two programs from  *)
(* writing to one chip at a time either.  Two history variables note where *)
(* that happened.  The chips watch the pins (external, after the order of  *)
(* edges the programs produce).                                            *)
(***************************************************************************)
EXTENDS Pins, FiniteSets, SequencesExt

CONSTANTS
    Progs,        \* programs that may run at a time
    Sessions,     \* what a program may be started for, see Script
    MaxSessions,  \* bound: how many programs are started
    MaxExposed    \* bound: with so many fields exposed, no more sets overlap

ASSUME PinBusAssumption ==
    IsFiniteSet(Progs) /\ MaxSessions \in Nat /\ MaxExposed \in Nat

VARIABLES
    pio,       \* the words of the PIO registers
    pc,     \* per program: where it is between open and close
    job,       \* per program: the session it runs
    todo,      \* per program: the sets still to make, <<field, argument>>
    seen,      \* per program: the word its current set has read
    OpenCtr,   \* DevPrivData->OpenCtr
    mutex,     \* the holders of cdev_open_close_mutex: none or one
    shift,     \* per chip: the bits clocked in since it was last selected
    latched,   \* per chip: the words it took over
    sent,      \* history, per chip: the words programs were started to send
    lastset,   \* history, per field: the last value set in it
    exposed,   \* history: fields that were not safe from other sets, see SetReads
    shared,    \* history: chips that two programs were started for at a time
    sessions   \* how many programs were started

driver == <<OpenCtr, mutex>>
pins == <<pio, shift, latched, lastset, exposed>>
started == <<job, sent, shared, sessions>>
vars == <<driver, pins, started, pc, todo, seen>>

Zero == {}
One == {0}
-------------------------------------------------------------------------------
(* What the programs do *)

\* The pins of a chip: the one whose rise ends a word, the clock and the data pin.
Wiring == [
    ADCA |-> [latch |-> Field("ADCAnCS"), clk |-> Field("ADCASClk"), data |-> Field("ADCASDIO")],
    ADCB |-> [latch |-> Field("ADCBnCS"), clk |-> Field("ADCBSClk"), data |-> Field("ADCBSDIO")],
    N7   |-> [latch |-> Field("N7CS"),    clk |-> Field("N7CLK"),    data |-> Field("N7SDI")],
    N61  |-> [latch |-> Field("N61LE"),   clk |-> Field("N61CLK"),   data |-> Field("N61DATA"), ce |-> Field("N61CE")],
    N62  |-> [latch |-> Field("N62LE"),   clk |-> Field("N62CLK"),   data |-> Field("N62DATA"), ce |-> Field("N62CE")]]
Chips == DOMAIN Wiring
PinsOf(c) == {Wiring[c].latch, Wiring[c].clk, Wiring[c].data}

\* Three sets for each bit of word w, most significant bit first.
EachBit(w, sets) ==
    [k \in 1 .. 3 * Len(w) |-> sets[w[(k - 1) \div 3 + 1]][((k - 1) % 3) + 1]]

LangordSpiWrite(c, w) ==
    <<<<c.latch, One>>, <<c.clk, Zero>>, <<c.latch, Zero>>>>
    \o EachBit(w, [bit \in {Zero, One} |-> <<<<c.data, bit>>, <<c.clk, One>>, <<c.clk, Zero>>>>])
    \o <<<<c.latch, One>>>>

\* Mutant: the clock rises before the data pin has the bit.
SynthWriteReg_ClockFirst(c, w) ==
    <<<<c.latch, Zero>>, <<c.ce, One>>>>
    \o EachBit(w, [bit \in {Zero, One} |-> <<<<c.clk, Zero>>, <<c.clk, One>>, <<c.data, bit>>>>])
    \o <<<<c.clk, Zero>>, <<c.data, Zero>>, <<c.latch, One>>, <<c.latch, Zero>>>>

SynthWriteReg(c, w) ==
    <<<<c.latch, Zero>>, <<c.ce, One>>>>
    \o EachBit(w, [bit \in {Zero, One} |-> <<<<c.clk, Zero>>, <<c.data, bit>>, <<c.clk, One>>>>])
    \o <<<<c.clk, Zero>>, <<c.data, Zero>>, <<c.latch, One>>, <<c.latch, Zero>>>>

VgaWriteReg(c, w) ==
    <<<<c.latch, Zero>>>>
    \o EachBit(w, [bit \in {Zero, One} |-> <<<<c.clk, Zero>>, <<c.data, bit>>, <<c.clk, One>>>>])
    \o <<<<c.clk, Zero>>, <<c.data, Zero>>, <<c.latch, One>>>>

SetDDCFreq(s) ==
    IF s.channel = "rx" THEN <<<<Field("RXPhase"), s.phase>>, <<Field("RXRevFreq"), s.rev>>>>
                        ELSE <<<<Field("TXPhase"), s.phase>>, <<Field("TXRevFreq"), s.rev>>>>

\* What the programs are for: a word for a chip, a frequency or one pin.
Words == Seq({Zero, One}) \ {<<>>}
ASSUME SessionsAssumption ==
    Sessions \subseteq
      [kind : {"adc"}, chip : {"ADCA", "ADCB"}, word : Words]
      \cup [kind : {"synth"}, chip : {"N61", "N62"}, word : Words]
      \cup [kind : {"vga"}, chip : {"N7"}, word : Words]
      \cup [kind : {"ddc"}, channel : {"rx", "tx"}, phase : SUBSET Bits, rev : {Zero, One}]
      \cup [kind : {"util"}, pin : {f.name : f \in Layout}, arg : SUBSET Bits]

\* The sets a session makes.
Script(s) ==
    CASE s.kind = "adc"   -> LangordSpiWrite(Wiring[s.chip], s.word)
      [] s.kind = "synth" -> SynthWriteReg(Wiring[s.chip], s.word)
      [] s.kind = "vga"   -> VgaWriteReg(Wiring[s.chip], s.word)
      [] s.kind = "ddc"   -> SetDDCFreq(s)
      [] OTHER            -> <<<<Field(s.pin), s.arg>>>>

PowerPeriph(on) ==
    LET State == IF on THEN One ELSE Zero
        nState == IF on THEN Zero ELSE One
    IN <<<<Field("ADCAPD"), nState>>, <<Field("ADCBPD"), nState>>, <<Field("DACReset"), One>>,
         <<Field("DACSClk"), nState>>, <<Field("DACSDIO"), nState>>, <<Field("DACCSB"), nState>>,
         <<Field("DACSDO"), nState>>, <<Field("RxDspEn"), State>>, <<Field("TxDspEn"), State>>,
         <<Field("RxIsSigned"), nState>>, <<Field("TxIsSigned"), nState>>>>

ChipOf(s) == {c \in Chips : s.kind \in {"adc", "synth", "vga"} /\ c = s.chip}
-------------------------------------------------------------------------------
(* Registers and chips *)

High(word, pin) == pin.off \in word
Rises(pin, old, new) == ~High(old, pin) /\ High(new, pin)

\* External: a chip takes a bit at a rising clock while its latch pin is low, and
\* takes the word over when the latch pin rises.
ChipSees(c, old, new, bits) ==
    LET w == Wiring[c]
    IN IF Rises(w.latch, old, new) THEN <<>>
       ELSE IF Rises(w.clk, old, new) /\ ~High(new, w.latch)
            THEN Append(bits, IF High(new, w.data) THEN One ELSE Zero)
            ELSE bits

ChipLatches(c, old, new, bits, words) ==
    IF Rises(Wiring[c].latch, old, new) /\ bits # <<>> THEN Append(words, bits) ELSE words

\* writel: the word of register r becomes new, and the chips on PIO1 see the edges.
WriteRegister(r, new) ==
    /\ pio' = [pio EXCEPT ![r] = new]
    /\ IF r = "PIO1"
       THEN /\ shift' = [c \in Chips |-> ChipSees(c, pio[r], new, shift[c])]
            /\ latched' = [c \in Chips |->
                             ChipLatches(c, pio[r], new, shift[c], latched[c])]
       ELSE UNCHANGED <<shift, latched>>

\* No set is between its readl and its writel.
NoRead == {WordBits}

\* The words after driver_probe's PowerPeriph(0) on pins that were all low or all high.
Init ==
    /\ \E all \in {{}, Bits} :
         pio = [r \in Registers |->
                  SetFields(all, {set \in ToSet(PowerPeriph(FALSE)) : set[1].reg = r})]
    /\ pc = [p \in Progs |-> "closed"]
    /\ job = [p \in Progs |-> [kind |-> "none"]]
    /\ todo = [p \in Progs |-> <<>>]
    /\ seen = [p \in Progs |-> NoRead]
    /\ OpenCtr = 0 /\ mutex = {}
    /\ shift = [c \in Chips |-> <<>>] /\ latched = [c \in Chips |-> <<>>]
    /\ sent = [c \in Chips |-> <<>>]
    /\ lastset = [f \in Layout |-> GetField(pio[f.reg], f)]
    /\ exposed = {} /\ shared = {}
    /\ sessions = 0
-------------------------------------------------------------------------------
(* cdev_open and cdev_release, as far as the pins are concerned *)

\* A program is started.
Start(p, s) ==
    /\ pc[p] = "closed" /\ sessions < MaxSessions
    /\ sessions' = sessions + 1
    /\ pc' = [pc EXCEPT ![p] = "opening"]
    /\ job' = [job EXCEPT ![p] = s]
    /\ sent' = [c \in Chips |-> IF c \in ChipOf(s) THEN Append(sent[c], s.word) ELSE sent[c]]
    /\ shared' = shared \cup {c \in ChipOf(s) : \E q \in Progs : pc[q] # "closed" /\ c \in ChipOf(job[q])}
    /\ UNCHANGED <<driver, pins, todo, seen>>

OpenFirst(p) ==
    /\ pc[p] = "opening" /\ mutex = {} /\ OpenCtr = 0
    /\ mutex' = {p}
    /\ pc' = [pc EXCEPT ![p] = "powers_on"]
    /\ todo' = [todo EXCEPT ![p] = PowerPeriph(TRUE)]
    /\ UNCHANGED <<OpenCtr, pins, started, seen>>

\* Mutant: the handle is not counted.
Opened_NotCounted(p) ==
    /\ mutex' = {}
    /\ pc' = [pc EXCEPT ![p] = "using"]
    /\ todo' = [todo EXCEPT ![p] = Script(job[p])]
    /\ UNCHANGED <<OpenCtr, pins, started, seen>>

\* The open returns, and the program makes its calls.
Opened(p) ==
    /\ OpenCtr' = OpenCtr + 1
    /\ mutex' = {}
    /\ pc' = [pc EXCEPT ![p] = "using"]
    /\ todo' = [todo EXCEPT ![p] = Script(job[p])]
    /\ UNCHANGED <<pins, started, seen>>

OpenAgain(p) ==
    /\ pc[p] = "opening" /\ mutex = {} /\ OpenCtr # 0
    /\ Opened(p)

PoweredOn(p) ==
    /\ pc[p] = "powers_on" /\ todo[p] = <<>>
    /\ Opened(p)

\* Mutant: every close powers the radio down.
CloseLast_Every(p) ==
    /\ pc[p] = "using" /\ todo[p] = <<>> /\ mutex = {}
    /\ mutex' = {p}
    /\ pc' = [pc EXCEPT ![p] = "powers_off"]
    /\ todo' = [todo EXCEPT ![p] = PowerPeriph(FALSE)]
    /\ UNCHANGED <<OpenCtr, pins, started, seen>>

\* The program closes the device: its last handle powers the radio down.
CloseLast(p) ==
    /\ pc[p] = "using" /\ todo[p] = <<>> /\ mutex = {} /\ OpenCtr <= 1
    /\ mutex' = {p}
    /\ pc' = [pc EXCEPT ![p] = "powers_off"]
    /\ todo' = [todo EXCEPT ![p] = PowerPeriph(FALSE)]
    /\ UNCHANGED <<OpenCtr, pins, started, seen>>

\* The release returns.
Closed(p) ==
    /\ OpenCtr' = OpenCtr - 1
    /\ mutex' = {}
    /\ pc' = [pc EXCEPT ![p] = "closed"]
    /\ UNCHANGED <<pins, started, todo, seen>>

CloseOther(p) ==
    /\ pc[p] = "using" /\ todo[p] = <<>> /\ mutex = {} /\ OpenCtr > 1
    /\ Closed(p)

PoweredOff(p) ==
    /\ pc[p] = "powers_off" /\ todo[p] = <<>>
    /\ Closed(p)
-------------------------------------------------------------------------------
(* ioctl_helper *)

Target(p) == todo[p][1][1]
Argument(p) == todo[p][1][2]

\* A command or an argument that is refused leaves the registers alone; cdev_ioctl
\* drops the error, so the program goes on.
SetRefused(p) ==
    /\ todo[p] # <<>> /\ seen[p] = NoRead
    /\ ~ (Settable(Target(p)) /\ Accepted(Target(p), Argument(p)))
    /\ todo' = [todo EXCEPT ![p] = Tail(@)]
    /\ UNCHANGED <<driver, pins, started, pc, seen>>

\* The programs between the readl and the writel of a set of register r.
Amid(r) == {q \in Progs : seen[q] # NoRead /\ Target(q).reg = r}

\* readl.  If others are amid a set of the register, one set may undo the other's.
SetReads(p) ==
    /\ todo[p] # <<>> /\ seen[p] = NoRead
    /\ Settable(Target(p)) /\ Accepted(Target(p), Argument(p))
    /\ seen' = [seen EXCEPT ![p] = pio[Target(p).reg]]
    /\ Amid(Target(p).reg) # {} => Cardinality(exposed) < MaxExposed
    /\ exposed' = exposed \cup UNION {{Target(p), Target(q)} : q \in Amid(Target(p).reg)}
    /\ UNCHANGED <<driver, started, pio, shift, latched, lastset, pc, todo>>

\* writel.  The fields the set reaches besides its own are not safe from it.
SetWrites(p) ==
    /\ seen[p] # NoRead
    /\ WriteRegister(Target(p).reg, SetField(seen[p], Target(p), Argument(p)))
    /\ lastset' = [lastset EXCEPT ![Target(p)] =
                     Argument(p) \cap (0 .. Target(p).width - 1)]
    /\ exposed' = exposed \cup Reached(Target(p), Argument(p))
    /\ seen' = [seen EXCEPT ![p] = NoRead]
    /\ todo' = [todo EXCEPT ![p] = Tail(@)]
    /\ UNCHANGED <<driver, started, pc>>
-------------------------------------------------------------------------------
Next ==
    \E p \in Progs :
        \/ \E s \in Sessions : Start(p, s)
        \/ OpenFirst(p) \/ OpenAgain(p) \/ PoweredOn(p)
        \/ SetRefused(p) \/ SetReads(p) \/ SetWrites(p)
        \/ CloseLast(p) \/ CloseOther(p) \/ PoweredOff(p)

Spec == Init /\ [][Next]_vars
-------------------------------------------------------------------------------
(* Correctness *)

TypeOK ==
    /\ pio \in [Registers -> SUBSET Bits]
    /\ pc \in [Progs -> {"closed", "opening", "powers_on", "using", "powers_off"}]
    /\ \A p \in Progs : seen[p] = NoRead \/ seen[p] \subseteq Bits
    /\ \A p \in Progs : todo[p] # <<>> => Target(p) \in Layout /\ Argument(p) \subseteq Bits
    /\ OpenCtr \in 0 .. Cardinality(Progs)
    /\ mutex \subseteq Progs /\ Cardinality(mutex) <= 1
    /\ exposed \subseteq Layout /\ shared \subseteq Chips
    /\ sessions \in 0 .. MaxSessions

\* langford.c:636 and its like, "1 bit write": a field holds what was last set in it,
\* whichever fields of its register and of others programs set before and after, and
\* between the readl and the writel of other sets.  A set is lost in two ways only: it
\* overlapped with a set of the same register, or a set reached over the bits of
\* another field (a negative argument, or the bit GPIOout and RxBaseband share); the
\* fields this happened to are exposed.
FieldsHoldLastSet ==
    \A f \in Layout \ exposed : GetField(pio[f.reg], f) = lastset[f]

\* langford_spi.cpp:15 and the two WriteReg: a chip takes over the words the programs were
\* started to send it, in that order and bit for bit, the last one no later than when
\* its program has ended, although other programs set the pins of other chips on the same
\* register between its edges; unless two programs wrote to the chip at a time or a
\* pin of the chip was exposed.
ChipsLatchWhatWasSent ==
    \A c \in Chips \ shared :
        PinsOf(c) \cap exposed = {} =>
          /\ IsPrefix(latched[c], sent[c])
          /\ latched[c] # sent[c] => \E p \in Progs : pc[p] # "closed" /\ c \in ChipOf(job[p])

\* The pins are as PowerPeriph(on) sets them, those apart that were exposed.
PeriphIs(on) ==
    \A set \in ToSet(PowerPeriph(on)) :
        set[1] \notin exposed => GetField(pio[set[1].reg], set[1]) = set[2]

\* langford.c:819-823, PowerPeriph in cdev_open and cdev_release: a program that makes
\* calls finds the radio powered, whichever programs open and close the device and
\* send words to its chips meanwhile, and once all have ended it is off; apart from
\* pins of PowerPeriph that a set reached over.
PeriphFollowsPrograms ==
    /\ (\E p \in Progs : pc[p] = "using") => PeriphIs(TRUE)
    /\ (\A p \in Progs : pc[p] = "closed") => PeriphIs(FALSE)
===============================================================================
