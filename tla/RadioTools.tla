------------------------------- MODULE RadioTools -------------------------------
(***************************************************************************)
(* The programs fsynth (libs/fsynth.cpp, with adf4351_regs.hpp) and lmh6521 *)
(* (libs/lmh6521.cpp): from the arguments of a run to what the chips hold  *)
(* when it has ended.  One program runs at a time; each of its writes (a   *)
(* WriteReg or SetDDCFreq, PinBus has their inside) may fail.              *)
(*                                                                         *)
(* The chips are external.  A word carries its register's number; the      *)
(* ADF4351 takes registers 1 and 4 into effect with register 0, as         *)
(* adf4350_sync_config takes them to (libs/reference/adf4350.c), and its   *)
(* registers are laid out as adf4350.h has them.                           *)
(***************************************************************************)
EXTENDS Adf4351, Sequences

CONSTANTS
    Freqs,       \* the frequencies asked for, in kHz; 0 is to power down
    Gains,       \* the gains asked for, in quarters of a dB
    Options,     \* the optional arguments of fsynth, <<OUTPUT, NOISE MODE>>, "" if not given
    IntRange,    \* 2^32 Hz in kHz, less its fraction: the frequency that int() takes for 0
    PhaseSteps,  \* 0xffffffff in the code: phase steps of a turn
    MaxRuns,     \* bound: how many programs are started
    MaxFails     \* bound: how many writes fail

ASSUME RadioToolsAssumption ==
    /\ Freqs \subseteq Nat /\ Gains \subseteq Int
    /\ IntRange \in Nat \ {0} /\ PhaseSteps \in Nat \ {0} /\ MaxRuns \in Nat /\ MaxFails \in Nat

VARIABLES
    todo,    \* the writes the running program still has to make
    rc,      \* a write of it has failed
    job,     \* the arguments it was started with
    synth,   \* per channel: the words of the registers 0 to 5
    active,  \* per channel: the words in effect
    ddc,     \* per channel: the phase and direction of the digital down-converter
    vga,     \* per channel of the LMH6521: the word it holds
    asked,   \* history, per channel of either chip: <<>>, or the last arguments
             \* if the program that had them returned 0
    runs,    \* how many programs were started
    fails    \* how many writes have failed

vars == <<todo, rc, job, synth, active, ddc, vga, asked, runs, fails>>

Channels == {"rx", "tx"}
VgaChannels == {"0", "1"}
Registers == 0 .. 5
Bits == 0 .. 31
NoJob == [tool |-> "none"]

\* 2 ^ b, for b from 0.
Power == <<1, 2, 4, 8, 16, 32, 64, 128, 256, 512, 1024, 2048, 4096, 8192, 16384, 32768>>
TwoTo(b) == IF b < 16 THEN Power[b + 1] ELSE 65536 * Power[b - 15]

BitsOf(value, width) == {b \in 0 .. width - 1 : (value \div TwoTo(b)) % 2 = 1}

\* A field of a word, of 16 bits at most.
ValueOf(word, shift, width) ==
    LET Part(b) == IF b < width /\ b + shift \in word THEN TwoTo(b) ELSE 0
    IN Part(0) + Part(1) + Part(2) + Part(3) + Part(4) + Part(5) + Part(6) + Part(7)
       + Part(8) + Part(9) + Part(10) + Part(11) + Part(12) + Part(13) + Part(14) + Part(15)
-------------------------------------------------------------------------------
(* The register object of fsynth *)

\* The enumerators of the fields that fsynth does not leave at 0.
Enum == [
    POWER_DOWN_ENABLED |-> 1, PD_POLARITY_POSITIVE |-> 1, CHARGE_PUMP_CURRENT_1_88MA |-> 5,
    REFERENCE_DIVIDE_BY_2_ENABLED |-> 1, MUXOUT_ANALOG_LD |-> 5,
    LOW_NOISE_AND_SPUR_LOW_NOISE |-> 0, LOW_NOISE_AND_SPUR_LOW_SPUR |-> 3,
    OUTPUT_POWER_5DBM |-> 3, RF_OUTPUT_ENABLE_ENABLED |-> 1, RF_DIVIDER_SELECT_DIV4 |-> 2,
    FEEDBACK_SELECT_FUNDAMENTAL |-> 1, LD_PIN_MODE_DLD |-> 1]

\* fsynth_t(), without the fields get_reg leaves out.
fsynth_t == [
    frac |-> 1, int |-> 71, mod |-> 26, phase |-> 1, presc |-> 0, reset |-> 0, cp3 |-> 0,
    power_down |-> 0, polarity |-> Enum.PD_POLARITY_POSITIVE, ldp |-> 0, ldf |-> 0,
    cp |-> Enum.CHARGE_PUMP_CURRENT_1_88MA, buffer |-> 0,
    r |-> 2, t |-> Enum.REFERENCE_DIVIDE_BY_2_ENABLED, d |-> 0,
    muxout |-> Enum.MUXOUT_ANALOG_LD, noise |-> Enum.LOW_NOISE_AND_SPUR_LOW_SPUR,
    clkdiv |-> 75, clkmode |-> 0, csr |-> 0,
    power |-> Enum.OUTPUT_POWER_5DBM, rf_out |-> Enum.RF_OUTPUT_ENABLE_ENABLED,
    aux_power |-> 0, aux_out |-> 0, aux_sel |-> 0, mute |-> 0, vco_off |-> 0, bs |-> 250,
    rfreg |-> Enum.RF_DIVIDER_SELECT_DIV4, feedback |-> Enum.FEEDBACK_SELECT_FUNDAMENTAL,
    fixed |-> 3, ld |-> Enum.LD_PIN_MODE_DLD]

\* get_reg: the fields of each register, with shift and width.
RegisterFields == <<
    {<<"frac", 3, 12>>, <<"int", 15, 16>>},
    {<<"mod", 3, 12>>, <<"phase", 15, 12>>, <<"presc", 27, 1>>},
    {<<"reset", 3, 1>>, <<"cp3", 4, 1>>, <<"power_down", 5, 1>>, <<"polarity", 6, 1>>,
     <<"ldp", 7, 1>>, <<"ldf", 8, 1>>, <<"cp", 9, 4>>, <<"buffer", 13, 1>>, <<"r", 14, 10>>,
     <<"t", 24, 1>>, <<"d", 25, 1>>, <<"muxout", 26, 3>>, <<"noise", 29, 2>>},
    {<<"clkdiv", 3, 12>>, <<"clkmode", 15, 2>>, <<"csr", 18, 1>>},
    {<<"power", 3, 2>>, <<"rf_out", 5, 1>>, <<"aux_power", 6, 2>>, <<"aux_out", 8, 1>>,
     <<"aux_sel", 9, 1>>, <<"mute", 10, 1>>, <<"vco_off", 11, 1>>, <<"bs", 12, 8>>,
     <<"rfreg", 20, 3>>, <<"feedback", 23, 1>>},
    {<<"fixed", 19, 2>>, <<"ld", 22, 2>>}>>

\* Mutant: no field is masked.
get_reg_Unmasked(o, i) ==
    BitsOf(i, 3) \cup UNION {{f[2] + b : b \in BitsOf(o[f[1]], 31)} : f \in RegisterFields[i + 1]}

get_reg(o, i) ==
    BitsOf(i, 3) \cup UNION {{f[2] + b : b \in BitsOf(o[f[1]], f[3])} : f \in RegisterFields[i + 1]}

\* band_select_clock_div is an int8_t.
Int8(v) == ((v + 128) % 256) - 128

\* The object of a run: int(TargetFreq) = 0 powers down and leaves the defaults.
PowersDown(freq) == freq % IntRange = 0
Plan == [t \in {f \in Freqs : f \in MinOut .. MaxOut} |-> set_freq(t)]
Object(freq, noise) ==
    LET o == [fsynth_t EXCEPT !.noise = noise]
    IN IF PowersDown(freq) THEN [o EXCEPT !.power_down = Enum.POWER_DOWN_ENABLED]
       ELSE [f \in DOMAIN o |-> CASE f = "bs" -> Int8(Plan[freq].bs)
                                  [] f \in DOMAIN Plan[freq] \ {"bs"} -> Plan[freq][f]
                                  [] OTHER -> o[f]]

Abs(n) == IF n < 0 THEN -n ELSE n
Turn(above, parts) == ((Abs(above) * PhaseSteps) \div RefIn) \div parts

\* SetDDCFreq.  The DSP's clock is that of the reference.  A power-down "returns" 1 Hz: with
\* a target of 2^32 Hz the phase is more than an int holds, which is undefined.
DdcSetting(freq) ==
    IF freq = 0 THEN [phase |-> 0, rev |-> TRUE]
    ELSE IF PowersDown(freq) THEN [phase |-> -1, rev |-> FALSE]
    ELSE [phase |-> Turn(Plan[freq].above, Plan[freq].parts), rev |-> Plan[freq].above > 0]
-------------------------------------------------------------------------------
(* The two programs *)

\* main's checks of the optional arguments, and the noise mode that results: with both
\* arguments OUTPUT is not looked at, and a NOISE MODE other than 0 needs OUTPUT "1".
OptionsFit(opt) ==
    IF opt[2] = "" THEN opt[1] \in {"", "0", "1", "2"} ELSE opt[2] = "0" \/ opt[1] = "1"
NoiseMode(opt) ==
    IF opt[2] \in {"", "0"} THEN Enum.LOW_NOISE_AND_SPUR_LOW_SPUR ELSE Enum.LOW_NOISE_AND_SPUR_LOW_NOISE

\* Mutant: the registers are written in ascending order.
RegisterOrder_Ascending == <<0, 1, 2, 3, 4, 5>>

RegisterOrder == <<5, 4, 3, 2, 1, 0>>

FsynthRuns ==
    [tool : {"fsynth"}, chan : Channels, freq : Freqs, opt : Options]
FsynthAccepts(j) == (j.freq = 0 \/ j.freq \in MinOut .. MaxOut) /\ OptionsFit(j.opt)
FsynthWrites(j) ==
    [k \in 1 .. 7 |->
        IF k <= 6 THEN [to |-> "synth", chan |-> j.chan,
                        word |-> get_reg(Object(j.freq, NoiseMode(j.opt)), RegisterOrder[k])]
        ELSE [to |-> "ddc", chan |-> j.chan, set |-> DdcSetting(j.freq)]]

\* Mutant: the gain is cut off to whole dB.
set_gain_WholeDb(g) == IF g <= 0 THEN 0 ELSE g \div 4

\* The gain in steps of half a dB: the second assignment replaces the first.
set_gain(g) == IF g >= 126 THEN 63 ELSE g \div 2

LmhRuns == [tool : {"lmh6521"}, chan : VgaChannels, gain : Gains]
LmhAccepts(j) == j.gain \in 0 .. 126

\* get_regs after set_gain: gain, enable, address and the write bit, which is 0.
LmhWrites(j) ==
    <<[to |-> "vga",
       word |-> {b + 1 : b \in BitsOf(set_gain(j.gain), 6)} \cup {7}
                \cup (IF j.chan = "1" THEN {8} ELSE {})]>>
-------------------------------------------------------------------------------
(* Running a program *)

Init ==
    /\ todo = <<>> /\ rc = FALSE /\ job = NoJob
    /\ synth = [c \in Channels |-> [i \in Registers |-> {}]] /\ active = synth
    /\ ddc = [c \in Channels |-> [phase |-> 0, rev |-> FALSE]]
    /\ vga = [v \in VgaChannels |-> {}]
    /\ asked = [c \in Channels \cup VgaChannels |-> <<>>]
    /\ runs = 0 /\ fails = 0

Idle == job = NoJob

\* A program whose arguments are refused returns 1 and writes nothing.
Start ==
    /\ Idle /\ runs < MaxRuns
    /\ runs' = runs + 1
    /\ rc' = FALSE
    /\ \/ \E j \in FsynthRuns :
            IF FsynthAccepts(j)
            THEN todo' = FsynthWrites(j) /\ job' = j /\ asked' = [asked EXCEPT ![j.chan] = <<>>]
            ELSE UNCHANGED <<todo, job, asked>>
       \/ \E j \in LmhRuns :
            IF LmhAccepts(j)
            THEN todo' = LmhWrites(j) /\ job' = j /\ asked' = [asked EXCEPT ![j.chan] = <<>>]
            ELSE UNCHANGED <<todo, job, asked>>
    /\ UNCHANGED <<synth, active, ddc, vga, fails>>

\* External: the ADF4351 takes a word.
SynthTakes(c, word) ==
    LET i == ValueOf(word, 0, 3)
        words == [synth[c] EXCEPT ![i] = word]
    IN /\ synth' = [synth EXCEPT ![c] = words]
       /\ active' = [active EXCEPT ![c] = [k \in Registers |->
                        IF k = i \/ i = 0 THEN IF k \in {1, 4} /\ i # 0 THEN @[k] ELSE words[k]
                                          ELSE @[k]]]

Write ==
    /\ todo # <<>>
    /\ LET w == Head(todo)
       IN CASE w.to = "synth" -> SynthTakes(w.chan, w.word) /\ UNCHANGED <<ddc, vga>>
            [] w.to = "ddc" -> ddc' = [ddc EXCEPT ![w.chan] = w.set] /\ UNCHANGED <<synth, active, vga>>
            [] w.to = "vga" -> /\ vga' = [vga EXCEPT ![IF 8 \in w.word THEN "1" ELSE "0"] = w.word]
                               /\ UNCHANGED <<synth, active, ddc>>
    /\ todo' = Tail(todo)
    /\ UNCHANGED <<rc, job, asked, runs, fails>>

\* open fails with -1, which "!DevFD" does not see: the calls on it fail, and the
\* program goes on with its next write.
WriteFails ==
    /\ todo # <<>> /\ fails < MaxFails
    /\ fails' = fails + 1
    /\ todo' = Tail(todo)
    /\ rc' = TRUE
    /\ UNCHANGED <<job, synth, active, ddc, vga, asked, runs>>

Return ==
    /\ ~Idle /\ todo = <<>>
    /\ job' = NoJob
    /\ asked' = [asked EXCEPT ![job.chan] = IF rc THEN <<>> ELSE <<job>>]
    /\ UNCHANGED <<todo, rc, synth, active, ddc, vga, runs, fails>>

Next == Start \/ Write \/ WriteFails \/ Return

Spec == Init /\ [][Next]_vars
-------------------------------------------------------------------------------
(* Correctness *)

\* What the chip of channel c reads in the words in effect, laid out as in adf4350.h.
Chip(c) ==
    LET In(i, shift, width) == ValueOf(active[c][i], shift, width)
    IN [frac |-> In(0, 3, 12), int |-> In(0, 15, 16), mod |-> In(1, 3, 12),
        presc |-> In(1, 27, 1), off |-> In(2, 5, 1), noise |-> In(2, 29, 2),
        div |-> In(2, 14, 10) * (1 + In(2, 24, 1)), ref |-> RefIn * (1 + In(2, 25, 1)),
        bs |-> In(4, 12, 8), rfdiv |-> TwoTo(In(4, 20, 3))]

\* How far the chip is above the target, in parts of div * mod * rfdiv.
AboveTarget(chip, freq) ==
    chip.frac * chip.ref - (freq * chip.rfdiv * chip.div - chip.int * chip.ref) * chip.mod

\* The channels whose last program returned 0 and was to tune.
Tuned == {c \in Channels : asked[c] # <<>> /\ asked[c][1].freq # 0}

\* What the integer divider leaves of a target is within half a channel step of the next
\* integer, so that FRAC is rounded up to MOD.
FractionIsOne(chip, freq) ==
    2 * (freq * chip.rfdiv * chip.div - chip.int * chip.ref) * chip.mod >= (2 * chip.mod - 1) * chip.ref

TypeOK ==
    /\ job = NoJob \/ job \in FsynthRuns \/ job \in LmhRuns
    /\ \A i \in DOMAIN todo : todo[i].to \in {"synth", "vga", "ddc"}
    /\ rc \in BOOLEAN /\ runs \in 0 .. MaxRuns /\ fails \in 0 .. MaxFails
    /\ synth \in [Channels -> [Registers -> SUBSET Bits]]
    /\ active \in [Channels -> [Registers -> SUBSET Bits]]
    /\ \A c \in Channels : ddc[c].phase \in -1 .. PhaseSteps - 1 /\ ddc[c].rev \in BOOLEAN
    /\ vga \in [VgaChannels -> SUBSET Bits]

\* fsynth.cpp:47-49: when fsynth has returned 0, the chip it was run for is powered if and
\* only if it was run with another frequency than 0, with the noise mode that was asked
\* for, and what it reads in the registers in effect gives that frequency to half a
\* channel step; whatever ran before, failed half-way or was run for the other chip.
ChipTuned ==
    \A c \in Channels : asked[c] # <<>> =>
        LET chip == Chip(c)
            j == asked[c][1]
        IN /\ chip.off = (IF j.freq = 0 THEN 1 ELSE 0)
           /\ j.opt[2] # "" => chip.noise = (IF j.opt[2] = "0" THEN 3 ELSE 0)
           /\ c \in Tuned =>
                /\ chip.mod > 0 /\ chip.div > 0
                /\ 2 * Abs(AboveTarget(chip, j.freq)) <= chip.ref

\* adf4351_regs.hpp:16-28, 376-427: what a tuned chip reads keeps the limits of the oscillator, the
\* phase detector, the band select clock and the integer divider (75 for the 8/9
\* prescaler), and FRAC is below MOD, which the chip asks for.  Not for the frequencies of
\* FractionIsOne: there the code loads FRAC = MOD.  What the prescaler allows the
\* oscillator is not among the limits: the code does not keep it.
ChipWithinLimits ==
    \A c \in Tuned :
        LET chip == Chip(c)
            freq == asked[c][1].freq
        IN /\ freq * chip.rfdiv \in MinVco .. MaxOut
           /\ chip.ref <= DesignPfd * chip.div
           /\ chip.ref <= MaxBandSelect * chip.div * chip.bs
           /\ chip.int >= (IF chip.presc = 1 THEN 75 ELSE 23)
           /\ chip.mod >= 2 /\ (chip.frac < chip.mod \/ FractionIsOne(chip, freq))

\* fsynth.cpp:125, "Compensate for the remaining frequency difference in DSP": the
\* down-converter turns by what the chip, as it reads its registers, is off, and the other
\* way when the chip is above the target.
DdcMakesUpResidue ==
    \A c \in Tuned :
        LET chip == Chip(c)
            above == AboveTarget(chip, asked[c][1].freq)
        IN ddc[c] = [phase |-> Turn(above, chip.div * chip.mod * chip.rfdiv), rev |-> above > 0]

\* lmh6521.cpp:36: when lmh6521 has returned 0, the amplifier's channel has the gain
\* that was asked for, to less than half a dB below; the other channel keeps its own.
GainsKept ==
    \A v \in VgaChannels : asked[v] # <<>> =>
        LET left == asked[v][1].gain - 2 * ValueOf(vga[v], 1, 6)
        IN 7 \in vga[v] /\ left \in {0, 1}

\* fsynth.cpp:47, "0 for power down": a chip that is powered down when fsynth has returned
\* 0 was run with frequency 0.
OnlyZeroPowersDown ==
    \A c \in Channels : asked[c] # <<>> /\ Chip(c).off = 1 => asked[c][1].freq = 0
===============================================================================
