------------------------------ MODULE PinBusProofs ------------------------------
(***************************************************************************)
(* Theorems about PinBus, for any programs, sessions and arguments, with   *)
(* words of any length.                                                    *)
(*                                                                         *)
(* Ordered: what a program has still to set is the rest of its agenda,     *)
(* and OpenCtr counts the handles.  Kept adds that the sets under way have *)
(* read what the registers still hold, exposed fields apart.  On it rest   *)
(* Powered, how far PowerPeriph is, and Clocked, how far each chip is with *)
(* the word its program sends; they need langford_util to leave their pins *)
(* alone (PeriphLeftAlone, ChipsLeftAlone).                                *)
(***************************************************************************)
EXTENDS PinBus, PinsProofs, FiniteSetTheorems, SequenceTheorems

Sets == Layout \X SUBSET Bits
Level == {Zero, One}

\* All the pins of the wiring, and where they are.
WiredFields ==
    {FieldAt("ADCAnCS", "PIO1", 24, 1), FieldAt("ADCASClk", "PIO1", 22, 1), FieldAt("ADCASDIO", "PIO1", 23, 1),
     FieldAt("ADCBnCS", "PIO1", 29, 1), FieldAt("ADCBSClk", "PIO1", 27, 1), FieldAt("ADCBSDIO", "PIO1", 28, 1),
     FieldAt("N7CS", "PIO1", 13, 1), FieldAt("N7CLK", "PIO1", 12, 1), FieldAt("N7SDI", "PIO1", 14, 1),
     FieldAt("N61LE", "PIO1", 3, 1), FieldAt("N61CLK", "PIO1", 2, 1), FieldAt("N61DATA", "PIO1", 1, 1),
     FieldAt("N62LE", "PIO1", 7, 1), FieldAt("N62CLK", "PIO1", 6, 1), FieldAt("N62DATA", "PIO1", 5, 1),
     FieldAt("N61CE", "PIO1", 0, 1), FieldAt("N62CE", "PIO1", 4, 1)}

\* The sets of one of them; of those of a chip.
Wires == WiredFields \X Level
EnableFields == {Wiring["N61"].ce, Wiring["N62"].ce}
ChipWires(c) == (PinsOf(c) \cup EnableFields) \X Level

LEMMA WiredLaidOut == WiredFields \subseteq Layout
  BY SMTT(60) DEF WiredFields, Layout, FieldsFrom, FieldAt

LEMMA WiredAt ==
    ASSUME NEW f \in WiredFields
    PROVE  Field(f.name) = f /\ f \in Layout /\ f.reg = "PIO1" /\ f.width = 1
<1>1. f \in Layout
  BY WiredLaidOut
<1>2. f.reg = "PIO1" /\ f.width = 1
  BY SMT DEF WiredFields, FieldAt
<1> QED
  BY <1>1, <1>2, FieldOfName

LEMMA FieldsWired ==
    /\ Field("ADCAnCS") = FieldAt("ADCAnCS", "PIO1", 24, 1)
    /\ Field("ADCASClk") = FieldAt("ADCASClk", "PIO1", 22, 1)
    /\ Field("ADCASDIO") = FieldAt("ADCASDIO", "PIO1", 23, 1)
    /\ Field("ADCBnCS") = FieldAt("ADCBnCS", "PIO1", 29, 1)
    /\ Field("ADCBSClk") = FieldAt("ADCBSClk", "PIO1", 27, 1)
    /\ Field("ADCBSDIO") = FieldAt("ADCBSDIO", "PIO1", 28, 1)
    /\ Field("N7CS") = FieldAt("N7CS", "PIO1", 13, 1)
    /\ Field("N7CLK") = FieldAt("N7CLK", "PIO1", 12, 1)
    /\ Field("N7SDI") = FieldAt("N7SDI", "PIO1", 14, 1)
    /\ Field("N61LE") = FieldAt("N61LE", "PIO1", 3, 1)
    /\ Field("N61CLK") = FieldAt("N61CLK", "PIO1", 2, 1)
    /\ Field("N61DATA") = FieldAt("N61DATA", "PIO1", 1, 1)
    /\ Field("N62LE") = FieldAt("N62LE", "PIO1", 7, 1)
    /\ Field("N62CLK") = FieldAt("N62CLK", "PIO1", 6, 1)
    /\ Field("N62DATA") = FieldAt("N62DATA", "PIO1", 5, 1)
    /\ Field("N61CE") = FieldAt("N61CE", "PIO1", 0, 1)
    /\ Field("N62CE") = FieldAt("N62CE", "PIO1", 4, 1)
<1> DEFINE F(n) == Field(n)
<1>1. \A f \in WiredFields : F(f.name) = f
  BY WiredAt
<1> HIDE DEF F
<1>2. /\ F("ADCAnCS") = FieldAt("ADCAnCS", "PIO1", 24, 1)
      /\ F("ADCASClk") = FieldAt("ADCASClk", "PIO1", 22, 1)
      /\ F("ADCASDIO") = FieldAt("ADCASDIO", "PIO1", 23, 1)
      /\ F("ADCBnCS") = FieldAt("ADCBnCS", "PIO1", 29, 1)
      /\ F("ADCBSClk") = FieldAt("ADCBSClk", "PIO1", 27, 1)
      /\ F("ADCBSDIO") = FieldAt("ADCBSDIO", "PIO1", 28, 1)
      /\ F("N7CS") = FieldAt("N7CS", "PIO1", 13, 1)
      /\ F("N7CLK") = FieldAt("N7CLK", "PIO1", 12, 1)
      /\ F("N7SDI") = FieldAt("N7SDI", "PIO1", 14, 1)
      /\ F("N61LE") = FieldAt("N61LE", "PIO1", 3, 1)
      /\ F("N61CLK") = FieldAt("N61CLK", "PIO1", 2, 1)
      /\ F("N61DATA") = FieldAt("N61DATA", "PIO1", 1, 1)
      /\ F("N62LE") = FieldAt("N62LE", "PIO1", 7, 1)
      /\ F("N62CLK") = FieldAt("N62CLK", "PIO1", 6, 1)
      /\ F("N62DATA") = FieldAt("N62DATA", "PIO1", 5, 1)
      /\ F("N61CE") = FieldAt("N61CE", "PIO1", 0, 1)
      /\ F("N62CE") = FieldAt("N62CE", "PIO1", 4, 1)
  BY <1>1, SMTT(30) DEF WiredFields, FieldAt
<1> QED
  BY <1>2 DEF F

\* Each chip has pins of its own, on PIO1.
LEMMA Wired ==
    /\ Chips = {"ADCA", "ADCB", "N7", "N61", "N62"}
    /\ \A c \in Chips : PinsOf(c) \subseteq WiredFields
    /\ \A c \in Chips : /\ Wiring[c].latch # Wiring[c].clk
                        /\ Wiring[c].latch # Wiring[c].data
                        /\ Wiring[c].clk # Wiring[c].data
    /\ \A c, d \in Chips : c # d => PinsOf(c) \cap PinsOf(d) = {}
    /\ \A c \in {"N61", "N62"} : Wiring[c].ce \in WiredFields
    /\ \A c \in {"N61", "N62"}, d \in Chips : Wiring[c].ce \notin PinsOf(d)
<1> USE FieldsWired DEF Chips, PinsOf, Wiring, FieldAt
<1>1. Chips = {"ADCA", "ADCB", "N7", "N61", "N62"}
  OBVIOUS
<1>2. \A c \in Chips : PinsOf(c) \subseteq WiredFields
  BY SMTT(60) DEF WiredFields
<1>3. \A c \in Chips : /\ Wiring[c].latch # Wiring[c].clk
                       /\ Wiring[c].latch # Wiring[c].data
                       /\ Wiring[c].clk # Wiring[c].data
  BY SMTT(60)
<1>4. \A c, d \in Chips : c # d => PinsOf(c) \cap PinsOf(d) = {}
  BY SMTT(60)
<1>5. \A c \in {"N61", "N62"} : Wiring[c].ce \in WiredFields
  BY SMTT(60) DEF WiredFields
<1>6. \A c \in {"N61", "N62"}, d \in Chips : Wiring[c].ce \notin PinsOf(d)
  BY SMTT(60)
<1> QED
  BY <1>1, <1>2, <1>3, <1>4, <1>5, <1>6, Zenon

LEMMA WiredApartFromPeriph == \A c \in Chips : PinsOf(c) \cap PeriphFields = {}
<1>1. WiredFields \cap PeriphFields = {}
  BY SMTT(30) DEF WiredFields, PeriphFields, FieldAt
<1> QED
  BY <1>1, Wired
-------------------------------------------------------------------------------
(* The sets a session makes, one by one *)

LEMMA Levels == Zero # One /\ Level \subseteq SUBSET Bits /\ \A v \in Level : v \subseteq 0 .. 0
  BY DEF Level, Zero, One, Bits, WordBits

LEMMA LevelIsLow == \A v \in Level : v \cap (0 .. 0) = v
  BY Levels

LEMMA FunctionIsSeq ==
    ASSUME NEW S, NEW n \in Nat, NEW s \in [1 .. n -> S]
    PROVE  s \in Seq(S) /\ Len(s) = n
<1>1. Len(s) = n
  OBVIOUS
<1> QED
  BY <1>1

LEMMA Joined ==
    ASSUME NEW S, NEW s \in Seq(S), NEW t \in Seq(S)
    PROVE  /\ s \o t \in Seq(S) /\ Len(s \o t) = Len(s) + Len(t)
           /\ \A i \in 1 .. Len(s) : (s \o t)[i] = s[i]
           /\ \A i \in 1 .. Len(t) : (s \o t)[Len(s) + i] = t[i]
  OBVIOUS

\* The three sets of bit j + 1 of a word are at 3 * j + 1 to 3 * j + 3.
LEMMA EachBitIs ==
    ASSUME NEW S, NEW w \in Seq(Level), NEW sets \in [Level -> Seq(S)],
           \A bit \in Level : Len(sets[bit]) = 3
    PROVE  /\ EachBit(w, sets) \in Seq(S)
           /\ Len(EachBit(w, sets)) = 3 * Len(w)
           /\ \A j \in 0 .. Len(w) - 1 : \A r \in 1 .. 3 :
                EachBit(w, sets)[3 * j + r] = sets[w[j + 1]][r]
<1> DEFINE E == EachBit(w, sets)
<1>1. \A k \in 1 .. 3 * Len(w) : /\ (k - 1) \div 3 + 1 \in 1 .. Len(w)
                                 /\ ((k - 1) % 3) + 1 \in 1 .. 3
  <2>1. Len(w) \in Nat
    OBVIOUS
  <2> QED
    BY <2>1, SMT
<1>2. \A k \in 1 .. 3 * Len(w) : sets[w[(k - 1) \div 3 + 1]][((k - 1) % 3) + 1] \in S
  <2> SUFFICES ASSUME NEW k \in 1 .. 3 * Len(w)
               PROVE  sets[w[(k - 1) \div 3 + 1]][((k - 1) % 3) + 1] \in S
    OBVIOUS
  <2>1. \A i \in 1 .. Len(w) : \A r \in 1 .. 3 : sets[w[i]][r] \in S
    <3> TAKE i \in 1 .. Len(w), r \in 1 .. 3
    <3>1. w[i] \in Level
      OBVIOUS
    <3>2. sets[w[i]] \in Seq(S) /\ Len(sets[w[i]]) = 3
      BY <3>1
    <3> QED
      BY <3>2
  <2> QED
    BY <1>1, <2>1
<1>3. E \in Seq(S) /\ Len(E) = 3 * Len(w)
  <2>1. 3 * Len(w) \in Nat
    OBVIOUS
  <2>2. E \in [1 .. 3 * Len(w) -> S]
    BY <1>2 DEF EachBit
  <2> HIDE DEF E
  <2> QED
    BY <2>1, <2>2, FunctionIsSeq, SMTT(60)
<1>4. ASSUME NEW j \in 0 .. Len(w) - 1, NEW r \in 1 .. 3
      PROVE  E[3 * j + r] = sets[w[j + 1]][r]
  <2>1. j \in Nat /\ Len(w) \in Nat /\ j < Len(w)
    OBVIOUS
  <2>2. 3 * j + r \in 1 .. 3 * Len(w)
    BY <2>1
  <2>3. (3 * j + r - 1) \div 3 = j /\ (3 * j + r - 1) % 3 = r - 1
    <3>1. CASE r = 1
      BY <2>1, <3>1, SMT
    <3>2. CASE r = 2
      BY <2>1, <3>2, SMT
    <3>3. CASE r = 3
      BY <2>1, <3>3, SMT
    <3> QED
      BY <3>1, <3>2, <3>3
  <2>4. E[3 * j + r] = sets[w[(3 * j + r - 1) \div 3 + 1]][((3 * j + r - 1) % 3) + 1]
    BY <2>2 DEF EachBit
  <2> QED
    BY <2>1, <2>3, <2>4
<1> QED
  BY <1>3, <1>4

\* Prefix a, the sets of a word's bits, suffix z.
IsAround(all, a, w, sets, z) ==
    /\ Len(all) = Len(a) + 3 * Len(w) + Len(z)
    /\ \A i \in 1 .. Len(a) : all[i] = a[i]
    /\ \A j \in 0 .. Len(w) - 1 : \A r \in 1 .. 3 :
         all[Len(a) + 3 * j + r] = sets[w[j + 1]][r]
    /\ \A i \in 1 .. Len(z) : all[Len(a) + 3 * Len(w) + i] = z[i]

LEMMA Around ==
    ASSUME NEW S, NEW a \in Seq(S), NEW w \in Seq(Level), NEW sets \in [Level -> Seq(S)],
           NEW z \in Seq(S), \A bit \in Level : Len(sets[bit]) = 3
    PROVE  /\ a \o EachBit(w, sets) \o z \in Seq(S)
           /\ IsAround(a \o EachBit(w, sets) \o z, a, w, sets, z)
<1> DEFINE E == EachBit(w, sets)
           all == a \o E \o z
<1>0. E \in Seq(S)
  BY EachBitIs
<1>1. Len(E) = 3 * Len(w)
  BY EachBitIs
<1>2. \A j \in 0 .. Len(w) - 1 : \A r \in 1 .. 3 : E[3 * j + r] = sets[w[j + 1]][r]
  BY EachBitIs
<1> HIDE DEF E
<1> DEFINE front == a \o E
<1>3. /\ front \in Seq(S) /\ Len(front) = Len(a) + Len(E)
      /\ \A i \in 1 .. Len(a) : front[i] = a[i]
      /\ \A i \in 1 .. Len(E) : front[Len(a) + i] = E[i]
  BY <1>0, Joined
<1>11. front \in Seq(S)
  BY <1>3
<1> HIDE DEF front
<1>4. /\ front \o z \in Seq(S) /\ Len(front \o z) = Len(front) + Len(z)
      /\ \A i \in 1 .. Len(front) : (front \o z)[i] = front[i]
      /\ \A i \in 1 .. Len(z) : (front \o z)[Len(front) + i] = z[i]
  BY <1>11, Joined
<1>5. all = front \o z
  BY DEF front
<1> HIDE DEF all
<1>6. Len(a) \in Nat /\ Len(w) \in Nat /\ Len(z) \in Nat /\ Len(front) = Len(a) + 3 * Len(w)
  BY <1>1, <1>3
<1>8. \A i \in 1 .. Len(a) : all[i] = a[i]
  BY <1>0, <1>1, <1>3, <1>4, <1>5, <1>6
<1>9. \A i \in 1 .. 3 * Len(w) : all[Len(a) + i] = E[i]
  BY <1>0, <1>1, <1>3, <1>4, <1>5, <1>6
<1>10. \A i \in 1 .. Len(z) : all[Len(a) + 3 * Len(w) + i] = z[i]
  BY <1>0, <1>1, <1>3, <1>4, <1>5, <1>6
<1>7. ASSUME NEW j \in 0 .. Len(w) - 1, NEW r \in 1 .. 3
      PROVE  all[Len(a) + 3 * j + r] = sets[w[j + 1]][r]
  <2>1. 3 * j + r \in 1 .. 3 * Len(w) /\ Len(a) + (3 * j + r) = Len(a) + 3 * j + r
    BY SMT
  <2>2. all[Len(a) + (3 * j + r)] = E[3 * j + r]
    BY <1>9, <2>1
  <2> QED
    BY <1>2, <2>1, <2>2
<1> QED
  BY <1>4, <1>5, <1>6, <1>7, <1>8, <1>10 DEF E, all, IsAround

\* What LangordSpiWrite of word w sets, and what the two WriteReg set: of the synthesizer's
\* the first two sets come before the bits (pre = 2), of the amplifier's one (pre = 1).
AdcSets(script, c, w) ==
    /\ Len(script) = 3 * Len(w) + 4
    /\ script[1] = <<c.latch, One>> /\ script[2] = <<c.clk, Zero>> /\ script[3] = <<c.latch, Zero>>
    /\ \A j \in 0 .. Len(w) - 1 :
         /\ script[3 * j + 4] = <<c.data, w[j + 1]>>
         /\ script[3 * j + 5] = <<c.clk, One>>
         /\ script[3 * j + 6] = <<c.clk, Zero>>
    /\ script[3 * Len(w) + 4] = <<c.latch, One>>

ThreeWireSets(script, c, w, pre) ==
    /\ Len(script) = 3 * Len(w) + pre + (IF pre = 2 THEN 4 ELSE 3)
    /\ script[1] = <<c.latch, Zero>>
    /\ pre = 2 => script[2] = <<c.ce, One>>
    /\ \A j \in 0 .. Len(w) - 1 :
         /\ script[3 * j + pre + 1] = <<c.clk, Zero>>
         /\ script[3 * j + pre + 2] = <<c.data, w[j + 1]>>
         /\ script[3 * j + pre + 3] = <<c.clk, One>>
    /\ script[3 * Len(w) + pre + 1] = <<c.clk, Zero>>
    /\ script[3 * Len(w) + pre + 2] = <<c.data, Zero>>
    /\ script[3 * Len(w) + pre + 3] = <<c.latch, One>>
    /\ pre = 2 => script[3 * Len(w) + pre + 4] = <<c.latch, Zero>>

LEMMA SessionKinds ==
    ASSUME NEW s \in Sessions
    PROVE  /\ s.kind \in {"adc", "synth", "vga", "ddc", "util"}
           /\ s.kind = "adc" => s.chip \in {"ADCA", "ADCB"} /\ s.word \in Words
           /\ s.kind = "synth" => s.chip \in {"N61", "N62"} /\ s.word \in Words
           /\ s.kind = "vga" => s.chip = "N7" /\ s.word \in Words
           /\ s.kind = "ddc" => s.phase \in SUBSET Bits /\ s.rev \in Level
           /\ s.kind = "util" => s.arg \in SUBSET Bits
                                 /\ \E f \in Layout : s.pin = f.name /\ Field(s.pin) = f
<1> DEFINE Names == {f.name : f \in Layout}
<1>1. \A n \in Names : \E f \in Layout : n = f.name /\ Field(n) = f
  BY FieldOfName
<1> HIDE DEF Names
<1>2. /\ s.kind \in {"adc", "synth", "vga", "ddc", "util"}
      /\ s.kind = "adc" => s.chip \in {"ADCA", "ADCB"} /\ s.word \in Words
      /\ s.kind = "synth" => s.chip \in {"N61", "N62"} /\ s.word \in Words
      /\ s.kind = "vga" => s.chip = "N7" /\ s.word \in Words
      /\ s.kind = "ddc" => s.phase \in SUBSET Bits /\ s.rev \in Level
      /\ s.kind = "util" => s.arg \in SUBSET Bits /\ s.pin \in Names
  BY SessionsAssumption DEF Level, Names
<1> QED
  BY <1>1, <1>2

LEMMA WordIsSeq == ASSUME NEW w \in Words PROVE w \in Seq(Level) /\ Len(w) >= 1
  BY DEF Words, Level

\* The pins of a chip and a level make a set.
LEMMA PinSets ==
    ASSUME NEW c \in Chips
    PROVE  /\ \A f \in PinsOf(c) : \A v \in Level : <<f, v>> \in ChipWires(c)
           /\ Wiring[c].latch \in PinsOf(c) /\ Wiring[c].clk \in PinsOf(c)
           /\ Wiring[c].data \in PinsOf(c)
  BY DEF ChipWires, PinsOf

LEMMA AdcScript ==
    ASSUME NEW chip \in Chips, NEW w \in Seq(Level)
    PROVE  /\ LangordSpiWrite(Wiring[chip], w) \in Seq(ChipWires(chip))
           /\ AdcSets(LangordSpiWrite(Wiring[chip], w), Wiring[chip], w)
<1> DEFINE c == Wiring[chip]
           L(v) == <<c.latch, v>>
           C(v) == <<c.clk, v>>
           D(v) == <<c.data, v>>
           a == <<L(One), C(Zero), L(Zero)>>
           sets == [bit \in Level |-> <<D(bit), C(One), C(Zero)>>]
           z == <<L(One)>>
           script == a \o EachBit(w, sets) \o z
<1>1. LangordSpiWrite(c, w) = script
  BY DEF LangordSpiWrite, Level
<1>2. /\ Zero \in Level /\ One \in Level
      /\ \A v \in Level : L(v) \in ChipWires(chip) /\ C(v) \in ChipWires(chip) /\ D(v) \in ChipWires(chip)
  BY PinSets DEF Level
<1> HIDE DEF c, L, C, D
<1>3. a \in Seq(ChipWires(chip)) /\ z \in Seq(ChipWires(chip))
  BY <1>2
<1>4. sets \in [Level -> Seq(ChipWires(chip))]
  BY <1>2
<1>0. Len(a) = 3 /\ Len(z) = 1 /\ \A bit \in Level : Len(sets[bit]) = 3
  OBVIOUS
<1>10. /\ a[1] = L(One) /\ a[2] = C(Zero) /\ a[3] = L(Zero) /\ z[1] = L(One)
       /\ \A v \in Level : sets[v][1] = D(v) /\ sets[v][2] = C(One) /\ sets[v][3] = C(Zero)
  OBVIOUS
<1>11. \A bit \in Level : Len(sets[bit]) = 3
  BY <1>0
<1> HIDE DEF a, z, sets
<1>5. IsAround(script, a, w, sets, z)
  BY <1>3, <1>4, <1>11, Around
<1>13. script \in Seq(ChipWires(chip))
  BY <1>3, <1>4, <1>11, Around
<1> HIDE DEF script
<1>6. \A j \in 0 .. Len(w) - 1 : w[j + 1] \in Level
  OBVIOUS
<1>7. Len(w) \in Nat
  OBVIOUS
<1>8. ASSUME NEW j \in 0 .. Len(w) - 1
      PROVE  script[3 * j + 4] = D(w[j + 1]) /\ script[3 * j + 5] = C(One)
             /\ script[3 * j + 6] = C(Zero)
  <2>0. \A r \in 1 .. 3 : script[Len(a) + 3 * j + r] = sets[w[j + 1]][r]
    BY <1>5, Zenon DEF IsAround
  <2>1. \A r \in 1 .. 3 : script[3 + 3 * j + r] = sets[w[j + 1]][r]
    BY <1>0, <2>0
  <2>2. 3 + 3 * j + 1 = 3 * j + 4 /\ 3 + 3 * j + 2 = 3 * j + 5 /\ 3 + 3 * j + 3 = 3 * j + 6
    BY <1>7
  <2> QED
    BY <1>10, <1>6, <2>1, <2>2
<1>9. Len(script) = 3 * Len(w) + 4 /\ script[3 * Len(w) + 4] = L(One)
  <2>1. 3 + 3 * Len(w) + 1 = 3 * Len(w) + 4
    BY <1>7
  <2> QED
    BY <1>0, <1>5, <1>10, <2>1 DEF IsAround
<1>12. script[1] = L(One) /\ script[2] = C(Zero) /\ script[3] = L(Zero)
  BY <1>0, <1>5, <1>10 DEF IsAround
<1> QED
  BY <1>1, <1>13, <1>8, <1>9, <1>12 DEF AdcSets, c, L, C, D

LEMMA SynthScript ==
    ASSUME NEW chip \in {"N61", "N62"}, NEW w \in Seq(Level)
    PROVE  /\ SynthWriteReg(Wiring[chip], w) \in Seq(ChipWires(chip))
           /\ ThreeWireSets(SynthWriteReg(Wiring[chip], w), Wiring[chip], w, 2)
<1> DEFINE c == Wiring[chip]
           L(v) == <<c.latch, v>>
           C(v) == <<c.clk, v>>
           D(v) == <<c.data, v>>
           E(v) == <<c.ce, v>>
           a == <<L(Zero), E(One)>>
           sets == [bit \in Level |-> <<C(Zero), D(bit), C(One)>>]
           z == <<C(Zero), D(Zero), L(One), L(Zero)>>
           script == a \o EachBit(w, sets) \o z
<1>1. SynthWriteReg(c, w) = script
  BY DEF SynthWriteReg, Level
<1>2. /\ Zero \in Level /\ One \in Level
      /\ \A v \in Level : L(v) \in ChipWires(chip) /\ C(v) \in ChipWires(chip) /\ D(v) \in ChipWires(chip)
      /\ E(One) \in ChipWires(chip)
  <2>1. chip \in Chips /\ c.ce \in EnableFields
    BY Wired DEF EnableFields
  <2> QED
    BY <2>1, PinSets DEF Level, ChipWires, EnableFields
<1> HIDE DEF c, L, C, D, E
<1>3. a \in Seq(ChipWires(chip)) /\ z \in Seq(ChipWires(chip))
  BY <1>2
<1>4. sets \in [Level -> Seq(ChipWires(chip))]
  BY <1>2
<1>5. Len(a) = 2 /\ Len(z) = 4 /\ \A bit \in Level : Len(sets[bit]) = 3
  OBVIOUS
<1>6. /\ a[1] = L(Zero) /\ a[2] = E(One)
      /\ z[1] = C(Zero) /\ z[2] = D(Zero) /\ z[3] = L(One) /\ z[4] = L(Zero)
      /\ \A v \in Level : sets[v][1] = C(Zero) /\ sets[v][2] = D(v) /\ sets[v][3] = C(One)
  OBVIOUS
<1>7. \A bit \in Level : Len(sets[bit]) = 3
  BY <1>5
<1> HIDE DEF a, z, sets
<1>8. IsAround(script, a, w, sets, z)
  BY <1>3, <1>4, <1>7, Around
<1>14. script \in Seq(ChipWires(chip))
  BY <1>3, <1>4, <1>7, Around
<1> HIDE DEF script
<1>9. Len(w) \in Nat /\ \A j \in 0 .. Len(w) - 1 : w[j + 1] \in Level
  OBVIOUS
<1>10. ASSUME NEW j \in 0 .. Len(w) - 1
       PROVE  script[3 * j + 2 + 1] = C(Zero) /\ script[3 * j + 2 + 2] = D(w[j + 1])
              /\ script[3 * j + 2 + 3] = C(One)
  <2>0. \A r \in 1 .. 3 : script[Len(a) + 3 * j + r] = sets[w[j + 1]][r]
    BY <1>8, Zenon DEF IsAround
  <2>1. \A r \in 1 .. 3 : script[2 + 3 * j + r] = sets[w[j + 1]][r]
    BY <1>5, <2>0
  <2>2. \A r \in 1 .. 3 : 2 + 3 * j + r = 3 * j + 2 + r
    BY <1>9
  <2> QED
    BY <1>6, <1>9, <2>1, <2>2
<1>11. \A i \in 1 .. 4 : script[3 * Len(w) + 2 + i] = z[i]
  <2>1. \A i \in 1 .. 4 : script[2 + 3 * Len(w) + i] = z[i]
    BY <1>5, <1>8 DEF IsAround
  <2>2. \A i \in 1 .. 4 : 2 + 3 * Len(w) + i = 3 * Len(w) + 2 + i
    BY <1>9
  <2> QED
    BY <2>1, <2>2
<1>12. Len(script) = 3 * Len(w) + 2 + 4
  BY <1>5, <1>8, <1>9 DEF IsAround
<1>13. script[1] = L(Zero) /\ script[2] = E(One)
  BY <1>5, <1>6, <1>8 DEF IsAround
<1> QED
  BY <1>1, <1>6, <1>14, <1>10, <1>11, <1>12, <1>13 DEF ThreeWireSets, c, L, C, D, E

LEMMA VgaScript ==
    ASSUME NEW chip \in {"N7"}, NEW w \in Seq(Level)
    PROVE  /\ VgaWriteReg(Wiring[chip], w) \in Seq(ChipWires(chip))
           /\ ThreeWireSets(VgaWriteReg(Wiring[chip], w), Wiring[chip], w, 1)
<1> DEFINE c == Wiring[chip]
           L(v) == <<c.latch, v>>
           C(v) == <<c.clk, v>>
           D(v) == <<c.data, v>>
           a == <<L(Zero)>>
           sets == [bit \in Level |-> <<C(Zero), D(bit), C(One)>>]
           z == <<C(Zero), D(Zero), L(One)>>
           script == a \o EachBit(w, sets) \o z
<1>1. VgaWriteReg(c, w) = script
  BY DEF VgaWriteReg, Level
<1>2. /\ Zero \in Level /\ One \in Level
      /\ \A v \in Level : L(v) \in ChipWires(chip) /\ C(v) \in ChipWires(chip) /\ D(v) \in ChipWires(chip)
  <2>1. chip \in Chips
    BY Wired
  <2> QED
    BY <2>1, PinSets DEF Level
<1> HIDE DEF c, L, C, D
<1>3. a \in Seq(ChipWires(chip)) /\ z \in Seq(ChipWires(chip))
  BY <1>2
<1>4. sets \in [Level -> Seq(ChipWires(chip))]
  BY <1>2
<1>5. Len(a) = 1 /\ Len(z) = 3 /\ \A bit \in Level : Len(sets[bit]) = 3
  OBVIOUS
<1>6. /\ a[1] = L(Zero)
      /\ z[1] = C(Zero) /\ z[2] = D(Zero) /\ z[3] = L(One)
      /\ \A v \in Level : sets[v][1] = C(Zero) /\ sets[v][2] = D(v) /\ sets[v][3] = C(One)
  OBVIOUS
<1>7. \A bit \in Level : Len(sets[bit]) = 3
  BY <1>5
<1> HIDE DEF a, z, sets
<1>8. IsAround(script, a, w, sets, z)
  BY <1>3, <1>4, <1>7, Around
<1>14. script \in Seq(ChipWires(chip))
  BY <1>3, <1>4, <1>7, Around
<1> HIDE DEF script
<1>9. Len(w) \in Nat /\ \A j \in 0 .. Len(w) - 1 : w[j + 1] \in Level
  OBVIOUS
<1>10. ASSUME NEW j \in 0 .. Len(w) - 1
       PROVE  script[3 * j + 1 + 1] = C(Zero) /\ script[3 * j + 1 + 2] = D(w[j + 1])
              /\ script[3 * j + 1 + 3] = C(One)
  <2>0. \A r \in 1 .. 3 : script[Len(a) + 3 * j + r] = sets[w[j + 1]][r]
    BY <1>8, Zenon DEF IsAround
  <2>1. \A r \in 1 .. 3 : script[1 + 3 * j + r] = sets[w[j + 1]][r]
    BY <1>5, <2>0
  <2>2. \A r \in 1 .. 3 : 1 + 3 * j + r = 3 * j + 1 + r
    BY <1>9
  <2> QED
    BY <1>6, <1>9, <2>1, <2>2
<1>11. \A i \in 1 .. 3 : script[3 * Len(w) + 1 + i] = z[i]
  <2>1. \A i \in 1 .. 3 : script[1 + 3 * Len(w) + i] = z[i]
    BY <1>5, <1>8 DEF IsAround
  <2>2. \A i \in 1 .. 3 : 1 + 3 * Len(w) + i = 3 * Len(w) + 1 + i
    BY <1>9
  <2> QED
    BY <2>1, <2>2
<1>12. Len(script) = 3 * Len(w) + 1 + 3
  BY <1>5, <1>8, <1>9 DEF IsAround
<1>13. script[1] = L(Zero)
  BY <1>5, <1>6, <1>8 DEF IsAround
<1> QED
  BY <1>1, <1>6, <1>14, <1>10, <1>11, <1>12, <1>13 DEF ThreeWireSets, c, L, C, D
LEMMA WiresAreSets == Wires \subseteq Sets
  BY WiredLaidOut, Levels DEF Wires, Sets

LEMMA ChipWiresAreWires == \A c \in Chips : ChipWires(c) \subseteq Wires
  BY Wired DEF ChipWires, Wires, EnableFields

LEMMA ScriptOf ==
    ASSUME NEW s \in Sessions
    PROVE  /\ s.kind = "adc" => /\ Script(s) \in Seq(ChipWires(s.chip))
                                /\ AdcSets(Script(s), Wiring[s.chip], s.word)
           /\ s.kind = "synth" => /\ Script(s) \in Seq(ChipWires(s.chip))
                                  /\ ThreeWireSets(Script(s), Wiring[s.chip], s.word, 2)
           /\ s.kind = "vga" => /\ Script(s) \in Seq(ChipWires(s.chip))
                                /\ ThreeWireSets(Script(s), Wiring[s.chip], s.word, 1)
           /\ s.kind = "ddc" => Script(s) = SetDDCFreq(s)
           /\ s.kind = "util" => Script(s) = <<<<Field(s.pin), s.arg>>>>
<1>1. CASE s.kind = "adc"
  <2>1. s.chip \in Chips /\ s.word \in Seq(Level)
    BY <1>1, SessionKinds, WordIsSeq, Wired
  <2>2. Script(s) = LangordSpiWrite(Wiring[s.chip], s.word)
    BY <1>1 DEF Script
  <2> QED
    BY <1>1, <2>1, <2>2, AdcScript
<1>2. CASE s.kind = "synth"
  <2>1. s.chip \in {"N61", "N62"} /\ s.word \in Seq(Level)
    BY <1>2, SessionKinds, WordIsSeq
  <2>2. Script(s) = SynthWriteReg(Wiring[s.chip], s.word)
    BY <1>2 DEF Script
  <2> QED
    BY <1>2, <2>1, <2>2, SynthScript
<1>3. CASE s.kind = "vga"
  <2>1. s.chip \in {"N7"} /\ s.word \in Seq(Level)
    BY <1>3, SessionKinds, WordIsSeq
  <2>2. Script(s) = VgaWriteReg(Wiring[s.chip], s.word)
    BY <1>3 DEF Script
  <2> QED
    BY <1>3, <2>1, <2>2, VgaScript
<1>4. CASE s.kind = "ddc"
  BY <1>4 DEF Script
<1>5. CASE s.kind = "util"
  BY <1>5 DEF Script
<1> QED
  BY <1>1, <1>2, <1>3, <1>4, <1>5, SessionKinds

\* The four fields of the digital converters.
DdcFields ==
    {FieldAt("RXPhase", "PIO3", 0, 32), FieldAt("TXPhase", "PIO4", 0, 32),
     FieldAt("RXRevFreq", "PIO5", 16, 1), FieldAt("TXRevFreq", "PIO5", 17, 1)}

LEMMA DdcAt ==
    /\ DdcFields \subseteq Layout
    /\ Field("RXPhase") = FieldAt("RXPhase", "PIO3", 0, 32)
    /\ Field("TXPhase") = FieldAt("TXPhase", "PIO4", 0, 32)
    /\ Field("RXRevFreq") = FieldAt("RXRevFreq", "PIO5", 16, 1)
    /\ Field("TXRevFreq") = FieldAt("TXRevFreq", "PIO5", 17, 1)
<1>1. DdcFields \subseteq Layout
  BY SMTT(60) DEF DdcFields, Layout, FieldsFrom, FieldAt
<1>2. \A f \in DdcFields : Field(f.name) = f
  BY <1>1, FieldOfName
<1> QED
  BY <1>1, <1>2, SMT DEF DdcFields, FieldAt

LEMMA LevelFits ==
    ASSUME NEW f, NEW v \in Level, f.width = 1
    PROVE  Fits(f, v) /\ Accepted(f, v)
  BY Levels DEF Fits, Accepted

LEMMA ScriptIsSeq ==
    ASSUME NEW s \in Sessions
    PROVE  Script(s) \in Seq(Sets)
<1>1. CASE s.kind \in {"adc", "synth", "vga"}
  <2>1. s.chip \in Chips /\ Script(s) \in Seq(ChipWires(s.chip))
    BY <1>1, ScriptOf, SessionKinds, Wired
  <2>2. Script(s) \in Seq(Wires)
    BY <2>1, ChipWiresAreWires, SeqMonotonic
  <2> QED
    BY <2>2, WiresAreSets, SeqMonotonic
<1>2. CASE s.kind = "ddc"
  <2> DEFINE P == IF s.channel = "rx" THEN Field("RXPhase") ELSE Field("TXPhase")
             R == IF s.channel = "rx" THEN Field("RXRevFreq") ELSE Field("TXRevFreq")
  <2>1. Script(s) = <<<<P, s.phase>>, <<R, s.rev>>>>
    BY <1>2, ScriptOf DEF SetDDCFreq
  <2>2. P \in Layout /\ R \in Layout
    BY DdcAt, SMT DEF DdcFields
  <2>3. s.phase \in SUBSET Bits /\ s.rev \in Level
    BY <1>2, SessionKinds
  <2> HIDE DEF P, R
  <2>4. <<P, s.phase>> \in Sets /\ <<R, s.rev>> \in Sets
    BY <2>2, <2>3, Levels DEF Sets
  <2> QED
    BY <2>1, <2>4
<1>3. CASE s.kind = "util"
  <2>1. Script(s) = <<<<Field(s.pin), s.arg>>>>
    BY <1>3, ScriptOf
  <2>2. PICK f \in Layout : s.pin = f.name /\ Field(s.pin) = f
    BY <1>3, SessionKinds
  <2>3. <<f, s.arg>> \in Sets
    BY <1>3, SessionKinds DEF Sets
  <2> QED
    BY <2>1, <2>2, <2>3
<1> QED
  BY <1>1, <1>2, <1>3, SessionKinds

\* PowerPeriph sets eleven pins, each once.
PowerSets == PeriphFields \X Level

LEMMA PeriphAt ==
    ASSUME NEW f \in PeriphFields
    PROVE  /\ f \in Layout /\ Field(f.name) = f /\ f.reg \in {"PIO1", "PIO5"} /\ f.width = 1
           /\ f.name \notin {"GPIOout", "RxBaseband"}
<1>1. f \in Layout
  BY PeriphLaidOut
<1>2. f.reg \in {"PIO1", "PIO5"} /\ f.width = 1 /\ f.name \notin {"GPIOout", "RxBaseband"}
  BY SMT DEF PeriphFields, FieldAt
<1> QED
  BY <1>1, <1>2, FieldOfName

LEMMA PeriphFieldsNamed ==
    /\ Field("ADCAPD") = FieldAt("ADCAPD", "PIO1", 21, 1)
    /\ Field("ADCBPD") = FieldAt("ADCBPD", "PIO1", 26, 1)
    /\ Field("DACReset") = FieldAt("DACReset", "PIO1", 16, 1)
    /\ Field("DACSClk") = FieldAt("DACSClk", "PIO1", 19, 1)
    /\ Field("DACSDIO") = FieldAt("DACSDIO", "PIO1", 18, 1)
    /\ Field("DACCSB") = FieldAt("DACCSB", "PIO1", 17, 1)
    /\ Field("DACSDO") = FieldAt("DACSDO", "PIO1", 30, 1)
    /\ Field("RxDspEn") = FieldAt("RxDspEn", "PIO5", 18, 1)
    /\ Field("TxDspEn") = FieldAt("TxDspEn", "PIO5", 19, 1)
    /\ Field("RxIsSigned") = FieldAt("RxIsSigned", "PIO5", 24, 1)
    /\ Field("TxIsSigned") = FieldAt("TxIsSigned", "PIO5", 25, 1)
<1>1. \A f \in PeriphFields : Field(f.name) = f
  BY PeriphAt
<1> QED
  BY <1>1, SMTT(30) DEF PeriphFields, FieldAt

LEMMA PowerPeriphIs ==
    ASSUME NEW on \in BOOLEAN
    PROVE  /\ PowerPeriph(on) \in Seq(PowerSets) /\ Len(PowerPeriph(on)) = 11
           /\ \A i, j \in 1 .. 11 : i # j => PowerPeriph(on)[i][1] # PowerPeriph(on)[j][1]
<1> DEFINE P == PowerPeriph(on)
<1>1. /\ P[1][1] = FieldAt("ADCAPD", "PIO1", 21, 1) /\ P[2][1] = FieldAt("ADCBPD", "PIO1", 26, 1)
      /\ P[3][1] = FieldAt("DACReset", "PIO1", 16, 1) /\ P[4][1] = FieldAt("DACSClk", "PIO1", 19, 1)
      /\ P[5][1] = FieldAt("DACSDIO", "PIO1", 18, 1) /\ P[6][1] = FieldAt("DACCSB", "PIO1", 17, 1)
      /\ P[7][1] = FieldAt("DACSDO", "PIO1", 30, 1) /\ P[8][1] = FieldAt("RxDspEn", "PIO5", 18, 1)
      /\ P[9][1] = FieldAt("TxDspEn", "PIO5", 19, 1)
      /\ P[10][1] = FieldAt("RxIsSigned", "PIO5", 24, 1)
      /\ P[11][1] = FieldAt("TxIsSigned", "PIO5", 25, 1)
  BY PeriphFieldsNamed, SMT DEF PowerPeriph
<1>2. Len(P) = 11 /\ \A i \in 1 .. 11 : P[i] = <<P[i][1], P[i][2]>> /\ P[i][2] \in Level
  BY SMT DEF PowerPeriph, Level
<1> HIDE DEF P
<1>3. \A i, j \in 1 .. 11 : i # j => P[i][1] # P[j][1]
  BY <1>1, SMT DEF FieldAt
<1>4. \A i \in 1 .. 11 : P[i][1] \in PeriphFields
  BY <1>1, SMT DEF PeriphFields
<1>5. \A i \in 1 .. 11 : P[i] \in PowerSets
  BY <1>2, <1>4 DEF PowerSets
<1>6. P \in Seq(PowerSets)
  BY <1>2, <1>5 DEF P, PowerPeriph
<1> QED
  BY <1>2, <1>3, <1>6 DEF P

LEMMA PowerSetsAreSets == PowerSets \subseteq Sets
  BY PeriphLaidOut, Levels DEF PowerSets, Sets
-------------------------------------------------------------------------------
(* The invariant: what every program still has to set *)

Locations == {"closed", "opening", "powers_on", "using", "powers_off"}
NoJob == [kind |-> "none"]

Typed ==
    /\ pio \in [Registers -> SUBSET Bits]
    /\ pc \in [Progs -> Locations]
    /\ job \in [Progs -> Sessions \cup {NoJob}]
    /\ \A p \in Progs : pc[p] # "closed" => job[p] \in Sessions
    /\ todo \in [Progs -> Seq(Sets)]
    /\ seen \in [Progs -> (SUBSET Bits) \cup {NoRead}]
    /\ OpenCtr \in Nat
    /\ mutex \subseteq Progs
    /\ sessions \in 0 .. MaxSessions

\* The programs whose handle the driver counts.
Handles == {p \in Progs : pc[p] \in {"using", "powers_off"}}

\* PowerPeriph runs under the mutex: before the first handle, or with the last one left.
Counted ==
    /\ \A p \in Progs : p \in mutex <=> pc[p] \in {"powers_on", "powers_off"}
    /\ \A p, q \in mutex : p = q
    /\ OpenCtr = Cardinality(Handles)
    /\ \A p \in Progs : pc[p] = "powers_on" => Handles = {}
    /\ \A p \in Progs : pc[p] = "powers_off" => Handles = {p}

\* All the sets a program, or the driver for it, makes where it is.
Agenda(p) ==
    CASE pc[p] = "using"      -> Script(job[p])
      [] pc[p] = "powers_on"  -> PowerPeriph(TRUE)
      [] pc[p] = "powers_off" -> PowerPeriph(FALSE)
      [] OTHER                -> <<>>

\* How many of them are made.
Done(p) == Len(Agenda(p)) - Len(todo[p])

\* The others are still to make, and one that has read its register is a legal one.
Rests(p) ==
    /\ Len(todo[p]) <= Len(Agenda(p))
    /\ \A i \in 1 .. Len(todo[p]) : todo[p][i] = Agenda(p)[Done(p) + i]
    /\ seen[p] # NoRead => /\ todo[p] # <<>> /\ Settable(Target(p))
                           /\ Accepted(Target(p), Argument(p))

Ordered == Typed /\ Counted /\ \A p \in Progs : Rests(p)

LEMMA PowerIsSeq == PowerPeriph(TRUE) \in Seq(Sets) /\ PowerPeriph(FALSE) \in Seq(Sets)
<1>1. PowerSets \subseteq Sets
  BY PowerSetsAreSets
<1> QED
  BY <1>1, PowerPeriphIs, SeqMonotonic

LEMMA AgendaIsSeq ==
    ASSUME Typed, NEW p \in Progs
    PROVE  Agenda(p) \in Seq(Sets)
<1>1. PowerPeriph(TRUE) \in Seq(Sets) /\ PowerPeriph(FALSE) \in Seq(Sets)
  BY PowerIsSeq
<1>2. CASE pc[p] = "using"
  <2>1. Script(job[p]) \in Seq(Sets)
    BY <1>2, ScriptIsSeq DEF Typed
  <2> QED
    BY <1>2, <2>1 DEF Agenda
<1>3. CASE pc[p] = "powers_on"
  BY <1>1, <1>3 DEF Agenda
<1>4. CASE pc[p] = "powers_off"
  BY <1>1, <1>4 DEF Agenda
<1>5. CASE pc[p] \notin {"using", "powers_on", "powers_off"}
  <2>1. Agenda(p) = <<>>
    BY <1>5 DEF Agenda
  <2> QED
    BY <2>1
<1> QED
  BY <1>2, <1>3, <1>4, <1>5

LEMMA TargetIs ==
    ASSUME Typed, NEW p \in Progs, todo[p] # <<>>
    PROVE  Target(p) \in Layout /\ Argument(p) \in SUBSET Bits
           /\ todo[p][1] = <<Target(p), Argument(p)>> /\ todo[p][1] \in Sets
<1>1. todo[p] \in Seq(Sets) /\ todo[p][1] \in Sets
  BY DEF Typed
<1> QED
  BY <1>1 DEF Sets, Target, Argument

LEMMA NoReadIsNoWord == \A w \in SUBSET Bits : w # NoRead
  BY DEF NoRead, Bits, WordBits

\* A program that does not move has the same to set.
LEMMA StaysRests ==
    ASSUME NEW q \in Progs, Rests(q), pc'[q] = pc[q], job'[q] = job[q],
           todo'[q] = todo[q], seen'[q] = seen[q]
    PROVE  Rests(q)'
<1>1. Agenda(q)' = Agenda(q)
  BY DEF Agenda
<1> QED
  BY <1>1 DEF Rests, Done, Target, Argument

\* Made or refused, the first set is done.
LEMMA NextRests ==
    ASSUME Typed, NEW p \in Progs, Rests(p), todo[p] # <<>>, UNCHANGED <<pc, job>>,
           todo' = [todo EXCEPT ![p] = Tail(@)], seen'[p] = NoRead
    PROVE  Rests(p)' /\ Done(p)' = Done(p) + 1
<1>1. Agenda(p)' = Agenda(p)
  BY DEF Agenda
<1>2. todo'[p] = Tail(todo[p]) /\ todo[p] \in Seq(Sets)
  BY DEF Typed
<1>6. Len(Agenda(p)) \in Nat
  BY AgendaIsSeq, LenProperties
<1>3. /\ Len(todo[p]) \in Nat /\ Len(todo[p]) > 0 /\ Len(todo'[p]) = Len(todo[p]) - 1
      /\ \A i \in 1 .. Len(todo'[p]) : todo'[p][i] = todo[p][i + 1]
  <2>1. \A t \in Seq(Sets) : t # <<>> =>
          /\ Len(t) \in Nat /\ Len(t) > 0 /\ Len(Tail(t)) = Len(t) - 1
          /\ \A i \in 1 .. Len(Tail(t)) : Tail(t)[i] = t[i + 1]
    BY HeadTailProperties, LenProperties, EmptySeq
  <2> QED
    BY <1>2, <2>1
<1>4. Done(p)' = Done(p) + 1
  <2>1. Done(p)' = Len(Agenda(p)') - Len(todo'[p]) /\ Done(p) = Len(Agenda(p)) - Len(todo[p])
    BY DEF Done
  <2> QED
    BY <1>1, <1>3, <1>6, <2>1
<1>7. Done(p) = Len(Agenda(p)) - Len(todo[p])
  BY DEF Done
<1>5. \A i \in 1 .. Len(todo'[p]) : todo'[p][i] = Agenda(p)'[Done(p)' + i]
  <2> TAKE i \in 1 .. Len(todo'[p])
  <2>1. i + 1 \in 1 .. Len(todo[p])
    BY <1>3
  <2>2. todo[p][i + 1] = Agenda(p)[Done(p) + (i + 1)]
    BY <2>1 DEF Rests
  <2>3. Done(p) + (i + 1) = Done(p)' + i
    BY <1>3, <1>4, <1>6, <1>7
  <2> QED
    BY <1>1, <1>3, <2>2, <2>3
<1> QED
  BY <1>1, <1>2, <1>3, <1>4, <1>5 DEF Rests

\* At a new location, the whole agenda is still to be made.
LEMMA EntersRests ==
    ASSUME NEW p \in Progs, Agenda(p)' \in Seq(Sets), todo'[p] = Agenda(p)', seen'[p] = NoRead
    PROVE  Rests(p)' /\ Done(p)' = 0
<1>1. Len(todo'[p]) \in Nat /\ Len(todo'[p]) = Len(Agenda(p)')
  OBVIOUS
<1>2. Done(p)' = 0
  BY <1>1 DEF Done
<1> QED
  BY <1>1, <1>2 DEF Rests

\* A program with nothing to set has read nothing.
LEMMA Idle ==
    ASSUME Typed, NEW p \in Progs, Rests(p), todo[p] = <<>> \/ pc[p] \in {"closed", "opening"}
    PROVE  todo[p] = <<>> /\ seen[p] = NoRead
<1>1. CASE todo[p] = <<>>
  BY <1>1 DEF Rests
<1>2. CASE pc[p] \in {"closed", "opening"}
  <2>1. Agenda(p) = <<>>
    BY <1>2 DEF Agenda
  <2>2. Len(todo[p]) <= 0
    BY <2>1 DEF Rests
  <2>3. todo[p] = <<>>
    BY <2>2, EmptySeq DEF Typed
  <2> QED
    BY <2>3 DEF Rests
<1> QED
  BY <1>1, <1>2

LEMMA FiniteHandles == IsFiniteSet(Handles)
  BY PinBusAssumption, FS_Subset DEF Handles

LEMMA SetFieldsIsWord ==
    ASSUME NEW w \in SUBSET Bits, NEW sets
    PROVE  SetFields(w, sets) \in SUBSET Bits
  BY DEF SetFields, Shifted

LEMMA InitOrdered == Init => Ordered
<1> SUFFICES ASSUME Init PROVE Ordered
  OBVIOUS
<1>1. pio \in [Registers -> SUBSET Bits]
  <2>1. PICK all \in {{}, Bits} :
          pio = [r \in Registers |->
                   SetFields(all, {set \in ToSet(PowerPeriph(FALSE)) : set[1].reg = r})]
    BY DEF Init
  <2>2. \A r \in Registers :
          SetFields(all, {set \in ToSet(PowerPeriph(FALSE)) : set[1].reg = r}) \in SUBSET Bits
    BY SetFieldsIsWord
  <2> QED
    BY <2>1, <2>2
<1>2. Typed
  <2>1. pc \in [Progs -> Locations] /\ \A p \in Progs : pc[p] = "closed"
    BY DEF Init, Locations
  <2>2. job \in [Progs -> Sessions \cup {NoJob}]
    BY DEF Init, NoJob
  <2>3. todo \in [Progs -> Seq(Sets)]
    <3>1. <<>> \in Seq(Sets)
      OBVIOUS
    <3> QED
      BY <3>1 DEF Init
  <2>4. seen \in [Progs -> (SUBSET Bits) \cup {NoRead}]
    <3>1. seen = [p \in Progs |-> NoRead]
      BY DEF Init
    <3>2. NoRead \in (SUBSET Bits) \cup {NoRead}
      OBVIOUS
    <3> QED
      BY <3>1, <3>2, Zenon
  <2>5. OpenCtr \in Nat /\ mutex \subseteq Progs /\ sessions \in 0 .. MaxSessions
    BY PinBusAssumption DEF Init
  <2> QED
    BY <1>1, <2>1, <2>2, <2>3, <2>4, <2>5 DEF Typed
<1>3. Counted
  <2>1. Handles = {}
    BY DEF Init, Handles
  <2> QED
    BY <2>1, FS_EmptySet DEF Init, Counted
<1>4. ASSUME NEW p \in Progs PROVE Rests(p)
  <2>1. Agenda(p) = <<>> /\ todo[p] = <<>> /\ seen[p] = NoRead
    BY DEF Init, Agenda
  <2> QED
    BY <2>1 DEF Rests
<1> QED
  BY <1>2, <1>3, <1>4 DEF Ordered
\* A program is started: it is counted by nobody and has nothing to set.
LEMMA StartKeeps ==
    ASSUME Ordered, NEW p \in Progs, NEW s \in Sessions, Start(p, s)
    PROVE  Ordered'
<1>1. /\ pc[p] = "closed" /\ pc' = [pc EXCEPT ![p] = "opening"]
      /\ job' = [job EXCEPT ![p] = s] /\ sessions < MaxSessions /\ sessions' = sessions + 1
      /\ UNCHANGED <<pio, todo, seen, OpenCtr, mutex>>
  BY DEF Start, driver, pins, started
<1>2. Typed'
  BY <1>1, PinBusAssumption DEF Ordered, Typed, Locations
<1>3. Handles' = Handles
  BY <1>1 DEF Ordered, Typed, Handles
<1>4. Counted'
  BY <1>1, <1>3 DEF Ordered, Typed, Counted
<1>5. ASSUME NEW q \in Progs PROVE Rests(q)'
  <2>1. CASE q = p
    <3>1. Agenda(p) = <<>> /\ Agenda(p)' = <<>>
      BY <1>1 DEF Agenda, Ordered, Typed
    <3> QED
      BY <1>1, <2>1, <3>1, Idle, EmptySeq, EntersRests DEF Ordered
  <2>2. CASE q # p
    BY <1>1, <2>2, StaysRests DEF Ordered, Typed
  <2> QED
    BY <2>1, <2>2
<1> QED
  BY <1>2, <1>4, <1>5 DEF Ordered

\* The other programs do not move.
LEMMA Moves ==
    ASSUME Ordered, NEW p \in Progs, NEW l,
           pc' = [pc EXCEPT ![p] = l], \A q \in Progs \ {p} : todo'[q] = todo[q],
           UNCHANGED <<job, seen>>, Rests(p)'
    PROVE  \A q \in Progs : Rests(q)'
<1> TAKE q \in Progs
<1>1. CASE q = p
  BY <1>1
<1>2. CASE q # p
  <2>1. pc'[q] = pc[q]
    BY <1>2 DEF Ordered, Typed
  <2> QED
    BY <1>2, <2>1, StaysRests DEF Ordered
<1> QED
  BY <1>1, <1>2

\* The first open powers the radio on.
LEMMA OpenFirstKeeps ==
    ASSUME Ordered, NEW p \in Progs, OpenFirst(p)
    PROVE  Ordered' /\ Done(p)' = 0
<1>1. /\ pc[p] = "opening" /\ pc' = [pc EXCEPT ![p] = "powers_on"]
      /\ todo' = [todo EXCEPT ![p] = PowerPeriph(TRUE)]
      /\ mutex = {} /\ mutex' = {p} /\ OpenCtr = 0
      /\ UNCHANGED <<pio, job, seen, OpenCtr, sessions>>
  BY DEF OpenFirst, pins, started
<1>2. Agenda(p)' = PowerPeriph(TRUE) /\ todo'[p] = PowerPeriph(TRUE)
  BY <1>1 DEF Agenda, Ordered, Typed
<1>3. Typed'
  BY <1>1, PowerIsSeq DEF Ordered, Typed, Locations
<1>4. Handles' = Handles /\ Handles = {}
  <2>1. Handles' = Handles
    BY <1>1 DEF Ordered, Typed, Handles
  <2> QED
    BY <1>1, <2>1, FiniteHandles, FS_EmptySet DEF Ordered, Counted
<1>5. Counted'
  BY <1>1, <1>4 DEF Ordered, Typed, Counted
<1>6. Rests(p)' /\ Done(p)' = 0
  <2>1. seen'[p] = NoRead
    BY <1>1, Idle DEF Ordered
  <2> QED
    BY <1>2, <2>1, PowerIsSeq, EntersRests
<1> QED
  BY <1>1, <1>3, <1>5, <1>6, Moves DEF Ordered, Typed

\* An open returns with one handle more.
LEMMA OpenedKeeps ==
    ASSUME Ordered, NEW p \in Progs, OpenAgain(p) \/ PoweredOn(p)
    PROVE  Ordered' /\ Done(p)' = 0 /\ mutex \subseteq {p}
<1>1. /\ pc[p] \in {"opening", "powers_on"} /\ pc' = [pc EXCEPT ![p] = "using"]
      /\ todo' = [todo EXCEPT ![p] = Script(job[p])]
      /\ mutex' = {} /\ OpenCtr' = OpenCtr + 1
      /\ pc[p] = "opening" => mutex = {}
      /\ UNCHANGED <<pio, job, seen, sessions>>
  BY DEF OpenAgain, PoweredOn, Opened, pins, started
<1>2. job[p] \in Sessions
  BY <1>1 DEF Ordered, Typed
<1>3. Agenda(p)' = Script(job[p]) /\ todo'[p] = Script(job[p])
  BY <1>1 DEF Agenda, Ordered, Typed
<1>4. Script(job[p]) \in Seq(Sets)
  BY <1>2, ScriptIsSeq
<1>5. Typed'
  BY <1>1, <1>2, <1>4 DEF Ordered, Typed, Locations
<1>6. mutex \subseteq {p} /\ \A q \in Progs \ {p} : pc[q] \notin {"powers_on", "powers_off"}
  BY <1>1 DEF Ordered, Typed, Counted
<1>7. Handles' = Handles \cup {p} /\ p \notin Handles
  BY <1>1 DEF Ordered, Typed, Handles
<1>8. OpenCtr' = Cardinality(Handles')
  BY <1>1, <1>7, FiniteHandles, FS_AddElement DEF Ordered, Counted
<1>9. Counted'
  BY <1>1, <1>6, <1>8 DEF Ordered, Typed, Counted
<1>10. Rests(p)' /\ Done(p)' = 0
  <2>1. seen'[p] = NoRead
    BY <1>1, Idle DEF Ordered, PoweredOn, OpenAgain
  <2> QED
    BY <1>3, <1>4, <2>1, EntersRests
<1> QED
  BY <1>1, <1>5, <1>6, <1>9, <1>10, Moves DEF Ordered, Typed

\* The last close powers the radio off.
LEMMA CloseLastKeeps ==
    ASSUME Ordered, NEW p \in Progs, CloseLast(p)
    PROVE  Ordered' /\ Done(p)' = 0 /\ Handles = {p}
<1>1. /\ pc[p] = "using" /\ pc' = [pc EXCEPT ![p] = "powers_off"]
      /\ todo[p] = <<>> /\ todo' = [todo EXCEPT ![p] = PowerPeriph(FALSE)]
      /\ mutex = {} /\ mutex' = {p} /\ OpenCtr <= 1
      /\ UNCHANGED <<pio, job, seen, OpenCtr, sessions>>
  BY DEF CloseLast, pins, started
<1>2. Agenda(p)' = PowerPeriph(FALSE) /\ todo'[p] = PowerPeriph(FALSE)
  BY <1>1 DEF Agenda, Ordered, Typed
<1>3. Typed'
  BY <1>1, PowerIsSeq DEF Ordered, Typed, Locations
<1>4. Handles' = Handles /\ Handles = {p}
  <2>1. Handles' = Handles /\ p \in Handles
    BY <1>1 DEF Ordered, Typed, Handles
  <2>2. /\ IsFiniteSet(Handles \ {p}) /\ Cardinality(Handles \ {p}) = Cardinality(Handles) - 1
        /\ Cardinality(Handles \ {p}) \in Nat
    BY <2>1, FiniteHandles, FS_RemoveElement, FS_CardinalityType
  <2>3. Cardinality(Handles) <= 1 /\ Cardinality(Handles) \in Nat
    BY <1>1 DEF Ordered, Typed, Counted
  <2>4. Handles \ {p} = {}
    BY <2>2, <2>3, FS_EmptySet
  <2> QED
    BY <2>1, <2>4
<1>5. Counted'
  BY <1>1, <1>4 DEF Ordered, Typed, Counted
<1>6. Rests(p)' /\ Done(p)' = 0
  <2>1. seen'[p] = NoRead
    BY <1>1, Idle DEF Ordered
  <2> QED
    BY <1>2, <2>1, PowerIsSeq, EntersRests
<1> QED
  BY <1>1, <1>3, <1>4, <1>5, <1>6, Moves DEF Ordered, Typed

\* A close returns with one handle less.
LEMMA ClosedKeeps ==
    ASSUME Ordered, NEW p \in Progs, CloseOther(p) \/ PoweredOff(p)
    PROVE  Ordered'
<1>1. /\ pc[p] \in {"using", "powers_off"} /\ pc' = [pc EXCEPT ![p] = "closed"]
      /\ todo[p] = <<>> /\ mutex' = {} /\ OpenCtr' = OpenCtr - 1
      /\ pc[p] = "using" => mutex = {}
      /\ UNCHANGED <<pio, job, todo, seen, sessions>>
  BY DEF CloseOther, PoweredOff, Closed, pins, started
<1>2. Handles' = Handles \ {p} /\ p \in Handles
  BY <1>1 DEF Ordered, Typed, Handles
<1>3. OpenCtr' = Cardinality(Handles') /\ OpenCtr' \in Nat
  <2>1. /\ IsFiniteSet(Handles \ {p}) /\ Cardinality(Handles \ {p}) = Cardinality(Handles) - 1
        /\ Cardinality(Handles \ {p}) \in Nat
    BY <1>2, FiniteHandles, FS_RemoveElement, FS_CardinalityType
  <2> QED
    BY <1>1, <1>2, <2>1 DEF Ordered, Counted
<1>4. Typed'
  BY <1>1, <1>3 DEF Ordered, Typed, Locations
<1>5. \A q \in Progs \ {p} : pc[q] \notin {"powers_on", "powers_off"}
  BY <1>1 DEF Ordered, Typed, Counted
<1>6. Counted'
  BY <1>1, <1>3, <1>5 DEF Ordered, Typed, Counted
<1>7. Rests(p)'
  <2>1. Agenda(p)' = <<>>
    BY <1>1 DEF Agenda, Ordered, Typed
  <2>2. seen'[p] = NoRead /\ todo'[p] = <<>>
    BY <1>1, Idle DEF Ordered
  <2> QED
    BY <2>1, <2>2, EmptySeq, EntersRests
<1> QED
  BY <1>1, <1>4, <1>6, <1>7, Moves DEF Ordered, Typed
\* The three steps of a set leave the programs where they are.
LEMMA SetKeeps ==
    ASSUME Ordered, NEW p \in Progs, todo[p] # <<>>,
           UNCHANGED <<pc, job, OpenCtr, mutex, sessions>>,
           pio' \in [Registers -> SUBSET Bits],
           seen' \in [Progs -> (SUBSET Bits) \cup {NoRead}],
           todo' \in [Progs -> Seq(Sets)], Rests(p)',
           \A q \in Progs \ {p} : todo'[q] = todo[q] /\ seen'[q] = seen[q]
    PROVE  Ordered'
<1>1. Typed'
  BY DEF Ordered, Typed
<1>2. Handles' = Handles
  BY DEF Handles
<1>3. Counted'
  BY <1>2 DEF Ordered, Counted
<1>4. ASSUME NEW q \in Progs, q # p PROVE Rests(q)'
  BY <1>4, StaysRests DEF Ordered
<1> QED
  BY <1>1, <1>3, <1>4 DEF Ordered

LEMMA SetRefusedKeeps ==
    ASSUME Ordered, NEW p \in Progs, SetRefused(p)
    PROVE  Ordered' /\ Done(p)' = Done(p) + 1
<1>1. /\ todo[p] # <<>> /\ seen[p] = NoRead /\ todo' = [todo EXCEPT ![p] = Tail(@)]
      /\ UNCHANGED <<pc, job, OpenCtr, mutex, sessions, pio, seen>>
  BY DEF SetRefused, driver, pins, started
<1>2. Rests(p)' /\ Done(p)' = Done(p) + 1
  BY <1>1, NextRests DEF Ordered
<1>3. todo' \in [Progs -> Seq(Sets)]
  BY <1>1 DEF Ordered, Typed
<1> QED
  BY <1>1, <1>2, <1>3, SetKeeps DEF Ordered, Typed

LEMMA SetReadsKeeps ==
    ASSUME Ordered, NEW p \in Progs, SetReads(p)
    PROVE  Ordered' /\ Done(p)' = Done(p)
<1>1. /\ todo[p] # <<>> /\ Settable(Target(p)) /\ Accepted(Target(p), Argument(p))
      /\ seen' = [seen EXCEPT ![p] = pio[Target(p).reg]]
      /\ UNCHANGED <<pc, job, todo, OpenCtr, mutex, sessions, pio>>
  BY DEF SetReads, driver, pins, started
<1>2. Agenda(p)' = Agenda(p) /\ Done(p)' = Done(p)
  BY <1>1 DEF Agenda, Done
<1>3. Rests(p)'
  BY <1>1, <1>2 DEF Ordered, Rests, Target, Argument
<1>4. Target(p).reg \in Registers
  BY <1>1, TargetIs DEF Ordered, Registers
<1>5. seen' \in [Progs -> (SUBSET Bits) \cup {NoRead}]
  BY <1>1, <1>4 DEF Ordered, Typed
<1>6. \A q \in Progs \ {p} : todo'[q] = todo[q] /\ seen'[q] = seen[q]
  BY <1>1 DEF Ordered, Typed
<1> QED
  BY <1>1, <1>2, <1>3, <1>5, <1>6, SetKeeps DEF Ordered, Typed

\* What writel makes of the registers.
LEMMA Written ==
    ASSUME Ordered, NEW p \in Progs, SetWrites(p)
    PROVE  /\ todo[p] # <<>> /\ seen[p] \in SUBSET Bits
           /\ Target(p) \in Layout /\ Argument(p) \in SUBSET Bits
           /\ Settable(Target(p)) /\ Accepted(Target(p), Argument(p))
           /\ pio' = [pio EXCEPT ![Target(p).reg] = SetField(seen[p], Target(p), Argument(p))]
           /\ SetField(seen[p], Target(p), Argument(p)) \in SUBSET Bits
           /\ todo' = [todo EXCEPT ![p] = Tail(@)] /\ seen' = [seen EXCEPT ![p] = NoRead]
           /\ UNCHANGED <<pc, job, OpenCtr, mutex, sent, sessions>>
<1>1. /\ seen[p] # NoRead /\ todo' = [todo EXCEPT ![p] = Tail(@)]
      /\ seen' = [seen EXCEPT ![p] = NoRead]
      /\ pio' = [pio EXCEPT ![Target(p).reg] = SetField(seen[p], Target(p), Argument(p))]
      /\ UNCHANGED <<pc, job, OpenCtr, mutex, sent, sessions>>
  BY DEF SetWrites, WriteRegister, driver, started
<1>2. /\ todo[p] # <<>> /\ Settable(Target(p)) /\ Accepted(Target(p), Argument(p))
      /\ seen[p] \in SUBSET Bits
  BY <1>1 DEF Ordered, Rests, Typed
<1>3. Target(p) \in Layout /\ Argument(p) \in SUBSET Bits
  BY <1>2, TargetIs DEF Ordered
<1> QED
  BY <1>1, <1>2, <1>3, SetIsWord

LEMMA SetWritesKeeps ==
    ASSUME Ordered, NEW p \in Progs, SetWrites(p)
    PROVE  Ordered' /\ Done(p)' = Done(p) + 1
<1>1. /\ todo[p] # <<>> /\ todo' = [todo EXCEPT ![p] = Tail(@)]
      /\ seen' = [seen EXCEPT ![p] = NoRead]
      /\ UNCHANGED <<pc, job, OpenCtr, mutex, sessions>>
  BY Written
<1>2. Rests(p)' /\ Done(p)' = Done(p) + 1
  <2>1. seen'[p] = NoRead
    BY <1>1 DEF Ordered, Typed
  <2> QED
    BY <1>1, <2>1, NextRests DEF Ordered
<1>3. todo' \in [Progs -> Seq(Sets)] /\ seen' \in [Progs -> (SUBSET Bits) \cup {NoRead}]
  BY <1>1 DEF Ordered, Typed
<1>4. pio' \in [Registers -> SUBSET Bits]
  BY Written DEF Ordered, Typed
<1>5. \A q \in Progs \ {p} : todo'[q] = todo[q] /\ seen'[q] = seen[q]
  BY <1>1 DEF Ordered, Typed
<1> QED
  BY <1>1, <1>2, <1>3, <1>4, <1>5, SetKeeps

LEMMA NextOrdered == Ordered /\ [Next]_vars => Ordered'
<1> SUFFICES ASSUME Ordered, [Next]_vars
             PROVE  Ordered'
  OBVIOUS
<1>1. CASE Next
  <2> PICK p \in Progs :
        \/ \E s \in Sessions : Start(p, s)
        \/ OpenFirst(p) \/ OpenAgain(p) \/ PoweredOn(p)
        \/ SetRefused(p) \/ SetReads(p) \/ SetWrites(p)
        \/ CloseLast(p) \/ CloseOther(p) \/ PoweredOff(p)
    BY <1>1 DEF Next
  <2> QED
    BY StartKeeps, OpenFirstKeeps, OpenedKeeps, SetRefusedKeeps, SetReadsKeeps, SetWritesKeeps,
       CloseLastKeeps, ClosedKeeps
<1>2. CASE UNCHANGED vars
  <2>1. \A q \in Progs : Rests(q)'
    BY <1>2, StaysRests DEF Ordered, vars, driver, pins, started
  <2>2. Handles' = Handles
    BY <1>2 DEF Handles, vars, driver, pins, started
  <2>3. Typed' /\ Counted'
    BY <1>2, <2>2 DEF Ordered, Typed, Counted, vars, driver, pins, started
  <2> QED
    BY <2>1, <2>3 DEF Ordered
<1> QED
  BY <1>1, <1>2

-------------------------------------------------------------------------------
(* What was last set in a field, and what its register holds *)

\* Programs amid sets of one register have exposed the fields they set.
Overlapped ==
    \A p, q \in Progs :
        /\ p # q /\ seen[p] # NoRead /\ seen[q] # NoRead /\ Target(p).reg = Target(q).reg
        => Target(p) \in exposed

\* The word a set was made from has every field that is not exposed as the register does.
Fresh ==
    \A p \in Progs : seen[p] # NoRead =>
        \A f \in Layout \ exposed :
            f.reg = Target(p).reg => GetField(seen[p], f) = GetField(pio[f.reg], f)

Kept ==
    /\ Ordered /\ Overlapped /\ Fresh
    /\ exposed \subseteq Layout /\ shared \subseteq Chips
    /\ lastset \in [Layout -> SUBSET Bits] /\ FieldsHoldLastSet

\* The set a program makes next is one of its agenda.
LEMMA FirstOfAgenda ==
    ASSUME Ordered, NEW p \in Progs, todo[p] # <<>>
    PROVE  /\ Done(p) + 1 \in 1 .. Len(Agenda(p)) /\ Len(Agenda(p)) \in Nat /\ Done(p) \in Nat
           /\ todo[p][1] = Agenda(p)[Done(p) + 1]
           /\ pc[p] \in {"powers_on", "using", "powers_off"}
<1>1. Len(Agenda(p)) \in Nat
  BY AgendaIsSeq, LenProperties DEF Ordered
<1>2. Len(todo[p]) \in Nat /\ Len(todo[p]) > 0
  BY LenProperties, EmptySeq DEF Ordered, Typed
<1>3. Done(p) = Len(Agenda(p)) - Len(todo[p]) /\ Len(todo[p]) <= Len(Agenda(p))
  BY DEF Done, Ordered, Rests
<1>4. todo[p][1] = Agenda(p)[Done(p) + 1]
  BY <1>2 DEF Ordered, Rests
<1>5. pc[p] \notin {"closed", "opening"}
  BY Idle DEF Ordered
<1> QED
  BY <1>1, <1>2, <1>3, <1>4, <1>5 DEF Ordered, Typed, Locations

\* A set makes of its field what was set, whatever word it was made from, and of every
\* field it neither names nor reaches what that word has.
LEMMA WritesWord ==
    ASSUME Kept, NEW p \in Progs, SetWrites(p), NEW g \in Layout \ exposed',
           g.reg = Target(p).reg
    PROVE  GetField(pio'[g.reg], g) =
             IF g = Target(p) THEN Argument(p) \cap (0 .. g.width - 1)
                              ELSE GetField(pio[g.reg], g)
<1> DEFINE f == Target(p)
           arg == Argument(p)
<1>1. /\ f \in Layout /\ arg \in SUBSET Bits /\ seen[p] \in SUBSET Bits /\ seen[p] # NoRead
      /\ pio' = [pio EXCEPT ![f.reg] = SetField(seen[p], f, arg)]
  <2>1. seen[p] # NoRead
    BY DEF SetWrites
  <2> QED
    BY <2>1, Written DEF Kept
<1>2. g \notin exposed /\ g \notin Reached(f, arg)
  BY DEF SetWrites
<1>3. pio'[g.reg] = SetField(seen[p], f, arg)
  <2>1. g.reg \in Registers
    BY DEF Registers
  <2> QED
    BY <1>1, <2>1 DEF Kept, Ordered, Typed
<1>4. CASE g = f
  <2>1. InWord(f)
    BY <1>1, LayoutInWord
  <2>2. GetField(SetField(seen[p], f, arg), f) = arg \cap (0 .. f.width - 1)
    BY <1>1, <2>1, SetOwnField
  <2> QED
    BY <1>3, <1>4, <2>2
<1>5. CASE g # f
  <2>1. GetField(SetField(seen[p], f, arg), g) = GetField(seen[p], g)
    BY <1>1, <1>2, <1>5, SetSparesUnreached
  <2>2. GetField(seen[p], g) = GetField(pio[g.reg], g)
    BY <1>1, <1>2 DEF Kept, Fresh
  <2> QED
    BY <1>3, <1>5, <2>1, <2>2
<1> QED
  BY <1>4, <1>5

LEMMA WritesField ==
    ASSUME Kept, NEW p \in Progs, SetWrites(p)
    PROVE  /\ lastset' = [lastset EXCEPT ![Target(p)] =
                            Argument(p) \cap (0 .. Target(p).width - 1)]
           /\ lastset' \in [Layout -> SUBSET Bits] /\ FieldsHoldLastSet'
<1> DEFINE f == Target(p)
           low == Argument(p) \cap (0 .. f.width - 1)
<1>1. /\ f \in Layout /\ low \in SUBSET Bits
      /\ \E w : pio' = [pio EXCEPT ![f.reg] = w]
  BY Written DEF Kept
<1>2. lastset' = [lastset EXCEPT ![f] = low] /\ exposed \subseteq exposed'
  BY DEF SetWrites
<1>3. lastset' \in [Layout -> SUBSET Bits]
  BY <1>1, <1>2 DEF Kept
<1>4. ASSUME NEW g \in Layout \ exposed'
      PROVE  GetField(pio'[g.reg], g) = lastset'[g]
  <2>1. lastset'[g] = IF g = f THEN low ELSE lastset[g]
    BY <1>2 DEF Kept
  <2>2. GetField(pio[g.reg], g) = lastset[g]
    BY <1>2 DEF Kept, FieldsHoldLastSet
  <2>3. CASE g.reg = f.reg
    BY <2>1, <2>2, <2>3, WritesWord
  <2>4. CASE g.reg # f.reg
    <3>1. g.reg \in Registers
      BY DEF Registers
    <3>2. pio'[g.reg] = pio[g.reg]
      BY <1>1, <2>4, <3>1 DEF Kept, Ordered, Typed
    <3> QED
      BY <2>1, <2>2, <2>4, <3>2
  <2> QED
    BY <2>3, <2>4
<1> QED
  BY <1>2, <1>3, <1>4 DEF FieldsHoldLastSet

\* A set writes to a register that others have read only with its field exposed: what
\* they have read of the other fields is still there.
LEMMA WritesKeepFresh ==
    ASSUME Kept, NEW p \in Progs, SetWrites(p)
    PROVE  Fresh' /\ Overlapped'
<1>1. /\ todo[p] # <<>> /\ todo' = [todo EXCEPT ![p] = Tail(@)] /\ seen[p] # NoRead
      /\ seen' = [seen EXCEPT ![p] = NoRead]
      /\ \E w : pio' = [pio EXCEPT ![Target(p).reg] = w]
  <2>1. seen[p] # NoRead
    BY DEF SetWrites
  <2> QED
    BY <2>1, Written DEF Kept
<1>2. ASSUME NEW q \in Progs, seen'[q] # NoRead
      PROVE  /\ q # p /\ seen'[q] = seen[q] /\ Target(q)' = Target(q)
  <2>1. q # p
    BY <1>1, <1>2 DEF Kept, Ordered, Typed
  <2> QED
    BY <1>1, <2>1 DEF Kept, Ordered, Typed, Target
<1>3. exposed \subseteq exposed'
  BY DEF SetWrites
<1>4. ASSUME NEW q \in Progs, seen'[q] # NoRead,
             NEW g \in Layout \ exposed', g.reg = Target(q)'.reg
      PROVE  GetField(seen'[q], g) = GetField(pio'[g.reg], g)
  <2>1. q # p /\ seen'[q] = seen[q] /\ g.reg = Target(q).reg
    BY <1>2, <1>4
  <2>2. GetField(seen'[q], g) = GetField(pio[g.reg], g)
    BY <1>3, <1>4, <2>1 DEF Kept, Fresh
  <2>3. CASE g.reg = Target(p).reg
    <3>1. Target(p) \in exposed
      BY <1>1, <1>4, <2>1, <2>3 DEF Kept, Overlapped
    <3>2. g # Target(p)
      BY <1>3, <3>1
    <3> QED
      BY <2>2, <2>3, <3>2, WritesWord
  <2>4. CASE g.reg # Target(p).reg
    <3>1. g.reg \in Registers
      BY DEF Registers
    <3> QED
      BY <1>1, <2>2, <2>4, <3>1 DEF Kept, Ordered, Typed
  <2> QED
    BY <2>3, <2>4
<1>5. Overlapped'
  BY <1>2, <1>3 DEF Kept, Overlapped
<1> QED
  BY <1>4, <1>5 DEF Fresh

\* A set that is begun while others are amid theirs exposes its field and those.
LEMMA ReadsKeepFresh ==
    ASSUME Kept, NEW p \in Progs, SetReads(p)
    PROVE  Fresh' /\ Overlapped' /\ exposed' \subseteq Layout
<1>1. /\ UNCHANGED <<pio, todo>> /\ todo[p] # <<>> /\ seen[p] = NoRead
      /\ seen' = [seen EXCEPT ![p] = pio[Target(p).reg]]
      /\ exposed' = exposed \cup UNION {{Target(p), Target(q)} : q \in Amid(Target(p).reg)}
  BY DEF SetReads
<1>2. \A q \in Progs : /\ Target(q)' = Target(q)
                       /\ seen'[q] = IF q = p THEN pio[Target(p).reg] ELSE seen[q]
  BY <1>1 DEF Kept, Ordered, Typed, Target
<1>3. exposed \subseteq exposed'
  BY <1>1
<1>4. \A q \in Progs : q # p /\ seen[q] # NoRead /\ Target(q).reg = Target(p).reg =>
                         Target(p) \in exposed' /\ Target(q) \in exposed'
  BY <1>1 DEF Amid
<1>5. Overlapped'
  <2> SUFFICES ASSUME NEW q \in Progs, NEW r \in Progs, q # r, seen'[q] # NoRead,
                      seen'[r] # NoRead, Target(q).reg = Target(r).reg
               PROVE  Target(q) \in exposed'
    BY <1>2 DEF Overlapped
  <2> QED
    BY <1>2, <1>3, <1>4 DEF Kept, Overlapped
<1>6. Fresh'
  <2> SUFFICES ASSUME NEW q \in Progs, seen'[q] # NoRead,
                      NEW f \in Layout \ exposed', f.reg = Target(q).reg
               PROVE  GetField(seen'[q], f) = GetField(pio[f.reg], f)
    BY <1>1, <1>2 DEF Fresh
  <2>1. CASE q = p
    BY <1>2, <2>1
  <2>2. CASE q # p
    BY <1>2, <1>3, <2>2 DEF Kept, Fresh
  <2> QED
    BY <2>1, <2>2
<1>7. \A q \in Amid(Target(p).reg) : Target(q) \in Layout
  BY TargetIs DEF Amid, Kept, Ordered, Rests
<1>8. Target(p) \in Layout
  BY <1>1, TargetIs DEF Kept, Ordered
<1> QED
  BY <1>1, <1>5, <1>6, <1>7, <1>8 DEF Kept

LEMMA InitKept == Init => Kept
<1> SUFFICES ASSUME Init PROVE Kept
  OBVIOUS
<1>1. Overlapped /\ Fresh /\ exposed \subseteq Layout /\ shared \subseteq Chips
  BY DEF Init, Overlapped, Fresh
<1>2. lastset = [f \in Layout |-> GetField(pio[f.reg], f)]
  BY DEF Init
<1>3. FieldsHoldLastSet
  BY <1>2 DEF FieldsHoldLastSet
<1>4. ASSUME NEW f \in Layout PROVE GetField(pio[f.reg], f) \in SUBSET Bits
  <2>1. InWord(f)
    BY LayoutInWord
  <2> QED
    BY <2>1 DEF GetField, Span, InWord, Bits, WordBits
<1> QED
  BY <1>1, <1>2, <1>3, <1>4, InitOrdered DEF Kept

\* A step that makes no set: those under way go on.
LEMMA NoSetKept ==
    ASSUME Kept, Ordered', NEW p \in Progs, seen[p] = NoRead,
           \A q \in Progs \ {p} : todo'[q] = todo[q],
           UNCHANGED <<pio, lastset, exposed, seen>>, shared' \subseteq Chips
    PROVE  Kept'
<1>1. \A q \in Progs : seen[q] # NoRead => Target(q)' = Target(q)
  BY DEF Target
<1>2. Overlapped'
  BY <1>1 DEF Kept, Overlapped
<1>3. Fresh'
  BY <1>1 DEF Kept, Fresh
<1>4. FieldsHoldLastSet'
  BY DEF Kept, FieldsHoldLastSet
<1> QED
  BY <1>2, <1>3, <1>4 DEF Kept

\* Opening and closing neither starts a program nor sets a pin.
LEMMA MovesKept ==
    ASSUME Kept, NEW p \in Progs,
           \/ OpenFirst(p) \/ OpenAgain(p) \/ PoweredOn(p)
           \/ CloseLast(p) \/ CloseOther(p) \/ PoweredOff(p)
    PROVE  /\ UNCHANGED <<pio, lastset, exposed, shared, shift, latched, sent, job, seen>>
           /\ seen[p] = NoRead /\ \A q \in Progs \ {p} : todo'[q] = todo[q]
<1>1. /\ UNCHANGED <<pio, lastset, exposed, shared, shift, latched, sent, job, seen>>
      /\ \A q \in Progs \ {p} : todo'[q] = todo[q]
  BY DEF OpenFirst, OpenAgain, PoweredOn, CloseLast, CloseOther, PoweredOff, Opened, Closed,
         pins, started, Kept, Ordered, Typed
<1>2. seen[p] = NoRead
  BY Idle DEF OpenFirst, OpenAgain, PoweredOn, CloseLast, CloseOther, PoweredOff, Kept, Ordered
<1> QED
  BY <1>1, <1>2

LEMMA NextKept == Kept /\ [Next]_vars => Kept'
<1> SUFFICES ASSUME Kept, [Next]_vars
             PROVE  Kept'
  OBVIOUS
<1>0. Ordered'
  BY NextOrdered DEF Kept
<1>1. ASSUME NEW p \in Progs, NEW s \in Sessions, Start(p, s) PROVE Kept'
  <2>1. UNCHANGED <<pio, lastset, exposed, todo, seen>> /\ pc[p] = "closed"
    BY <1>1 DEF Start, pins
  <2>2. shared' \subseteq Chips
    BY <1>1 DEF Start, ChipOf, Kept
  <2>3. seen[p] = NoRead
    BY <2>1, Idle DEF Kept, Ordered
  <2> QED
    BY <1>0, <2>1, <2>2, <2>3, NoSetKept
<1>2. ASSUME NEW p \in Progs,
             \/ OpenFirst(p) \/ OpenAgain(p) \/ PoweredOn(p)
             \/ CloseLast(p) \/ CloseOther(p) \/ PoweredOff(p)
      PROVE Kept'
  <2>1. /\ UNCHANGED <<pio, lastset, exposed, seen, shared>>
        /\ seen[p] = NoRead /\ \A q \in Progs \ {p} : todo'[q] = todo[q]
    BY <1>2, MovesKept
  <2> QED
    BY <1>0, <2>1, NoSetKept DEF Kept
<1>3. ASSUME NEW p \in Progs, SetRefused(p) PROVE Kept'
  <2>1. /\ UNCHANGED <<pio, lastset, exposed, seen, shared>> /\ seen[p] = NoRead
        /\ \A q \in Progs \ {p} : todo'[q] = todo[q]
    BY <1>3 DEF SetRefused, pins, started, Kept, Ordered, Typed
  <2> QED
    BY <1>0, <2>1, NoSetKept DEF Kept
<1>4. ASSUME NEW p \in Progs, SetReads(p) PROVE Kept'
  <2>1. UNCHANGED <<pio, lastset, shared>> /\ exposed \subseteq exposed'
    BY <1>4 DEF SetReads, started
  <2>2. FieldsHoldLastSet'
    BY <2>1 DEF Kept, FieldsHoldLastSet
  <2> QED
    BY <1>0, <1>4, <2>1, <2>2, ReadsKeepFresh DEF Kept
<1>5. ASSUME NEW p \in Progs, SetWrites(p) PROVE Kept'
  <2>1. UNCHANGED shared /\ exposed' \subseteq Layout
    BY <1>5 DEF SetWrites, started, Reached, Kept
  <2> QED
    BY <1>0, <1>5, <2>1, WritesField, WritesKeepFresh DEF Kept
<1>6. CASE UNCHANGED vars
  <2>1. UNCHANGED <<pio, lastset, exposed, shared, todo, seen>>
    BY <1>6 DEF vars, pins, started
  <2>2. \A q \in Progs : Target(q)' = Target(q)
    BY <2>1 DEF Target
  <2>3. Fresh' /\ Overlapped' /\ FieldsHoldLastSet'
    BY <2>1, <2>2 DEF Kept, Fresh, Overlapped, FieldsHoldLastSet
  <2> QED
    BY <1>0, <2>1, <2>3 DEF Kept
<1> QED
  BY <1>1, <1>2, <1>3, <1>4, <1>5, <1>6 DEF Next

\* The invariant for any programs and any sessions, whichever registers they share.
LEMMA AlwaysKept == Spec => []Kept
  BY InitKept, NextKept, PTL DEF Spec

\* langford.c:819-823 and ioctl_helper: what a program has read and has still to set are
\* words and fields of the registers, and cdev_open_close_mutex and OpenCtr are those of
\* at most one open or close at a time and of at most as many handles as programs.
THEOREM TypesCorrect == Spec => []TypeOK
<1>1. Kept => TypeOK
  <2> SUFFICES ASSUME Kept PROVE TypeOK
    OBVIOUS
  <2>0. Ordered
    BY DEF Kept
  <2>1. \A p \in Progs : seen[p] = NoRead \/ seen[p] \subseteq Bits
    BY <2>0 DEF Ordered, Typed
  <2>2. \A p \in Progs : todo[p] # <<>> => Target(p) \in Layout /\ Argument(p) \subseteq Bits
    BY <2>0, TargetIs DEF Ordered
  <2>3. OpenCtr \in 0 .. Cardinality(Progs)
    <3>1. Handles \subseteq Progs
      BY DEF Handles
    <3> QED
      BY <2>0, <3>1, PinBusAssumption, FS_Subset, FS_CardinalityType DEF Ordered, Typed, Counted
  <2>4. Cardinality(mutex) <= 1
    <3>1. mutex = {} \/ \E p \in mutex : mutex = {p}
      BY <2>0 DEF Ordered, Counted
    <3> QED
      BY <3>1, FS_EmptySet, FS_Singleton
  <2> QED
    BY <2>0, <2>1, <2>2, <2>3, <2>4 DEF TypeOK, Ordered, Typed, Locations, Kept
<1> QED
  BY <1>1, AlwaysKept, PTL

\* langford.c:636 and its like: for any programs, any sessions and any arguments, with
\* nothing to keep sets of one register from overlapping, a field holds what was last
\* set in it unless a set of its own overlapped with another of the register or another
\* field's set reached over its bits.
THEOREM FieldsAsLastSet == Spec => []FieldsHoldLastSet
<1>1. Kept => FieldsHoldLastSet
  BY DEF Kept
<1> QED
  BY <1>1, AlwaysKept, PTL
-------------------------------------------------------------------------------
(* The radio is powered while programs use it *)

\* langford_util is not given the pins that PowerPeriph sets.
PeriphLeftAlone ==
    \A s \in Sessions : s.kind = "util" => Field(s.pin) \notin PeriphFields

\* The first n sets of PowerPeriph(on) are in force.
PeriphSet(on, n) ==
    \A i \in 1 .. n : lastset[PowerPeriph(on)[i][1]] = PowerPeriph(on)[i][2]

Powered ==
    /\ Handles = {} /\ mutex = {} => PeriphSet(FALSE, 11)
    /\ \A p \in Progs :
         /\ pc[p] = "using" => PeriphSet(TRUE, 11)
         /\ pc[p] = "powers_on" => PeriphSet(TRUE, Done(p))
         /\ pc[p] = "powers_off" => PeriphSet(FALSE, Done(p))

LEMMA ScriptSparesPeriph ==
    ASSUME PeriphLeftAlone, NEW s \in Sessions
    PROVE  Script(s) \in Seq({set \in Sets : set[1] \notin PeriphFields})
<1> DEFINE Others == {set \in Sets : set[1] \notin PeriphFields}
<1>1. CASE s.kind \in {"adc", "synth", "vga"}
  <2>1. WiredFields \cap PeriphFields = {}
    BY SMTT(30) DEF WiredFields, PeriphFields, FieldAt
  <2>2. Wires \subseteq Others
    BY <2>1, WiresAreSets DEF Wires
  <2>3. s.chip \in Chips /\ Script(s) \in Seq(ChipWires(s.chip))
    BY <1>1, ScriptOf, SessionKinds, Wired
  <2>4. Script(s) \in Seq(Wires)
    BY <2>3, ChipWiresAreWires, SeqMonotonic
  <2> QED
    BY <2>2, <2>4, SeqMonotonic
<1>2. CASE s.kind = "ddc"
  <2>1. /\ Field("RXPhase") \notin PeriphFields /\ Field("TXPhase") \notin PeriphFields
        /\ Field("RXRevFreq") \notin PeriphFields /\ Field("TXRevFreq") \notin PeriphFields
    BY DdcAt, SMTT(30) DEF PeriphFields, FieldAt
  <2>2. Script(s) = SetDDCFreq(s) /\ Script(s) \in Seq(Sets)
    BY <1>2, ScriptOf, ScriptIsSeq
  <2>3. Len(Script(s)) = 2 /\ Script(s)[1][1] \notin PeriphFields /\ Script(s)[2][1] \notin PeriphFields
    BY <2>1, <2>2 DEF SetDDCFreq
  <2>4. \A i \in 1 .. Len(Script(s)) : Script(s)[i] \in Others
    BY <2>2, <2>3, ElementOfSeq
  <2>5. Script(s) \in [1 .. Len(Script(s)) -> Others] /\ Len(Script(s)) \in Nat
    BY <2>2, <2>4, LenProperties
  <2> QED
    BY <2>5, FunctionIsSeq
<1>3. CASE s.kind = "util"
  <2>1. Script(s) = <<<<Field(s.pin), s.arg>>>> /\ Script(s) \in Seq(Sets)
    BY <1>3, ScriptOf, ScriptIsSeq
  <2>2. <<Field(s.pin), s.arg>> \in Others
    BY <1>3, <2>1 DEF PeriphLeftAlone
  <2> QED
    BY <2>1, <2>2
<1> QED
  BY <1>1, <1>2, <1>3, SessionKinds

\* While a program makes its calls, the pins of PowerPeriph are left alone.
LEMMA SparesPeriph ==
    ASSUME Ordered, PeriphLeftAlone, NEW p \in Progs, todo[p] # <<>>, pc[p] = "using"
    PROVE  Target(p) \notin PeriphFields
<1> DEFINE Others == {set \in Sets : set[1] \notin PeriphFields}
<1>1. Agenda(p) = Script(job[p]) /\ job[p] \in Sessions
  BY DEF Agenda, Ordered, Typed
<1>2. Agenda(p) \in Seq(Others)
  BY <1>1, ScriptSparesPeriph
<1>3. todo[p][1] \in Others
  BY <1>2, FirstOfAgenda, ElementOfSeq
<1> QED
  BY <1>3 DEF Target

\* The sets of PowerPeriph: legal, and of one pin each.
LEMMA PowerSet ==
    ASSUME NEW on \in BOOLEAN, NEW i \in 1 .. 11
    PROVE  /\ PowerPeriph(on)[i][1] \in PeriphFields /\ PowerPeriph(on)[i][1] \in Layout
           /\ PowerPeriph(on)[i][2] \in Level
           /\ Settable(PowerPeriph(on)[i][1])
           /\ Accepted(PowerPeriph(on)[i][1], PowerPeriph(on)[i][2])
<1>1. PowerPeriph(on)[i] \in PowerSets
  BY PowerPeriphIs, ElementOfSeq
<1>2. PowerPeriph(on)[i][1] \in PeriphFields /\ PowerPeriph(on)[i][2] \in Level
  BY <1>1 DEF PowerSets
<1> QED
  BY <1>2, PeriphAt, LevelFits DEF Settable

\* Where PowerPeriph runs.
LEMMA PowersAt ==
    ASSUME Ordered, NEW p \in Progs, NEW on \in BOOLEAN,
           pc[p] = (IF on THEN "powers_on" ELSE "powers_off")
    PROVE  /\ Agenda(p) = PowerPeriph(on) /\ mutex = {p}
           /\ Done(p) \in 0 .. 11 /\ (todo[p] = <<>> => Done(p) = 11)
           /\ todo[p] # <<>> =>
                /\ Done(p) + 1 \in 1 .. 11
                /\ Target(p) = PowerPeriph(on)[Done(p) + 1][1]
                /\ Argument(p) = PowerPeriph(on)[Done(p) + 1][2]
           /\ \A q \in Progs \ {p} : pc[q] \in {"closed", "opening"}
<1>1. Agenda(p) = PowerPeriph(on) /\ Len(Agenda(p)) = 11
  BY PowerPeriphIs DEF Agenda
<1>2. Len(todo[p]) \in Nat /\ Len(todo[p]) <= 11 /\ Done(p) = 11 - Len(todo[p])
  BY <1>1, LenProperties DEF Ordered, Typed, Rests, Done
<1>3. todo[p] = <<>> => Done(p) = 11
  BY <1>2
<1>4. todo[p] # <<>> => /\ Done(p) + 1 \in 1 .. 11
                        /\ Target(p) = PowerPeriph(on)[Done(p) + 1][1]
                        /\ Argument(p) = PowerPeriph(on)[Done(p) + 1][2]
  BY <1>1, FirstOfAgenda DEF Target, Argument
<1>5. mutex = {p} /\ \A q \in Progs \ {p} : pc[q] \in {"closed", "opening"}
  <2>1. p \in mutex
    BY DEF Ordered, Counted
  <2>2. \A q \in Progs \ {p} : q \notin mutex /\ q \notin Handles
    BY <2>1 DEF Ordered, Counted
  <2> QED
    BY <2>1, <2>2 DEF Ordered, Typed, Counted, Handles, Locations
<1>6. Done(p) \in 0 .. 11
  <2>1. \A n \in Nat : n <= 11 => 11 - n \in 0 .. 11
    OBVIOUS
  <2> QED
    BY <1>2, <2>1
<1> QED
  BY <1>1, <1>3, <1>4, <1>5, <1>6

\* The others have done as much as before.
LEMMA SameDone ==
    ASSUME NEW q \in Progs, pc'[q] = pc[q], job'[q] = job[q], todo'[q] = todo[q]
    PROVE  Done(q)' = Done(q) /\ Agenda(q)' = Agenda(q)
<1>1. Agenda(q)' = Agenda(q)
  BY DEF Agenda
<1> QED
  BY <1>1 DEF Done

LEMMA InitPowered == Init => Powered
<1> SUFFICES ASSUME Init PROVE Powered
  OBVIOUS
<1>1. PICK all \in {{}, Bits} :
        pio = [r \in Registers |->
                 SetFields(all, {set \in ToSet(PowerPeriph(FALSE)) : set[1].reg = r})]
  BY DEF Init
<1>2. ASSUME NEW i \in 1 .. 11
      PROVE  lastset[PowerPeriph(FALSE)[i][1]] = PowerPeriph(FALSE)[i][2]
  <2> DEFINE P == PowerPeriph(FALSE)
             f == P[i][1]
             sets == {set \in ToSet(P) : set[1].reg = f.reg}
  <2>1. DOMAIN P = 1 .. 11
    BY PowerPeriphIs, LenProperties
  <2>2. f \in Layout /\ P[i][2] \in Level
    BY PowerSet
  <2>3. f.reg \in Registers /\ lastset[f] = GetField(pio[f.reg], f)
    BY <2>2 DEF Init, Registers
  <2>4. pio[f.reg] = SetFields(all, sets)
    BY <1>1, <2>3
  <2>5. Together(sets, f.reg)
    <3>1. \A set \in sets : \E k \in 1 .. 11 : set = P[k] /\ set[1].reg = f.reg
      BY <2>1 DEF ToSet
    <3>2. ASSUME NEW set \in sets
          PROVE  /\ set[1] \in Layout /\ set[1].reg = f.reg /\ Fits(set[1], set[2])
                 /\ \A g \in Layout : ~Share(set[1], g)
      <4>1. PICK k \in 1 .. 11 : set = P[k] /\ set[1].reg = f.reg
        BY <3>1
      <4>2. P[k][1] \in PeriphFields /\ P[k][2] \in Level
        BY PowerSet
      <4>3. set[1] \in Layout /\ set[1].width = 1 /\ set[1].name \notin {"GPIOout", "RxBaseband"}
        BY <4>1, <4>2, PeriphAt
      <4>4. Fits(set[1], set[2])
        BY <4>1, <4>2, <4>3, LevelFits
      <4>5. \A g \in Layout : ~Share(set[1], g)
        BY <4>3 DEF Share
      <4> QED
        BY <4>1, <4>3, <4>4, <4>5
    <3>3. \A set, other \in sets : set[1] = other[1] => set[2] = other[2]
      <4> HIDE DEF P, sets
      <4>1. \A j, k \in 1 .. 11 : j # k => P[j][1] # P[k][1]
        BY PowerPeriphIs DEF P
      <4> QED
        BY <3>1, <4>1
    <3> QED
      BY <3>2, <3>3 DEF Together
  <2>6. P[i] \in sets
    BY <2>1 DEF ToSet
  <2>7. all \in SUBSET Bits
    OBVIOUS
  <2>9. P[i][1] = f
    OBVIOUS
  <2> HIDE DEF sets, P, f
  <2>8. GetField(SetFields(all, sets), f) = P[i][2]
    <3>1. \A set \in sets : set[1] = f => GetField(SetFields(all, sets), f) = set[2]
      BY <2>2, <2>5, <2>7, SetFieldsInLayout
    <3> QED
      BY <2>6, <2>9, <3>1
  <2> QED
    BY <2>3, <2>4, <2>8, <2>9 DEF P
<1>3. PeriphSet(FALSE, 11)
  BY <1>2 DEF PeriphSet
<1> QED
  BY <1>3 DEF Init, Powered
\* A step of a program that sets no pin: how it stands with the others.
LEMMA OthersPowered ==
    ASSUME Kept, Powered, NEW p \in Progs, NEW l, UNCHANGED lastset,
           pc' = [pc EXCEPT ![p] = l],
           \A q \in Progs \ {p} : job'[q] = job[q] /\ todo'[q] = todo[q]
    PROVE  \A q \in Progs \ {p} :
             /\ pc'[q] = "using" => PeriphSet(TRUE, 11)'
             /\ pc'[q] = "powers_on" => PeriphSet(TRUE, Done(q))'
             /\ pc'[q] = "powers_off" => PeriphSet(FALSE, Done(q))'
<1> TAKE q \in Progs \ {p}
<1>1. pc'[q] = pc[q] /\ Done(q)' = Done(q)
  BY SameDone DEF Kept, Ordered, Typed
<1>2. PeriphSet(TRUE, 11)' = PeriphSet(TRUE, 11)
  BY DEF PeriphSet
<1>3. PeriphSet(TRUE, Done(q))' = PeriphSet(TRUE, Done(q))
  BY <1>1 DEF PeriphSet
<1>4. PeriphSet(FALSE, Done(q))' = PeriphSet(FALSE, Done(q))
  BY <1>1 DEF PeriphSet
<1> QED
  BY <1>1, <1>2, <1>3, <1>4 DEF Powered

LEMMA StartPowered ==
    ASSUME Kept, Powered, NEW p \in Progs, NEW s \in Sessions, Start(p, s)
    PROVE  Powered'
<1>1. /\ pc[p] = "closed" /\ pc' = [pc EXCEPT ![p] = "opening"] /\ job' = [job EXCEPT ![p] = s]
      /\ UNCHANGED <<todo, lastset, mutex>>
  BY DEF Start, driver, pins, started
<1>2. \A q \in Progs \ {p} : job'[q] = job[q] /\ todo'[q] = todo[q]
  BY <1>1 DEF Kept, Ordered, Typed
<1>3. Handles' = Handles /\ pc'[p] = "opening"
  BY <1>1 DEF Handles, Kept, Ordered, Typed
<1>4. PeriphSet(FALSE, 11)' = PeriphSet(FALSE, 11)
  BY <1>1 DEF PeriphSet
<1>5. Handles' = {} /\ mutex' = {} => PeriphSet(FALSE, 11)'
  BY <1>1, <1>3, <1>4 DEF Powered
<1> QED
  BY <1>1, <1>2, <1>3, <1>5, OthersPowered DEF Powered

LEMMA OpenFirstPowered ==
    ASSUME Kept, Powered, NEW p \in Progs, OpenFirst(p)
    PROVE  Powered'
<1>1. /\ pc' = [pc EXCEPT ![p] = "powers_on"] /\ mutex' = {p}
      /\ todo' = [todo EXCEPT ![p] = PowerPeriph(TRUE)] /\ UNCHANGED <<job, lastset>>
  BY DEF OpenFirst, pins, started
<1>2. \A q \in Progs \ {p} : job'[q] = job[q] /\ todo'[q] = todo[q]
  BY <1>1 DEF Kept, Ordered, Typed
<1>3. pc'[p] = "powers_on" /\ Done(p)' = 0
  BY <1>1, OpenFirstKeeps DEF Kept, Ordered, Typed
<1>4. PeriphSet(TRUE, Done(p))'
  BY <1>3 DEF PeriphSet
<1> QED
  BY <1>1, <1>2, <1>3, <1>4, OthersPowered DEF Powered

\* The radio is on: a program has it open, or PowerPeriph has come to its end.
LEMMA OpenedPowered ==
    ASSUME Kept, Powered, NEW p \in Progs, OpenAgain(p) \/ PoweredOn(p)
    PROVE  Powered'
<1>1. /\ pc' = [pc EXCEPT ![p] = "using"] /\ todo' = [todo EXCEPT ![p] = Script(job[p])]
      /\ UNCHANGED <<job, lastset>>
  BY DEF OpenAgain, PoweredOn, Opened, pins, started
<1>2. \A q \in Progs \ {p} : job'[q] = job[q] /\ todo'[q] = todo[q]
  BY <1>1 DEF Kept, Ordered, Typed
<1>3. pc'[p] = "using" /\ p \in Handles'
  BY <1>1 DEF Kept, Ordered, Typed, Handles
<1>4. PeriphSet(TRUE, 11)
  <2>1. CASE PoweredOn(p)
    <3>1. pc[p] = "powers_on" /\ todo[p] = <<>>
      BY <2>1 DEF PoweredOn
    <3>2. Done(p) = 11
      BY <3>1, PowersAt DEF Kept
    <3> QED
      BY <3>1, <3>2 DEF Powered
  <2>2. CASE OpenAgain(p)
    <3>1. mutex = {} /\ OpenCtr # 0
      BY <2>2 DEF OpenAgain
    <3>2. Handles # {}
      BY <3>1, FS_EmptySet DEF Kept, Ordered, Counted
    <3>3. PICK q \in Progs : pc[q] = "using"
      BY <3>1, <3>2 DEF Handles, Kept, Ordered, Counted
    <3> QED
      BY <3>3 DEF Powered
  <2> QED
    BY <2>1, <2>2
<1>5. PeriphSet(TRUE, 11)'
  BY <1>1, <1>4 DEF PeriphSet
<1> QED
  BY <1>1, <1>2, <1>3, <1>5, OthersPowered DEF Powered

LEMMA CloseLastPowered ==
    ASSUME Kept, Powered, NEW p \in Progs, CloseLast(p)
    PROVE  Powered'
<1>1. /\ pc' = [pc EXCEPT ![p] = "powers_off"] /\ mutex' = {p}
      /\ todo' = [todo EXCEPT ![p] = PowerPeriph(FALSE)] /\ UNCHANGED <<job, lastset>>
  BY DEF CloseLast, pins, started
<1>2. \A q \in Progs \ {p} : job'[q] = job[q] /\ todo'[q] = todo[q]
  BY <1>1 DEF Kept, Ordered, Typed
<1>3. pc'[p] = "powers_off" /\ Done(p)' = 0
  BY <1>1, CloseLastKeeps DEF Kept, Ordered, Typed
<1>4. PeriphSet(FALSE, Done(p))'
  BY <1>3 DEF PeriphSet
<1> QED
  BY <1>1, <1>2, <1>3, <1>4, OthersPowered DEF Powered

\* The radio is off when the last handle is gone.
LEMMA ClosedPowered ==
    ASSUME Kept, Powered, NEW p \in Progs, CloseOther(p) \/ PoweredOff(p)
    PROVE  Powered'
<1>1. /\ pc' = [pc EXCEPT ![p] = "closed"] /\ UNCHANGED <<job, todo, lastset>>
  BY DEF CloseOther, PoweredOff, Closed, pins, started
<1>2. \A q \in Progs \ {p} : job'[q] = job[q] /\ todo'[q] = todo[q]
  BY <1>1
<1>3. pc'[p] = "closed"
  BY <1>1 DEF Kept, Ordered, Typed
<1>4. Handles' = {} => PeriphSet(FALSE, 11)
  <2>1. CASE PoweredOff(p)
    <3>1. pc[p] = "powers_off" /\ todo[p] = <<>>
      BY <2>1 DEF PoweredOff
    <3>2. Done(p) = 11
      BY <3>1, PowersAt DEF Kept
    <3> QED
      BY <3>1, <3>2 DEF Powered
  <2>2. CASE CloseOther(p)
    <3>1. OpenCtr > 1 /\ OpenCtr' = OpenCtr - 1 /\ OpenCtr \in Nat
      BY <2>2 DEF CloseOther, Closed, Kept, Ordered, Typed
    <3>2. OpenCtr' = Cardinality(Handles')
      BY <2>2, ClosedKeeps DEF Kept, Ordered, Counted
    <3> QED
      BY <3>1, <3>2, FS_EmptySet
  <2> QED
    BY <2>1, <2>2
<1>5. Handles' = {} => PeriphSet(FALSE, 11)'
  BY <1>1, <1>4 DEF PeriphSet
<1> QED
  BY <1>1, <1>2, <1>3, <1>5, OthersPowered DEF Powered

LEMMA SetPowered ==
    ASSUME Kept, Powered, PeriphLeftAlone, NEW p \in Progs,
           SetRefused(p) \/ SetReads(p) \/ SetWrites(p)
    PROVE  Powered'
<1>1. /\ todo[p] # <<>> /\ UNCHANGED <<pc, job, mutex>>
      /\ \A q \in Progs \ {p} : todo'[q] = todo[q]
  <2>1. CASE SetWrites(p)
    BY <2>1, Written DEF Kept, Ordered, Typed
  <2>2. CASE SetRefused(p) \/ SetReads(p)
    BY <2>2 DEF SetRefused, SetReads, driver, started, Kept, Ordered, Typed
  <2> QED
    BY <2>1, <2>2
<1>2. Handles' = Handles /\ \A q \in Progs \ {p} : Done(q)' = Done(q)
  BY <1>1, SameDone DEF Handles
<1>3. CASE pc[p] = "using"
  <2>1. Target(p) \notin PeriphFields
    BY <1>1, <1>3, SparesPeriph DEF Kept
  <2>2. \A f \in PeriphFields : lastset'[f] = lastset[f]
    <3>1. CASE SetWrites(p)
      BY <2>1, <3>1, PeriphLaidOut, WritesField DEF Kept
    <3>2. CASE SetRefused(p) \/ SetReads(p)
      BY <3>2 DEF SetRefused, SetReads, pins, started
    <3> QED
      BY <3>1, <3>2
  <2>3. \A on \in BOOLEAN : PeriphSet(on, 11) => PeriphSet(on, 11)'
    BY <2>2, PowerSet DEF PeriphSet
  <2>4. p \in Handles /\ pc'[p] = "using"
    BY <1>1, <1>3 DEF Handles
  <2>5. ASSUME NEW q \in Progs, pc[q] \in {"powers_on", "powers_off"}
        PROVE  FALSE
    BY <1>3, <2>4, <2>5 DEF Kept, Ordered, Counted
  <2> QED
    BY <1>1, <1>2, <2>3, <2>4, <2>5 DEF Powered
<1>4. ASSUME NEW on \in BOOLEAN, pc[p] = (IF on THEN "powers_on" ELSE "powers_off"),
             PeriphSet(on, Done(p))
      PROVE  PeriphSet(on, Done(p))'
  <2>1. /\ Done(p) + 1 \in 1 .. 11 /\ Done(p) \in 0 .. 11
        /\ Target(p) = PowerPeriph(on)[Done(p) + 1][1]
        /\ Argument(p) = PowerPeriph(on)[Done(p) + 1][2]
    BY <1>1, <1>4, PowersAt DEF Kept
  <2>2. CASE SetWrites(p)
    <3>1. Done(p)' = Done(p) + 1
      BY <2>2, SetWritesKeeps DEF Kept
    <3>4. Argument(p) \in Level /\ Target(p).width = 1
      BY <2>1, PowerSet, PeriphAt
    <3>5. Argument(p) \cap (0 .. Target(p).width - 1) = Argument(p)
      BY <3>4, LevelIsLow
    <3>2. lastset' = [lastset EXCEPT ![Target(p)] = Argument(p)]
      BY <2>2, <3>5, WritesField
    <3>3. ASSUME NEW i \in 1 .. Done(p) + 1
          PROVE  lastset'[PowerPeriph(on)[i][1]] = PowerPeriph(on)[i][2]
      <4>1. i \in 1 .. 11
        BY <2>1
      <4>2. PowerPeriph(on)[i][1] \in Layout
        BY <4>1, PowerSet
      <4>3. CASE i = Done(p) + 1
        BY <2>1, <3>2, <4>2, <4>3 DEF Kept
      <4>4. CASE i # Done(p) + 1
        <5>1. i \in 1 .. Done(p)
          BY <2>1, <4>4
        <5>2. PowerPeriph(on)[i][1] # Target(p)
          BY <2>1, <4>1, <4>4, PowerPeriphIs
        <5> QED
          BY <1>4, <3>2, <4>2, <5>1, <5>2 DEF Kept, PeriphSet
      <4> QED
        BY <4>3, <4>4
    <3> QED
      BY <3>1, <3>3 DEF PeriphSet
  <2>3. CASE SetReads(p)
    <3>1. UNCHANGED lastset /\ Done(p)' = Done(p)
      BY <2>3, SetReadsKeeps DEF Kept, SetReads, pins, started
    <3> QED
      BY <1>4, <3>1 DEF PeriphSet
  <2>4. CASE SetRefused(p)
    <3>1. Settable(Target(p)) /\ Accepted(Target(p), Argument(p))
      BY <2>1, PowerSet
    <3> QED
      BY <2>4, <3>1 DEF SetRefused
  <2> QED
    BY <2>2, <2>3, <2>4
<1>5. CASE pc[p] = "powers_on"
  <2>1. /\ \A q \in Progs \ {p} : pc[q] \in {"closed", "opening"}
        /\ mutex = {p}
    BY <1>5, PowersAt DEF Kept
  <2>2. PeriphSet(TRUE, Done(p))'
    BY <1>4, <1>5 DEF Powered
  <2> QED
    BY <1>1, <1>5, <2>1, <2>2 DEF Powered
<1>6. CASE pc[p] = "powers_off"
  <2>1. /\ \A q \in Progs \ {p} : pc[q] \in {"closed", "opening"}
        /\ mutex = {p}
    BY <1>6, PowersAt DEF Kept
  <2>2. PeriphSet(FALSE, Done(p))'
    BY <1>4, <1>6 DEF Powered
  <2> QED
    BY <1>1, <1>6, <2>1, <2>2 DEF Powered
<1> QED
  BY <1>1, <1>3, <1>5, <1>6, FirstOfAgenda DEF Kept

LEMMA StutterPowered ==
    ASSUME Powered, UNCHANGED vars
    PROVE  Powered'
<1>1. UNCHANGED <<pc, job, todo, lastset, mutex>>
  BY DEF vars, driver, pins, started
<1>2. \A q \in Progs : Done(q)' = Done(q)
  BY <1>1, SameDone
<1>3. Handles' = Handles
  BY <1>1 DEF Handles
<1> QED
  BY <1>1, <1>2, <1>3 DEF Powered, PeriphSet

LEMMA AlwaysPowered ==
    ASSUME PeriphLeftAlone
    PROVE  Spec => [](Kept /\ Powered)
<1>1. Kept /\ Powered /\ [Next]_vars => Powered'
  <2> SUFFICES ASSUME Kept, Powered, [Next]_vars PROVE Powered'
    OBVIOUS
  <2>1. CASE UNCHANGED vars
    BY <2>1, StutterPowered
  <2>2. CASE Next
    BY <2>2, StartPowered, OpenFirstPowered, OpenedPowered, SetPowered, CloseLastPowered,
       ClosedPowered DEF Next
  <2> QED
    BY <2>1, <2>2
<1>2. Kept /\ [Next]_vars => Kept'
  BY NextKept
<1> QED
  BY <1>1, <1>2, InitKept, InitPowered, PTL DEF Spec

\* langford.c:819-823, PowerPeriph in cdev_open and cdev_release: a program that makes
\* its calls finds the radio powered and once all have ended it is off, whatever else
\* programs set meanwhile, for langford_util not given one of the eleven pins, and
\* apart from those that an argument out of range or an overlapping set has spoilt.
THEOREM PowerFollows ==
    ASSUME PeriphLeftAlone
    PROVE  Spec => []PeriphFollowsPrograms
<1>1. ASSUME Kept, NEW on \in BOOLEAN, PeriphSet(on, 11)
      PROVE  PeriphIs(on)
  <2>1. DOMAIN PowerPeriph(on) = 1 .. 11
    BY PowerPeriphIs, LenProperties
  <2> SUFFICES ASSUME NEW i \in 1 .. 11
               PROVE  PowerPeriph(on)[i][1] \notin exposed =>
                        GetField(pio[PowerPeriph(on)[i][1].reg], PowerPeriph(on)[i][1])
                          = PowerPeriph(on)[i][2]
    BY <2>1 DEF PeriphIs, ToSet
  <2>2. PowerPeriph(on)[i][1] \in Layout
    BY PowerSet
  <2> QED
    BY <1>1, <2>2 DEF Kept, FieldsHoldLastSet, PeriphSet
<1>2. Kept /\ Powered => PeriphFollowsPrograms
  <2> SUFFICES ASSUME Kept, Powered PROVE PeriphFollowsPrograms
    OBVIOUS
  <2>1. (\E p \in Progs : pc[p] = "using") => PeriphIs(TRUE)
    BY <1>1 DEF Powered
  <2>2. ASSUME \A p \in Progs : pc[p] = "closed"
        PROVE  PeriphIs(FALSE)
    <3>1. Handles = {} /\ mutex = {}
      BY <2>2 DEF Handles, Kept, Ordered, Typed, Counted
    <3> QED
      BY <1>1, <3>1 DEF Powered
  <2> QED
    BY <2>1, <2>2 DEF PeriphFollowsPrograms
<1> QED
  BY <1>2, AlwaysPowered, PTL
-------------------------------------------------------------------------------
(* What a set of a pin does to a chip *)

\* langford_util is not given the pins of a chip.
ChipsLeftAlone ==
    \A s \in Sessions : s.kind = "util" => \A c \in Chips : Field(s.pin) \notin PinsOf(c)

Latch(c) == lastset[Wiring[c].latch]
Clock(c) == lastset[Wiring[c].clk]
Data(c) == lastset[Wiring[c].data]

LEMMA PinOf ==
    ASSUME NEW c \in Chips, NEW f \in PinsOf(c)
    PROVE  f \in Layout /\ f.reg = "PIO1" /\ f.width = 1
  BY Wired, WiredAt

\* A pin is high if it was last set to one.
LEMMA LevelOfPin ==
    ASSUME NEW f, NEW word \in SUBSET Bits, InWord(f), f.width = 1
    PROVE  GetField(word, f) = IF High(word, f) THEN One ELSE Zero
<1>1. Span(f) = {f.off} /\ f.off - f.off = 0
  BY DEF InWord, Span
<1>2. CASE High(word, f)
  <2>1. word \cap Span(f) = {f.off}
    BY <1>1, <1>2 DEF High
  <2> QED
    BY <1>1, <1>2, <2>1 DEF GetField, One
<1>3. CASE ~High(word, f)
  <2>1. word \cap Span(f) = {}
    BY <1>1, <1>3 DEF High
  <2> QED
    BY <1>3, <2>1 DEF GetField, Zero
<1> QED
  BY <1>2, <1>3

LEMMA PinHigh ==
    ASSUME Kept, NEW c \in Chips, PinsOf(c) \cap exposed = {}, NEW f \in PinsOf(c)
    PROVE  lastset[f] \in Level /\ (High(pio["PIO1"], f) <=> lastset[f] = One)
<1>1. f \in Layout /\ f.reg = "PIO1" /\ f.width = 1 /\ InWord(f)
  BY PinOf, LayoutInWord
<1>2. "PIO1" \in Registers
  BY <1>1 DEF Registers
<1>3. pio["PIO1"] \in SUBSET Bits
  BY <1>2 DEF Kept, Ordered, Typed
<1>4. lastset[f] = IF High(pio["PIO1"], f) THEN One ELSE Zero
  BY <1>1, <1>3, LevelOfPin DEF Kept, FieldsHoldLastSet
<1> QED
  BY <1>4, Levels DEF Level

\* What a chip makes of a change of the register, in terms of the levels of its pins.
LEMMA ChipSeesLevels ==
    ASSUME Kept, Kept', NEW p \in Progs, SetWrites(p), NEW c \in Chips,
           Target(p).reg = "PIO1", PinsOf(c) \cap exposed' = {}
    PROVE  /\ shift'[c] =
                IF Latch(c) = Zero /\ Latch(c)' = One THEN <<>>
                ELSE IF Clock(c) = Zero /\ Clock(c)' = One /\ Latch(c)' = Zero
                     THEN Append(shift[c], Data(c)')
                     ELSE shift[c]
           /\ latched'[c] =
                IF Latch(c) = Zero /\ Latch(c)' = One /\ shift[c] # <<>>
                THEN Append(latched[c], shift[c]) ELSE latched[c]
<1> DEFINE L == Wiring[c].latch
           K == Wiring[c].clk
           D == Wiring[c].data
           old == pio["PIO1"]
           new == pio'["PIO1"]
<1>1. L \in PinsOf(c) /\ K \in PinsOf(c) /\ D \in PinsOf(c)
  BY PinSets
<1>2. /\ shift'[c] = ChipSees(c, old, new, shift[c])
      /\ latched'[c] = ChipLatches(c, old, new, shift[c], latched[c])
  <2>1. "PIO1" \in Registers
    BY <1>1, PinOf DEF Registers
  <2>2. new = SetField(seen[p], Target(p), Argument(p))
    BY <2>1, Written DEF Kept, Ordered, Typed
  <2> QED
    BY <2>2 DEF SetWrites, WriteRegister
<1>0. PinsOf(c) \cap exposed = {}
  BY DEF SetWrites
<1>3. \A f \in PinsOf(c) : lastset[f] \in Level /\ (High(old, f) <=> lastset[f] = One)
  BY <1>0, PinHigh
<1>4. \A f \in PinsOf(c) : lastset'[f] \in Level /\ (High(new, f) <=> lastset'[f] = One)
  <2> TAKE f \in PinsOf(c)
  <2>1. f \in Layout /\ f.reg = "PIO1" /\ f.width = 1 /\ InWord(f)
    BY PinOf, LayoutInWord
  <2>2. new \in SUBSET Bits
    BY <2>1 DEF Kept, Ordered, Typed, Registers
  <2>3. lastset'[f] = IF High(new, f) THEN One ELSE Zero
    BY <2>1, <2>2, LevelOfPin DEF Kept, FieldsHoldLastSet
  <2> QED
    BY <2>3, Levels DEF Level
<1>5. Latch(c) = lastset[L] /\ Clock(c) = lastset[K] /\ Data(c) = lastset[D]
  BY DEF Latch, Clock, Data
<1>6. Latch(c)' = lastset'[L] /\ Clock(c)' = lastset'[K] /\ Data(c)' = lastset'[D]
  BY DEF Latch, Clock, Data
<1>7. Zero # One /\ \A v \in Level : v = Zero \/ v = One
  BY Levels DEF Level
<1>8. Rises(L, old, new) <=> (Latch(c) = Zero /\ Latch(c)' = One)
  BY <1>1, <1>3, <1>4, <1>5, <1>6, <1>7 DEF Rises
<1>9. Rises(K, old, new) <=> (Clock(c) = Zero /\ Clock(c)' = One)
  BY <1>1, <1>3, <1>4, <1>5, <1>6, <1>7 DEF Rises
<1>10. ~High(new, L) <=> Latch(c)' = Zero
  BY <1>1, <1>4, <1>6, <1>7
<1>11. (IF High(new, D) THEN One ELSE Zero) = Data(c)'
  BY <1>1, <1>4, <1>6, <1>7
<1> HIDE DEF L, K, D, old, new
<1>12. shift'[c] = IF Rises(L, old, new) THEN <<>>
                   ELSE IF Rises(K, old, new) /\ ~High(new, L)
                        THEN Append(shift[c], IF High(new, D) THEN One ELSE Zero)
                        ELSE shift[c]
  BY <1>2 DEF ChipSees, L, K, D
<1>13. latched'[c] = IF Rises(L, old, new) /\ shift[c] # <<>>
                     THEN Append(latched[c], shift[c]) ELSE latched[c]
  BY <1>2 DEF ChipLatches, L
<1> QED
  BY <1>8, <1>9, <1>10, <1>11, <1>12, <1>13
\* What the set a program makes of a chip's pins does to the chip.
LEMMA ChipStep ==
    ASSUME Kept, Kept', NEW p \in Progs, SetWrites(p), NEW c \in Chips,
           PinsOf(c) \cap exposed' = {}, Argument(p) \in Level \/ Target(p) \notin PinsOf(c)
    PROVE  LET f == Target(p)  v == Argument(p)  w == Wiring[c] IN
           /\ f \notin PinsOf(c) =>
                UNCHANGED <<shift[c], latched[c], Latch(c), Clock(c), Data(c)>>
           /\ f = w.latch =>
                /\ Latch(c)' = v /\ UNCHANGED <<Clock(c), Data(c)>>
                /\ (Latch(c) = Zero /\ v = One /\ shift[c] # <<>>) =>
                     shift'[c] = <<>> /\ latched'[c] = Append(latched[c], shift[c])
                /\ (v = Zero \/ shift[c] = <<>>) => UNCHANGED <<shift[c], latched[c]>>
           /\ f = w.clk =>
                /\ Clock(c)' = v /\ UNCHANGED <<Latch(c), Data(c), latched[c]>>
                /\ (Clock(c) = Zero /\ v = One /\ Latch(c) = Zero) =>
                     shift'[c] = Append(shift[c], Data(c))
                /\ v = Zero => UNCHANGED shift[c]
           /\ f = w.data =>
                Data(c)' = v /\ UNCHANGED <<Latch(c), Clock(c), shift[c], latched[c]>>
<1> DEFINE f == Target(p)
           v == Argument(p)
           L == Wiring[c].latch
           K == Wiring[c].clk
           D == Wiring[c].data
<1>1. lastset' = [lastset EXCEPT ![f] = v \cap (0 .. f.width - 1)] /\ f \in Layout
  BY WritesField, Written DEF Kept
<1>7. f \in PinsOf(c) => v \cap (0 .. f.width - 1) = v
  <2>1. f \in PinsOf(c) => f.width = 1 /\ v \in Level
    BY PinOf
  <2> QED
    BY <2>1, LevelIsLow
<1>2. /\ L \in Layout /\ K \in Layout /\ D \in Layout /\ L # K /\ L # D /\ K # D
      /\ PinsOf(c) = {L, K, D}
  BY Wired, PinSets, PinOf DEF PinsOf
<1>3. /\ Latch(c)' = IF f = L THEN v ELSE Latch(c)
      /\ Clock(c)' = IF f = K THEN v ELSE Clock(c)
      /\ Data(c)' = IF f = D THEN v ELSE Data(c)
  BY <1>1, <1>2, <1>7 DEF Latch, Clock, Data, Kept
<1>4. Zero # One
  BY Levels
<1>5. CASE f.reg # "PIO1"
  <2>1. f \notin PinsOf(c)
    BY <1>5, PinOf
  <2>2. UNCHANGED <<shift, latched>>
    BY <1>5 DEF SetWrites, WriteRegister
  <2> QED
    BY <1>2, <1>3, <2>1, <2>2
<1>6. CASE f.reg = "PIO1"
  <2>1. /\ shift'[c] =
             IF Latch(c) = Zero /\ Latch(c)' = One THEN <<>>
             ELSE IF Clock(c) = Zero /\ Clock(c)' = One /\ Latch(c)' = Zero
                  THEN Append(shift[c], Data(c)')
                  ELSE shift[c]
        /\ latched'[c] =
             IF Latch(c) = Zero /\ Latch(c)' = One /\ shift[c] # <<>>
             THEN Append(latched[c], shift[c]) ELSE latched[c]
    BY <1>6, ChipSeesLevels
  <2> HIDE DEF L, K, D, f, v
  <2>3. f \notin PinsOf(c) => UNCHANGED <<shift[c], latched[c], Latch(c), Clock(c), Data(c)>>
    BY <1>2, <1>3, <1>4, <2>1
  <2>4. f = L =>
          /\ Latch(c)' = v /\ UNCHANGED <<Clock(c), Data(c)>>
          /\ (Latch(c) = Zero /\ v = One /\ shift[c] # <<>>) =>
               shift'[c] = <<>> /\ latched'[c] = Append(latched[c], shift[c])
          /\ (v = Zero \/ shift[c] = <<>>) => UNCHANGED <<shift[c], latched[c]>>
    BY <1>2, <1>3, <1>4, <2>1
  <2>5. f = K =>
          /\ Clock(c)' = v /\ UNCHANGED <<Latch(c), Data(c), latched[c]>>
          /\ (Clock(c) = Zero /\ v = One /\ Latch(c) = Zero) => shift'[c] = Append(shift[c], Data(c))
          /\ v = Zero => UNCHANGED shift[c]
    BY <1>2, <1>3, <1>4, <2>1
  <2>6. f = D => Data(c)' = v /\ UNCHANGED <<Latch(c), Clock(c), shift[c], latched[c]>>
    BY <1>2, <1>3, <1>4, <2>1
  <2> QED
    BY <2>3, <2>4, <2>5, <2>6 DEF f, v, L, K, D
<1> QED
  BY <1>5, <1>6
-------------------------------------------------------------------------------
(* How far a chip is with the word its program sends *)

\* The word is not begun; so many of its bits are clocked in, while the latch pin is low;
\* it is taken over, or there is none.
Waiting(c, w) == sent[c] = Append(latched[c], w) /\ shift[c] = <<>>
Shifting(c, w, j) ==
    sent[c] = Append(latched[c], w) /\ shift[c] = SubSeq(w, 1, j) /\ Latch(c) = Zero
Taken(c) == latched[c] = sent[c] /\ shift[c] = <<>>

\* After the first k sets of LangordSpiWrite.
AdcStage(c, w, k) ==
    \/ k \in 0 .. 2 /\ Waiting(c, w) /\ (k = 2 => Clock(c) = Zero)
    \/ \E j \in 0 .. Len(w) : k = 3 * j + 3 /\ Shifting(c, w, j) /\ Clock(c) = Zero
    \/ \E j \in 0 .. Len(w) - 1 :
         k = 3 * j + 4 /\ Shifting(c, w, j) /\ Clock(c) = Zero /\ Data(c) = w[j + 1]
    \/ \E j \in 0 .. Len(w) - 1 : k = 3 * j + 5 /\ Shifting(c, w, j + 1)
    \/ k = 3 * Len(w) + 4 /\ Taken(c)

\* After the first k sets of the two WriteReg.
ThreeWireStage(c, w, pre, k) ==
    \/ k = 0 /\ Waiting(c, w)
    \/ pre = 2 /\ k = 1 /\ Shifting(c, w, 0)
    \/ \E j \in 0 .. Len(w) : k = 3 * j + pre /\ Shifting(c, w, j)
    \/ \E j \in 0 .. Len(w) - 1 : k = 3 * j + pre + 1 /\ Shifting(c, w, j) /\ Clock(c) = Zero
    \/ \E j \in 0 .. Len(w) - 1 :
         k = 3 * j + pre + 2 /\ Shifting(c, w, j) /\ Clock(c) = Zero /\ Data(c) = w[j + 1]
    \/ k \in {3 * Len(w) + pre + 1, 3 * Len(w) + pre + 2} /\ Shifting(c, w, Len(w))
    \/ k \in {3 * Len(w) + pre + 3, 3 * Len(w) + pre + 4} /\ Taken(c)

LEMMA OneBitMore ==
    ASSUME NEW w \in Words, NEW j \in 0 .. Len(w) - 1
    PROVE  Append(SubSeq(w, 1, j), w[j + 1]) = SubSeq(w, 1, j + 1)
<1>1. w \in Seq(Level) /\ Len(w) \in Nat /\ j \in Nat /\ j + 1 <= Len(w) /\ w[j + 1] \in Level
  BY WordIsSeq
<1> DEFINE s == SubSeq(w, 1, j)
           t == SubSeq(w, 1, j + 1)
<1>2. \A i \in 1 .. j + 1 : w[i] \in Level
  BY <1>1
<1>3. s \in Seq(Level) /\ Len(s) = j /\ \A i \in 1 .. j : s[i] = w[i]
  BY <1>1, <1>2, SubSeqProperties
<1>4. t \in Seq(Level) /\ Len(t) = j + 1 /\ \A i \in 1 .. j + 1 : t[i] = w[i]
  BY <1>1, <1>2, SubSeqProperties
<1> HIDE DEF s, t
<1>5. /\ Append(s, w[j + 1]) \in Seq(Level) /\ Len(Append(s, w[j + 1])) = j + 1
      /\ \A i \in 1 .. j + 1 : Append(s, w[j + 1])[i] = w[i]
  BY <1>1, <1>3
<1>6. Append(s, w[j + 1]) = t
  BY <1>1, <1>4, <1>5, SeqEqual
<1> QED
  BY <1>6 DEF s, t

LEMMA NoBitAndAll ==
    ASSUME NEW w \in Words
    PROVE  SubSeq(w, 1, 0) = <<>> /\ SubSeq(w, 1, Len(w)) = w /\ w # <<>>
<1>1. SubSeq(w, 1, 0) = <<>>
  BY SubSeqEmpty
<1>2. SubSeq(w, 1, Len(w)) = w
  BY WordIsSeq, SubSeqFull
<1> QED
  BY <1>1, <1>2 DEF Words

\* One set of LangordSpiWrite further.
LEMMA AdcSetStep ==
    ASSUME Kept, Kept', NEW p \in Progs, SetWrites(p), NEW c \in Chips,
           PinsOf(c) \cap exposed' = {}, Argument(p) \in Level,
           NEW w \in Words, NEW k \in Nat, NEW script,
           AdcSets(script, Wiring[c], w), k + 1 <= Len(script),
           <<Target(p), Argument(p)>> = script[k + 1], AdcStage(c, w, k)
    PROVE  AdcStage(c, w, k + 1)'
<1> DEFINE f == Target(p)
           v == Argument(p)
           L == Wiring[c].latch
           K == Wiring[c].clk
           D == Wiring[c].data
           n == Len(w)
<1>0. UNCHANGED sent /\ n \in Nat /\ n >= 1
  BY Written, WordIsSeq DEF Kept
<1>1. f = L => /\ Latch(c)' = v /\ UNCHANGED <<Clock(c), Data(c)>>
               /\ (Latch(c) = Zero /\ v = One /\ shift[c] # <<>>) =>
                    shift'[c] = <<>> /\ latched'[c] = Append(latched[c], shift[c])
               /\ (v = Zero \/ shift[c] = <<>>) => UNCHANGED <<shift[c], latched[c]>>
  BY ChipStep
<1>2. f = K => /\ Clock(c)' = v /\ UNCHANGED <<Latch(c), Data(c), latched[c]>>
               /\ (Clock(c) = Zero /\ v = One /\ Latch(c) = Zero) =>
                    shift'[c] = Append(shift[c], Data(c))
               /\ v = Zero => UNCHANGED shift[c]
  BY ChipStep
<1>3. f = D => Data(c)' = v /\ UNCHANGED <<Latch(c), Clock(c), shift[c], latched[c]>>
  BY ChipStep
<1>4. script[k + 1] = <<f, v>>
  OBVIOUS
<1>5. /\ Len(script) = 3 * n + 4
      /\ script[1] = <<L, One>> /\ script[2] = <<K, Zero>> /\ script[3] = <<L, Zero>>
      /\ \A j \in 0 .. n - 1 :
           /\ script[3 * j + 4] = <<D, w[j + 1]>>
           /\ script[3 * j + 5] = <<K, One>>
           /\ script[3 * j + 6] = <<K, Zero>>
      /\ script[3 * n + 4] = <<L, One>>
  BY DEF AdcSets
<1> HIDE DEF f, v, L, K, D
<1>6. CASE k \in 0 .. 2 /\ Waiting(c, w) /\ (k = 2 => Clock(c) = Zero)
  <2>1. CASE k = 0
    <3>1. f = L /\ v = One
      BY <1>4, <1>5, <2>1
    <3>2. Waiting(c, w)'
      BY <1>0, <1>1, <1>6, <3>1 DEF Waiting
    <3> QED
      BY <2>1, <3>2 DEF AdcStage
  <2>2. CASE k = 1
    <3>1. f = K /\ v = Zero
      BY <1>4, <1>5, <2>2
    <3>2. Waiting(c, w)' /\ Clock(c)' = Zero
      BY <1>0, <1>2, <1>6, <3>1 DEF Waiting
    <3> QED
      BY <2>2, <3>2 DEF AdcStage
  <2>3. CASE k = 2
    <3>1. f = L /\ v = Zero
      BY <1>4, <1>5, <2>3
    <3>2. Shifting(c, w, 0)' /\ Clock(c)' = Zero
      BY <1>0, <1>1, <1>6, <2>3, <3>1, NoBitAndAll DEF Waiting, Shifting
    <3>3. 0 \in 0 .. Len(w) /\ k + 1 = 3 * 0 + 3
      BY <1>0, <2>3
    <3> QED
      BY <3>2, <3>3 DEF AdcStage
  <2> QED
    BY <1>6, <2>1, <2>2, <2>3
<1>7. ASSUME NEW j \in 0 .. n, k = 3 * j + 3, Shifting(c, w, j), Clock(c) = Zero
      PROVE  AdcStage(c, w, k + 1)'
  <2>1. CASE j = n
    <3>1. f = L /\ v = One
      BY <1>0, <1>4, <1>5, <1>7, <2>1
    <3>2. Taken(c)'
      BY <1>0, <1>1, <1>7, <2>1, <3>1, NoBitAndAll DEF Shifting, Taken
    <3> QED
      BY <1>0, <1>7, <2>1, <3>2 DEF AdcStage
  <2>2. CASE j # n
    <3>1. j \in 0 .. n - 1 /\ k + 1 = 3 * j + 4
      BY <1>0, <1>7, <2>2
    <3>2. f = D /\ v = w[j + 1]
      BY <1>4, <1>5, <3>1
    <3>3. Shifting(c, w, j)' /\ Clock(c)' = Zero /\ Data(c)' = w[j + 1]
      BY <1>0, <1>3, <1>7, <3>2 DEF Shifting
    <3> QED
      BY <3>1, <3>3 DEF AdcStage
  <2> QED
    BY <2>1, <2>2
<1>8. ASSUME NEW j \in 0 .. n - 1, k = 3 * j + 4, Shifting(c, w, j), Clock(c) = Zero,
             Data(c) = w[j + 1]
      PROVE  AdcStage(c, w, k + 1)'
  <2>1. k + 1 = 3 * j + 5
    BY <1>0, <1>8
  <2>2. f = K /\ v = One
    BY <1>4, <1>5, <2>1
  <2>3. Shifting(c, w, j + 1)'
    BY <1>0, <1>2, <1>8, <2>2, OneBitMore DEF Shifting
  <2> QED
    BY <2>1, <2>3 DEF AdcStage
<1>9. ASSUME NEW j \in 0 .. n - 1, k = 3 * j + 5, Shifting(c, w, j + 1)
      PROVE  AdcStage(c, w, k + 1)'
  <2>1. k + 1 = 3 * j + 6 /\ k + 1 = 3 * (j + 1) + 3 /\ j + 1 \in 0 .. n
    BY <1>0, <1>9
  <2>4. script[3 * j + 6] = <<K, Zero>>
    BY <1>5
  <2>2. f = K /\ v = Zero
    BY <1>4, <2>1, <2>4
  <2>3. Shifting(c, w, j + 1)' /\ Clock(c)' = Zero
    BY <1>0, <1>2, <1>9, <2>2 DEF Shifting
  <2> QED
    BY <2>1, <2>3 DEF AdcStage
<1>10. k # 3 * n + 4
  BY <1>0, <1>5
<1> QED
  BY <1>6, <1>7, <1>8, <1>9, <1>10 DEF AdcStage

\* One set of a WriteReg further.
LEMMA ThreeWireSetStep ==
    ASSUME Kept, Kept', NEW p \in Progs, SetWrites(p), NEW c \in Chips,
           PinsOf(c) \cap exposed' = {}, Argument(p) \in Level,
           NEW w \in Words, NEW k \in Nat, NEW script, NEW pre \in {1, 2},
           pre = 2 => c \in {"N61", "N62"},
           ThreeWireSets(script, Wiring[c], w, pre), k + 1 <= Len(script),
           <<Target(p), Argument(p)>> = script[k + 1], ThreeWireStage(c, w, pre, k)
    PROVE  ThreeWireStage(c, w, pre, k + 1)'
<1> DEFINE f == Target(p)
           v == Argument(p)
           L == Wiring[c].latch
           K == Wiring[c].clk
           D == Wiring[c].data
           E == Wiring[c].ce
           n == Len(w)
<1>0. UNCHANGED sent /\ n \in Nat /\ n >= 1
  BY Written, WordIsSeq DEF Kept
<1>1. f = L => /\ Latch(c)' = v /\ UNCHANGED <<Clock(c), Data(c)>>
               /\ (Latch(c) = Zero /\ v = One /\ shift[c] # <<>>) =>
                    shift'[c] = <<>> /\ latched'[c] = Append(latched[c], shift[c])
               /\ (v = Zero \/ shift[c] = <<>>) => UNCHANGED <<shift[c], latched[c]>>
  BY ChipStep
<1>2. f = K => /\ Clock(c)' = v /\ UNCHANGED <<Latch(c), Data(c), latched[c]>>
               /\ (Clock(c) = Zero /\ v = One /\ Latch(c) = Zero) =>
                    shift'[c] = Append(shift[c], Data(c))
               /\ v = Zero => UNCHANGED shift[c]
  BY ChipStep
<1>3. f = D => Data(c)' = v /\ UNCHANGED <<Latch(c), Clock(c), shift[c], latched[c]>>
  BY ChipStep
<1>15. pre = 2 /\ f = E => UNCHANGED <<shift[c], latched[c], Latch(c)>>
  <2>1. pre = 2 /\ f = E => f \notin PinsOf(c)
    BY Wired
  <2> QED
    BY <2>1, ChipStep
<1>4. script[k + 1] = <<f, v>>
  OBVIOUS
<1>5. /\ Len(script) = 3 * n + pre + (IF pre = 2 THEN 4 ELSE 3)
      /\ script[1] = <<L, Zero>> /\ (pre = 2 => script[2] = <<E, One>>)
      /\ \A j \in 0 .. n - 1 :
           /\ script[3 * j + pre + 1] = <<K, Zero>>
           /\ script[3 * j + pre + 2] = <<D, w[j + 1]>>
           /\ script[3 * j + pre + 3] = <<K, One>>
      /\ script[3 * n + pre + 1] = <<K, Zero>> /\ script[3 * n + pre + 2] = <<D, Zero>>
      /\ script[3 * n + pre + 3] = <<L, One>>
      /\ pre = 2 => script[3 * n + pre + 4] = <<L, Zero>>
  BY DEF ThreeWireSets
<1> HIDE DEF f, v, L, K, D, E
<1>6. CASE k = 0 /\ Waiting(c, w)
  <2>1. f = L /\ v = Zero
    BY <1>4, <1>5, <1>6
  <2>2. Shifting(c, w, 0)'
    BY <1>0, <1>1, <1>6, <2>1, NoBitAndAll DEF Waiting, Shifting
  <2>3. pre = 1 => 0 \in 0 .. Len(w) /\ k + 1 = 3 * 0 + pre
    BY <1>0, <1>6
  <2> QED
    BY <1>6, <2>2, <2>3 DEF ThreeWireStage
<1>7. CASE pre = 2 /\ k = 1 /\ Shifting(c, w, 0)
  <2>1. f = E
    BY <1>4, <1>5, <1>7
  <2>2. Shifting(c, w, 0)'
    BY <1>0, <1>15, <1>7, <2>1 DEF Shifting
  <2>3. 0 \in 0 .. Len(w) /\ k + 1 = 3 * 0 + pre
    BY <1>0, <1>7
  <2> QED
    BY <2>2, <2>3 DEF ThreeWireStage
<1>8. ASSUME NEW j \in 0 .. n, k = 3 * j + pre, Shifting(c, w, j)
      PROVE  ThreeWireStage(c, w, pre, k + 1)'
  <2>1. k + 1 = 3 * j + pre + 1
    BY <1>0, <1>8
  <2>2. f = K /\ v = Zero
    <3>1. CASE j = n
      BY <1>4, <1>5, <2>1, <3>1
    <3>2. CASE j # n
      <4>1. j \in 0 .. n - 1
        BY <1>0, <3>2
      <4> QED
        BY <1>4, <1>5, <2>1, <4>1
    <3> QED
      BY <3>1, <3>2
  <2>3. Shifting(c, w, j)' /\ Clock(c)' = Zero
    BY <1>0, <1>2, <1>8, <2>2 DEF Shifting
  <2>4. j \in 0 .. n - 1 \/ j = n
    BY <1>0
  <2> QED
    BY <2>1, <2>3, <2>4 DEF ThreeWireStage
<1>9. ASSUME NEW j \in 0 .. n - 1, k = 3 * j + pre + 1, Shifting(c, w, j), Clock(c) = Zero
      PROVE  ThreeWireStage(c, w, pre, k + 1)'
  <2>1. k + 1 = 3 * j + pre + 2
    BY <1>0, <1>9
  <2>4. script[3 * j + pre + 2] = <<D, w[j + 1]>>
    BY <1>5
  <2>2. f = D /\ v = w[j + 1]
    BY <1>4, <2>1, <2>4
  <2>3. Shifting(c, w, j)' /\ Clock(c)' = Zero /\ Data(c)' = w[j + 1]
    BY <1>0, <1>3, <1>9, <2>2 DEF Shifting
  <2> QED
    BY <2>1, <2>3 DEF ThreeWireStage
<1>10. ASSUME NEW j \in 0 .. n - 1, k = 3 * j + pre + 2, Shifting(c, w, j), Clock(c) = Zero,
              Data(c) = w[j + 1]
       PROVE  ThreeWireStage(c, w, pre, k + 1)'
  <2>1. k + 1 = 3 * j + pre + 3 /\ k + 1 = 3 * (j + 1) + pre /\ j + 1 \in 0 .. n
    BY <1>0, <1>10, SMTT(60)
  <2>4. script[3 * j + pre + 3] = <<K, One>>
    BY <1>5
  <2>2. f = K /\ v = One
    BY <1>4, <2>1, <2>4
  <2>3. Shifting(c, w, j + 1)'
    BY <1>0, <1>2, <1>10, <2>2, OneBitMore DEF Shifting
  <2> QED
    BY <2>1, <2>3 DEF ThreeWireStage
<1>11. CASE k = 3 * n + pre + 1 /\ Shifting(c, w, n)
  <2>1. k + 1 = 3 * n + pre + 2
    BY <1>0, <1>11
  <2>2. f = D
    BY <1>4, <1>5, <2>1
  <2>3. Shifting(c, w, n)'
    BY <1>0, <1>3, <1>11, <2>2 DEF Shifting
  <2> QED
    BY <2>1, <2>3 DEF ThreeWireStage
<1>12. CASE k = 3 * n + pre + 2 /\ Shifting(c, w, n)
  <2>1. k + 1 = 3 * n + pre + 3
    BY <1>0, <1>12
  <2>2. f = L /\ v = One
    BY <1>4, <1>5, <2>1
  <2>3. Taken(c)'
    BY <1>0, <1>1, <1>12, <2>2, NoBitAndAll DEF Shifting, Taken
  <2> QED
    BY <2>1, <2>3 DEF ThreeWireStage
<1>13. CASE k = 3 * n + pre + 3 /\ Taken(c)
  <2>1. k + 1 = 3 * n + pre + 4 /\ pre = 2
    BY <1>0, <1>5, <1>13
  <2>2. f = L /\ v = Zero
    BY <1>4, <1>5, <2>1
  <2>3. Taken(c)'
    BY <1>0, <1>1, <1>13, <2>2 DEF Taken
  <2> QED
    BY <2>1, <2>3 DEF ThreeWireStage
<1>14. k # 3 * n + pre + 4
  BY <1>0, <1>5
<1> QED
  BY <1>6, <1>7, <1>8, <1>9, <1>10, <1>11, <1>12, <1>13, <1>14 DEF ThreeWireStage
-------------------------------------------------------------------------------
(* A chip and the program that writes to it *)

Owns(p, c) == pc[p] # "closed" /\ c \in ChipOf(job[p])

\* How far the chip is where the program is.
WithOwner(p, c) ==
    /\ pc[p] \in {"opening", "powers_on"} => Waiting(c, job[p].word)
    /\ pc[p] = "using" /\ job[p].kind = "adc" => AdcStage(c, job[p].word, Done(p))
    /\ pc[p] = "using" /\ job[p].kind = "synth" => ThreeWireStage(c, job[p].word, 2, Done(p))
    /\ pc[p] = "using" /\ job[p].kind = "vga" => ThreeWireStage(c, job[p].word, 1, Done(p))
    /\ pc[p] = "powers_off" => Taken(c)

ChipFollows(c) ==
    /\ (\A p \in Progs : ~Owns(p, c)) => Taken(c)
    /\ \A p \in Progs : Owns(p, c) => WithOwner(p, c)

\* One program at a time has written to it, and its pins were safe from other sets.
Sure(c) == c \notin shared /\ PinsOf(c) \cap exposed = {}

\* A chip is shared once two programs are there for it.
Alone == \A c \in Chips \ shared : \A p, q \in Progs : Owns(p, c) /\ Owns(q, c) => p = q

Clocked ==
    /\ shift \in [Chips -> Seq(Level)]
    /\ latched \in [Chips -> Seq(Words)] /\ sent \in [Chips -> Seq(Words)]
    /\ Alone /\ \A c \in Chips : Sure(c) => ChipFollows(c)

LEMMA ChipSession ==
    ASSUME NEW s \in Sessions, NEW c \in ChipOf(s)
    PROVE  /\ c \in Chips /\ c = s.chip /\ s.word \in Words
           /\ s.kind \in {"adc", "synth", "vga"} /\ (s.kind = "synth" => c \in {"N61", "N62"})
           /\ Script(s) \in Seq(ChipWires(c))
           /\ s.kind = "adc" => AdcSets(Script(s), Wiring[c], s.word)
           /\ s.kind = "synth" => ThreeWireSets(Script(s), Wiring[c], s.word, 2)
           /\ s.kind = "vga" => ThreeWireSets(Script(s), Wiring[c], s.word, 1)
<1>1. c = s.chip /\ s.kind \in {"adc", "synth", "vga"} /\ c \in Chips
  BY DEF ChipOf
<1>2. s.word \in Words /\ (s.kind = "synth" => c \in {"N61", "N62"})
  BY <1>1, SessionKinds
<1>3. /\ Script(s) \in Seq(ChipWires(c))
      /\ s.kind = "adc" => AdcSets(Script(s), Wiring[c], s.word)
      /\ s.kind = "synth" => ThreeWireSets(Script(s), Wiring[c], s.word, 2)
      /\ s.kind = "vga" => ThreeWireSets(Script(s), Wiring[c], s.word, 1)
  BY <1>1, ScriptOf
<1> QED
  BY <1>1, <1>2, <1>3

\* Only its program sets the pins of a chip.
LEMMA SetsOwnChip ==
    ASSUME Kept, ChipsLeftAlone, NEW p \in Progs, todo[p] # <<>>, NEW c \in Chips,
           Target(p) \in PinsOf(c)
    PROVE  pc[p] = "using" /\ Owns(p, c) /\ Argument(p) \in Level
<1>1. pc[p] = "using"
  <2>1. CASE pc[p] \in {"powers_on", "powers_off"}
    <3>1. PICK on \in BOOLEAN : pc[p] = IF on THEN "powers_on" ELSE "powers_off"
      BY <2>1
    <3>2. Done(p) + 1 \in 1 .. 11 /\ Target(p) = PowerPeriph(on)[Done(p) + 1][1]
      BY <3>1, PowersAt DEF Kept
    <3> QED
      BY <3>2, PowerSet, WiredApartFromPeriph
  <2> QED
    BY <2>1, FirstOfAgenda DEF Kept
<1>2. Agenda(p) = Script(job[p]) /\ job[p] \in Sessions
  BY <1>1 DEF Agenda, Kept, Ordered, Typed
<1>3. Done(p) + 1 \in 1 .. Len(Script(job[p])) /\ todo[p][1] = Script(job[p])[Done(p) + 1]
  BY <1>2, FirstOfAgenda DEF Kept
<1>4. Target(p).reg = "PIO1"
  BY PinOf
<1>5. CASE job[p].kind \in {"adc", "synth", "vga"}
  <2>1. PICK d \in Chips : d = job[p].chip
    BY <1>2, <1>5, SessionKinds, Wired
  <2>2. d \in ChipOf(job[p])
    BY <1>5, <2>1 DEF ChipOf
  <2>3. todo[p][1] \in ChipWires(d)
    BY <1>2, <1>3, <2>2, ChipSession, ElementOfSeq
  <2>4. Target(p) \in PinsOf(d) \cup EnableFields /\ Argument(p) \in Level
    BY <2>3 DEF ChipWires, Target, Argument
  <2>5. Target(p) \notin EnableFields
    BY Wired DEF EnableFields
  <2>6. c = d
    BY <2>4, <2>5, Wired
  <2> QED
    BY <1>1, <2>2, <2>4, <2>6 DEF Owns
<1>6. CASE job[p].kind = "ddc"
  <2>1. Script(job[p]) = SetDDCFreq(job[p])
    BY <1>2, <1>6, ScriptOf
  <2>2. /\ Field("RXPhase").reg # "PIO1" /\ Field("TXPhase").reg # "PIO1"
        /\ Field("RXRevFreq").reg # "PIO1" /\ Field("TXRevFreq").reg # "PIO1"
    BY DdcAt, SMT DEF FieldAt
  <2>3. Len(Script(job[p])) = 2 /\ Script(job[p])[1][1].reg # "PIO1"
        /\ Script(job[p])[2][1].reg # "PIO1"
    BY <2>1, <2>2 DEF SetDDCFreq
  <2>4. Done(p) + 1 = 1 \/ Done(p) + 1 = 2
    BY <1>3, <2>3
  <2>5. todo[p][1][1].reg # "PIO1"
    BY <1>3, <2>3, <2>4
  <2> QED
    BY <1>4, <2>5 DEF Target
<1>7. CASE job[p].kind = "util"
  <2>1. Script(job[p]) = <<<<Field(job[p].pin), job[p].arg>>>>
    BY <1>2, <1>7, ScriptOf
  <2>2. todo[p][1] = <<Field(job[p].pin), job[p].arg>>
    BY <1>3, <2>1
  <2> QED
    BY <1>2, <1>7, <2>2 DEF ChipsLeftAlone, Target
<1> QED
  BY <1>2, <1>5, <1>6, <1>7, SessionKinds

\* Nothing happens to a chip whose pins are left alone.
LEMMA StagesStay ==
    ASSUME NEW c \in Chips,
           UNCHANGED <<shift[c], latched[c], sent[c], Latch(c), Clock(c), Data(c)>>
    PROVE  /\ Taken(c)' <=> Taken(c)
           /\ \A w : Waiting(c, w)' <=> Waiting(c, w)
           /\ \A w, k : AdcStage(c, w, k) => AdcStage(c, w, k)'
           /\ \A w, pre, k : ThreeWireStage(c, w, pre, k) => ThreeWireStage(c, w, pre, k)'
<1>1. Taken(c)' <=> Taken(c)
  BY DEF Taken
<1>2. \A w : Waiting(c, w)' <=> Waiting(c, w)
  BY DEF Waiting
<1>3. \A w, j : Shifting(c, w, j)' <=> Shifting(c, w, j)
  BY DEF Shifting
<1>4. \A w, k : AdcStage(c, w, k) => AdcStage(c, w, k)'
  BY <1>1, <1>2, <1>3 DEF AdcStage
<1>5. \A w, pre, k : ThreeWireStage(c, w, pre, k) => ThreeWireStage(c, w, pre, k)'
  BY <1>1, <1>2, <1>3 DEF ThreeWireStage
<1> QED
  BY <1>1, <1>2, <1>4, <1>5

\* A chip none of whose pins is set stays where it is with its program.
LEMMA ChipStays ==
    ASSUME NEW c \in Chips, ChipFollows(c),
           UNCHANGED <<shift[c], latched[c], sent[c], Latch(c), Clock(c), Data(c), pc, job>>,
           \A q \in Progs : Owns(q, c) /\ pc[q] = "using" => UNCHANGED Done(q)
    PROVE  ChipFollows(c)'
<1>1. /\ Taken(c)' <=> Taken(c)
      /\ \A w : Waiting(c, w)' <=> Waiting(c, w)
      /\ \A w, k : AdcStage(c, w, k) => AdcStage(c, w, k)'
      /\ \A w, pre, k : ThreeWireStage(c, w, pre, k) => ThreeWireStage(c, w, pre, k)'
  BY StagesStay
<1>2. \A q \in Progs : Owns(q, c)' <=> Owns(q, c)
  BY DEF Owns, ChipOf
<1>3. ASSUME NEW q \in Progs, Owns(q, c), WithOwner(q, c)
      PROVE  WithOwner(q, c)'
  <2>1. (pc[q] = "using" => Done(q)' = Done(q)) /\ pc'[q] = pc[q] /\ job'[q] = job[q]
    BY <1>3
  <2> QED
    BY <1>1, <1>3, <2>1 DEF WithOwner
<1> QED
  BY <1>1, <1>2, <1>3 DEF ChipFollows

\* A program that opens or closes the device: how it stands with the chips.
LEMMA MoveFollows ==
    ASSUME Kept, NEW p \in Progs, NEW l \in Locations, NEW c \in Chips, ChipFollows(c),
           pc[p] # "closed", pc' = [pc EXCEPT ![p] = l],
           UNCHANGED <<shift, latched, sent, lastset, job>>,
           \A q \in Progs \ {p} : todo'[q] = todo[q],
           Owns(p, c) => IF l = "closed" THEN Taken(c) ELSE WithOwner(p, c)'
    PROVE  ChipFollows(c)'
<1>0. UNCHANGED <<shift[c], latched[c], sent[c], Latch(c), Clock(c), Data(c)>>
  BY DEF Latch, Clock, Data
<1>1. /\ Taken(c)' <=> Taken(c)
      /\ \A w : Waiting(c, w)' <=> Waiting(c, w)
      /\ \A w, k : AdcStage(c, w, k) => AdcStage(c, w, k)'
      /\ \A w, pre, k : ThreeWireStage(c, w, pre, k) => ThreeWireStage(c, w, pre, k)'
  BY <1>0, StagesStay
<1>2. \A q \in Progs : pc'[q] = IF q = p THEN l ELSE pc[q]
  BY DEF Kept, Ordered, Typed
<1>3. ASSUME NEW q \in Progs, q # p
      PROVE  (Owns(q, c)' <=> Owns(q, c)) /\ (WithOwner(q, c) => WithOwner(q, c)')
  <2>1. pc'[q] = pc[q] /\ job'[q] = job[q] /\ todo'[q] = todo[q]
    BY <1>2, <1>3
  <2>2. Done(q)' = Done(q)
    BY <2>1, SameDone
  <2>3. WithOwner(q, c) => WithOwner(q, c)'
    BY <1>1, <2>1, <2>2 DEF WithOwner
  <2> QED
    BY <2>1, <2>3 DEF Owns, ChipOf
<1>4. Owns(p, c)' <=> (Owns(p, c) /\ l # "closed")
  BY <1>2 DEF Owns, ChipOf
<1>5. ASSUME NEW q \in Progs, Owns(q, c)'
      PROVE  WithOwner(q, c)'
  BY <1>3, <1>4, <1>5 DEF ChipFollows
<1>6. ASSUME \A q \in Progs : ~Owns(q, c)'
      PROVE  Taken(c)'
  <2>1. CASE Owns(p, c)
    BY <1>1, <1>4, <1>6, <2>1
  <2>2. CASE ~Owns(p, c)
    BY <1>1, <1>3, <1>6, <2>2 DEF ChipFollows
  <2> QED
    BY <2>1, <2>2
<1> QED
  BY <1>5, <1>6 DEF ChipFollows

\* A program that has made its calls has sent its word.
LEMMA SentWhenMade ==
    ASSUME Kept, NEW p \in Progs, NEW c \in Chips, ChipFollows(c), Owns(p, c),
           pc[p] = "using", todo[p] = <<>>
    PROVE  Taken(c)
<1>1. job[p] \in Sessions /\ c \in ChipOf(job[p]) /\ WithOwner(p, c)
  BY DEF Owns, ChipFollows, Kept, Ordered, Typed
<1>2. PICK w \in Words : w = job[p].word
  BY <1>1, ChipSession
<1>3. PICK script : script = Script(job[p])
  OBVIOUS
<1>4. Len(script) \in Nat /\ Len(w) \in Nat /\ Len(w) >= 1
  <2>1. script \in Seq(ChipWires(c))
    BY <1>1, <1>3, ChipSession
  <2> QED
    BY <2>1, LenProperties, WordIsSeq
<1>5. Done(p) = Len(script)
  <2>1. Agenda(p) = script
    BY <1>3 DEF Agenda
  <2> QED
    BY <1>4, <2>1 DEF Done
<1>6. CASE job[p].kind = "adc"
  <2>1. Len(script) = 3 * Len(w) + 4
    BY <1>1, <1>2, <1>3, <1>6, ChipSession DEF AdcSets
  <2>2. AdcStage(c, w, 3 * Len(w) + 4)
    BY <1>1, <1>2, <1>5, <1>6, <2>1 DEF WithOwner
  <2> QED
    BY <1>4, <2>2 DEF AdcStage
<1>7. ASSUME NEW pre \in {1, 2}, job[p].kind = (IF pre = 2 THEN "synth" ELSE "vga")
      PROVE  Taken(c)
  <2>1. ThreeWireSets(script, Wiring[c], w, pre)
    BY <1>1, <1>2, <1>3, <1>7, ChipSession
  <2>2. Len(script) = 3 * Len(w) + pre + (IF pre = 2 THEN 4 ELSE 3)
    BY <2>1 DEF ThreeWireSets
  <2>3. ThreeWireStage(c, w, pre, Len(script))
    BY <1>1, <1>2, <1>5, <1>7 DEF WithOwner
  <2> HIDE <2>1
  <2>4. ThreeWireStage(c, w, pre, 3 * Len(w) + pre + (IF pre = 2 THEN 4 ELSE 3))
    BY <2>2, <2>3
  <2>5. CASE pre = 1
    BY <1>4, <2>4, <2>5 DEF ThreeWireStage
  <2>6. CASE pre = 2
    BY <1>4, <2>4, <2>6 DEF ThreeWireStage
  <2> QED
    BY <2>5, <2>6
<1> QED
  BY <1>1, <1>6, <1>7, ChipSession

LEMMA InitClocked == Init => Clocked
<1> SUFFICES ASSUME Init PROVE Clocked
  OBVIOUS
<1>1. /\ shift = [c \in Chips |-> <<>>] /\ latched = [c \in Chips |-> <<>>]
      /\ sent = [c \in Chips |-> <<>>] /\ pc = [p \in Progs |-> "closed"]
  BY DEF Init
<1>2. \A c \in Chips : Taken(c) /\ \A p \in Progs : ~Owns(p, c)
  BY <1>1 DEF Taken, Owns
<1> QED
  BY <1>1, <1>2 DEF Clocked, ChipFollows, Alone

\* A program is started for a chip: unless another is there, its word is the next.
LEMMA StartClocked ==
    ASSUME Kept, Kept', Clocked, NEW p \in Progs, NEW s \in Sessions, Start(p, s)
    PROVE  Clocked'
<1>1. /\ pc[p] = "closed" /\ pc' = [pc EXCEPT ![p] = "opening"] /\ job' = [job EXCEPT ![p] = s]
      /\ sent' = [c \in Chips |-> IF c \in ChipOf(s) THEN Append(sent[c], s.word) ELSE sent[c]]
      /\ shared' = shared \cup {c \in ChipOf(s) : \E q \in Progs : Owns(q, c)}
      /\ UNCHANGED <<shift, latched, lastset, exposed, todo>>
  BY DEF Start, pins, started, Owns
<1>2. /\ \A q \in Progs : pc'[q] = IF q = p THEN "opening" ELSE pc[q]
      /\ \A q \in Progs : job'[q] = IF q = p THEN s ELSE job[q]
  BY <1>1 DEF Kept, Ordered, Typed
<1>3. sent' \in [Chips -> Seq(Words)]
  <2>1. \A c \in Chips : c \in ChipOf(s) => s.word \in Words
    BY ChipSession
  <2>2. \A c \in Chips : sent[c] \in Seq(Words)
    BY DEF Clocked
  <2>3. \A t \in Seq(Words) : \A w \in Words : Append(t, w) \in Seq(Words)
    OBVIOUS
  <2>4. \A c \in Chips : (IF c \in ChipOf(s) THEN Append(sent[c], s.word) ELSE sent[c]) \in Seq(Words)
    BY <2>1, <2>2, <2>3
  <2> QED
    BY <1>1, <2>4
<1>4. ASSUME NEW c \in Chips, c \notin shared'
      PROVE  /\ \A q, r \in Progs : Owns(q, c)' /\ Owns(r, c)' => q = r
             /\ Sure(c)' => ChipFollows(c)'
  <2>0. c \notin shared /\ (Sure(c)' => Sure(c))
    BY <1>1, <1>4 DEF Sure
  <2>1. Owns(p, c)' <=> c \in ChipOf(s)
    BY <1>2 DEF Owns, ChipOf
  <2>2. \A q \in Progs : q # p => (Owns(q, c)' <=> Owns(q, c))
    BY <1>2 DEF Owns, ChipOf
  <2>3. ~Owns(p, c)
    BY <1>1 DEF Owns
  <2>4. CASE c \in ChipOf(s)
    <3>1. \A q \in Progs : q # p => ~Owns(q, c)'
      BY <1>1, <1>4, <2>2, <2>4
    <3> SUFFICES ASSUME Sure(c)' PROVE ChipFollows(c)'
      BY <3>1
    <3>2. Taken(c)
      BY <2>0, <2>2, <2>3, <3>1 DEF Clocked, ChipFollows
    <3>3. Waiting(c, s.word)'
      BY <1>1, <2>4, <3>2 DEF Taken, Waiting
    <3>4. WithOwner(p, c)'
      BY <1>2, <3>3 DEF WithOwner, Waiting
    <3> QED
      BY <2>1, <2>4, <3>1, <3>4 DEF ChipFollows
  <2>5. CASE c \notin ChipOf(s)
    <3>4. \A q, r \in Progs : Owns(q, c)' /\ Owns(r, c)' => q = r
      BY <2>0, <2>1, <2>2, <2>5 DEF Clocked, Alone
    <3> SUFFICES ASSUME Sure(c)' PROVE ChipFollows(c)'
      BY <3>4
    <3>1. UNCHANGED <<shift[c], latched[c], sent[c], Latch(c), Clock(c), Data(c)>>
      BY <1>1, <2>5 DEF Latch, Clock, Data
    <3>2. /\ Taken(c)' <=> Taken(c)
          /\ \A w : Waiting(c, w)' <=> Waiting(c, w)
          /\ \A w, k : AdcStage(c, w, k) => AdcStage(c, w, k)'
          /\ \A w, pre, k : ThreeWireStage(c, w, pre, k) => ThreeWireStage(c, w, pre, k)'
      BY <3>1, StagesStay
    <3>3. ASSUME NEW q \in Progs, q # p, WithOwner(q, c) PROVE WithOwner(q, c)'
      <4>1. pc'[q] = pc[q] /\ job'[q] = job[q] /\ todo'[q] = todo[q]
        BY <1>1, <1>2, <3>3
      <4>2. Done(q)' = Done(q)
        BY <4>1, SameDone
      <4> QED
        BY <3>2, <3>3, <4>1, <4>2 DEF WithOwner
    <3> QED
      BY <2>0, <2>1, <2>2, <2>3, <2>5, <3>2, <3>3 DEF Clocked, ChipFollows
  <2> QED
    BY <2>4, <2>5
<1>5. \A c \in Chips : Sure(c)' => c \notin shared'
  BY DEF Sure
<1> QED
  BY <1>1, <1>3, <1>4, <1>5 DEF Clocked, Alone

\* Opening and closing: the word is not begun, or it is taken over.
LEMMA MovesClocked ==
    ASSUME Kept, Clocked, NEW p \in Progs,
           \/ OpenFirst(p) \/ OpenAgain(p) \/ PoweredOn(p)
           \/ CloseLast(p) \/ CloseOther(p) \/ PoweredOff(p)
    PROVE  Clocked'
<1>1. UNCHANGED <<shift, latched, sent, lastset, job, exposed, shared>>
  BY MovesKept
<1>2. pc[p] # "closed" /\ \A q \in Progs \ {p} : todo'[q] = todo[q]
  BY DEF OpenFirst, OpenAgain, PoweredOn, CloseLast, CloseOther, PoweredOff, Opened, Closed,
         Kept, Ordered, Typed
<1>12. Alone'
  <2>1. \A q \in Progs, c \in Chips : Owns(q, c)' => Owns(q, c)
    BY <1>1, <1>2 DEF OpenFirst, OpenAgain, PoweredOn, CloseLast, CloseOther, PoweredOff,
                      Opened, Closed, Owns, ChipOf, Kept, Ordered, Typed
  <2> QED
    BY <1>1, <2>1 DEF Clocked, Alone
<1> SUFFICES ASSUME NEW c \in Chips, Sure(c) PROVE ChipFollows(c)'
  BY <1>1, <1>12 DEF Clocked, Sure
<1>3. ChipFollows(c)
  BY DEF Clocked
<1>4. \A w : Waiting(c, w)' <=> Waiting(c, w)
  BY <1>1 DEF Waiting
<1>5. Taken(c)' <=> Taken(c)
  BY <1>1 DEF Taken
<1>6. Owns(p, c) => WithOwner(p, c)
  BY <1>3 DEF ChipFollows
<1>7. CASE OpenFirst(p)
  <2>1. pc[p] = "opening" /\ pc' = [pc EXCEPT ![p] = "powers_on"]
    BY <1>7 DEF OpenFirst
  <2>3. pc'[p] = "powers_on" /\ job'[p] = job[p]
    BY <1>1, <2>1 DEF Kept, Ordered, Typed
  <2>4. PICK w : w = job[p].word
    OBVIOUS
  <2>5. Owns(p, c) => Waiting(c, w)'
    BY <1>4, <1>6, <2>1, <2>4 DEF WithOwner
  <2>2. Owns(p, c) => WithOwner(p, c)'
    BY <2>3, <2>4, <2>5 DEF WithOwner
  <2> QED
    BY <1>1, <1>2, <1>3, <2>1, <2>2, MoveFollows DEF Locations
<1>8. CASE OpenAgain(p) \/ PoweredOn(p)
  <2>1. pc[p] \in {"opening", "powers_on"} /\ pc' = [pc EXCEPT ![p] = "using"]
    BY <1>8 DEF OpenAgain, PoweredOn, Opened
  <2>2. Done(p)' = 0
    BY <1>8, OpenedKeeps DEF Kept
  <2>3. pc'[p] = "using" /\ job'[p] = job[p]
    BY <1>1, <2>1 DEF Kept, Ordered, Typed
  <2>4. Owns(p, c) => WithOwner(p, c)'
    <3> SUFFICES ASSUME Owns(p, c) PROVE WithOwner(p, c)'
      OBVIOUS
    <3> PICK w : w = job[p].word
      OBVIOUS
    <3>1. Waiting(c, w)'
      BY <1>4, <1>6, <2>1 DEF WithOwner
    <3>2. AdcStage(c, w, 0)' /\ \A pre : ThreeWireStage(c, w, pre, 0)'
      BY <3>1 DEF AdcStage, ThreeWireStage
    <3> QED
      BY <2>2, <2>3, <3>2 DEF WithOwner
  <2> QED
    BY <1>1, <1>2, <1>3, <2>1, <2>4, MoveFollows DEF Locations
<1>9. CASE CloseLast(p)
  <2>1. pc[p] = "using" /\ todo[p] = <<>> /\ pc' = [pc EXCEPT ![p] = "powers_off"]
    BY <1>9 DEF CloseLast
  <2>2. Owns(p, c) => Taken(c)'
    BY <1>3, <1>5, <2>1, SentWhenMade
  <2>3. Owns(p, c) => WithOwner(p, c)'
    BY <2>1, <2>2 DEF WithOwner, Kept, Ordered, Typed
  <2> QED
    BY <1>1, <1>2, <1>3, <2>1, <2>3, MoveFollows DEF Locations
<1>10. CASE CloseOther(p)
  <2>1. pc[p] = "using" /\ todo[p] = <<>> /\ pc' = [pc EXCEPT ![p] = "closed"]
    BY <1>10 DEF CloseOther, Closed
  <2>2. Owns(p, c) => Taken(c)
    BY <1>3, <2>1, SentWhenMade
  <2> QED
    BY <1>1, <1>2, <1>3, <2>1, <2>2, MoveFollows DEF Locations
<1>11. CASE PoweredOff(p)
  <2>1. pc[p] = "powers_off" /\ pc' = [pc EXCEPT ![p] = "closed"]
    BY <1>11 DEF PoweredOff, Closed
  <2>2. Owns(p, c) => Taken(c)
    BY <1>6, <2>1 DEF WithOwner
  <2> QED
    BY <1>1, <1>2, <1>3, <2>1, <2>2, MoveFollows DEF Locations
<1> QED
  BY <1>7, <1>8, <1>9, <1>10, <1>11

\* What the program of a chip sets next: a legal set of its session's.
LEMMA OwnerSets ==
    ASSUME Kept, NEW p \in Progs, NEW c \in Chips, Owns(p, c), pc[p] = "using", todo[p] # <<>>
    PROVE  /\ job[p] \in Sessions /\ c \in ChipOf(job[p])
           /\ Done(p) \in Nat /\ Done(p) + 1 <= Len(Script(job[p]))
           /\ <<Target(p), Argument(p)>> = Script(job[p])[Done(p) + 1]
           /\ Settable(Target(p)) /\ Accepted(Target(p), Argument(p)) /\ Argument(p) \in Level
<1>1. job[p] \in Sessions /\ c \in ChipOf(job[p])
  BY DEF Owns, Kept, Ordered, Typed
<1>2. Agenda(p) = Script(job[p])
  BY DEF Agenda
<1>3. /\ Done(p) \in Nat /\ Done(p) + 1 \in 1 .. Len(Script(job[p]))
      /\ todo[p][1] = Script(job[p])[Done(p) + 1]
  BY <1>2, FirstOfAgenda DEF Kept
<1>4. todo[p][1] = <<Target(p), Argument(p)>>
  BY TargetIs DEF Kept, Ordered
<1>5. Script(job[p]) \in Seq(ChipWires(c))
  BY <1>1, ChipSession
<1>6. Script(job[p]) \in Seq(Wires)
  BY <1>5, ChipWiresAreWires, SeqMonotonic
<1>7. todo[p][1] \in Wires
  BY <1>3, <1>6, ElementOfSeq
<1>8. Target(p) \in WiredFields /\ Argument(p) \in Level
  BY <1>7 DEF Wires, Target, Argument
<1>9. Target(p).reg = "PIO1" /\ Target(p).width = 1
  BY <1>8, WiredAt
<1>10. Settable(Target(p)) /\ Accepted(Target(p), Argument(p))
  BY <1>8, <1>9, LevelFits DEF Settable
<1>11. Done(p) + 1 <= Len(Script(job[p]))
  BY <1>3
<1> QED
  BY <1>1, <1>3, <1>4, <1>8, <1>10, <1>11

\* The driver refuses no set of a chip's program.
LEMMA SetRefusedClocked ==
    ASSUME Kept, Clocked, NEW p \in Progs, SetRefused(p)
    PROVE  Clocked'
<1>1. /\ UNCHANGED <<shift, latched, sent, lastset, exposed, shared, pc, job>> /\ todo[p] # <<>>
      /\ \A q \in Progs \ {p} : todo'[q] = todo[q]
      /\ ~ (Settable(Target(p)) /\ Accepted(Target(p), Argument(p)))
  BY DEF SetRefused, pins, started, Kept, Ordered, Typed
<1>2. ASSUME NEW c \in Chips, Sure(c) PROVE ChipFollows(c)'
  <2>1. UNCHANGED <<shift[c], latched[c], sent[c], Latch(c), Clock(c), Data(c), pc, job>>
    BY <1>1 DEF Latch, Clock, Data
  <2>2. ~ (Owns(p, c) /\ pc[p] = "using")
    BY <1>1, OwnerSets
  <2>3. \A q \in Progs : Owns(q, c) /\ pc[q] = "using" => UNCHANGED Done(q)
    BY <1>1, <2>2, SameDone
  <2>4. ChipFollows(c)
    BY <1>2 DEF Clocked
  <2> QED
    BY <2>1, <2>3, <2>4, ChipStays
<1> QED
  BY <1>1, <1>2 DEF Clocked, Sure, Alone, Owns, ChipOf

\* Reading a register, and doing nothing.
LEMMA IdleClocked ==
    ASSUME Clocked, UNCHANGED <<shift, latched, sent, lastset, shared, pc, job, todo>>,
           exposed \subseteq exposed'
    PROVE  Clocked'
<1>1. ASSUME NEW c \in Chips, Sure(c) PROVE ChipFollows(c)'
  <2>1. UNCHANGED <<shift[c], latched[c], sent[c], Latch(c), Clock(c), Data(c), pc, job>>
    BY DEF Latch, Clock, Data
  <2>2. \A q \in Progs : UNCHANGED Done(q)
    BY SameDone
  <2>3. ChipFollows(c)
    BY <1>1 DEF Clocked
  <2> QED
    BY <2>1, <2>2, <2>3, ChipStays
<1> QED
  BY <1>1 DEF Clocked, Sure, Alone, Owns, ChipOf

\* What a chip has clocked in and taken over stays bits and words.
LEMMA ChipTypes ==
    ASSUME Clocked, NEW p \in Progs, SetWrites(p)
    PROVE  shift' \in [Chips -> Seq(Level)] /\ latched' \in [Chips -> Seq(Words)]
<1>1. CASE Target(p).reg # "PIO1"
  BY <1>1 DEF SetWrites, WriteRegister, Clocked
<1>2. CASE Target(p).reg = "PIO1"
  <2> DEFINE old == pio["PIO1"]
             new == SetField(seen[p], Target(p), Argument(p))
  <2>1. /\ shift' = [c \in Chips |-> ChipSees(c, old, new, shift[c])]
        /\ latched' = [c \in Chips |-> ChipLatches(c, old, new, shift[c], latched[c])]
    BY <1>2 DEF SetWrites, WriteRegister
  <2> HIDE DEF old, new
  <2>2. ASSUME NEW c \in Chips PROVE ChipSees(c, old, new, shift[c]) \in Seq(Level)
    <3>1. shift[c] \in Seq(Level) /\ Zero \in Level /\ One \in Level
      BY DEF Clocked, Level
    <3>2. \A v \in Level : Append(shift[c], v) \in Seq(Level)
      BY <3>1
    <3> QED
      BY <3>1, <3>2 DEF ChipSees
  <2>3. ASSUME NEW c \in Chips PROVE ChipLatches(c, old, new, shift[c], latched[c]) \in Seq(Words)
    <3>1. latched[c] \in Seq(Words) /\ (shift[c] # <<>> => shift[c] \in Words)
      BY DEF Clocked, Words, Level
    <3>2. shift[c] # <<>> => Append(latched[c], shift[c]) \in Seq(Words)
      BY <3>1
    <3> QED
      BY <3>1, <3>2 DEF ChipLatches
  <2> QED
    BY <2>1, <2>2, <2>3
<1> QED
  BY <1>1, <1>2

\* A set of the program's own chip takes it one stage further; the others stay.
LEMMA SetWritesClocked ==
    ASSUME Kept, Kept', Clocked, ChipsLeftAlone, NEW p \in Progs, SetWrites(p)
    PROVE  Clocked'
<1>1. /\ UNCHANGED <<sent, shared, pc, job>> /\ todo[p] # <<>> /\ exposed \subseteq exposed'
      /\ \A q \in Progs \ {p} : todo'[q] = todo[q]
  BY Written DEF Kept, Ordered, Typed, SetWrites, started
<1>2. Done(p)' = Done(p) + 1 /\ \A q \in Progs \ {p} : Done(q)' = Done(q)
  BY <1>1, SetWritesKeeps, SameDone DEF Kept
<1>3. ASSUME NEW c \in Chips, Sure(c)' PROVE ChipFollows(c)'
  <2>0. ChipFollows(c) /\ c \notin shared /\ PinsOf(c) \cap exposed' = {}
    BY <1>1, <1>3 DEF Clocked, Sure
  <2>1. CASE Owns(p, c) /\ pc[p] = "using"
    <3>1. /\ job[p] \in Sessions /\ c \in ChipOf(job[p])
          /\ Done(p) \in Nat /\ Done(p) + 1 <= Len(Script(job[p]))
          /\ <<Target(p), Argument(p)>> = Script(job[p])[Done(p) + 1]
          /\ Argument(p) \in Level
      BY <1>1, <2>1, OwnerSets
    <3>2. PICK s \in Sessions, w \in Words, k \in Nat :
            s = job[p] /\ w = s.word /\ k = Done(p)
      BY <3>1, ChipSession
    <3>3. PICK script : script = Script(s)
      OBVIOUS
    <3>4. k + 1 <= Len(script) /\ <<Target(p), Argument(p)>> = script[k + 1]
      BY <3>1, <3>2, <3>3
    <3>5. WithOwner(p, c) /\ c \in ChipOf(s)
      BY <2>0, <2>1, <3>1, <3>2 DEF ChipFollows
    <3>12. Argument(p) \in Level /\ PinsOf(c) \cap exposed' = {}
      BY <2>0, <3>1
    <3>6. s.kind = "adc" => AdcStage(c, w, k + 1)'
      <4> SUFFICES ASSUME s.kind = "adc" PROVE AdcStage(c, w, k + 1)'
        OBVIOUS
      <4>1. AdcStage(c, w, k)
        BY <2>1, <3>2, <3>5 DEF WithOwner
      <4>2. AdcSets(script, Wiring[c], w)
        BY <3>2, <3>3, <3>5, ChipSession
      <4> QED
        BY <3>4, <3>12, <4>1, <4>2, AdcSetStep
    <3>7. s.kind = "synth" => ThreeWireStage(c, w, 2, k + 1)'
      <4> SUFFICES ASSUME s.kind = "synth" PROVE ThreeWireStage(c, w, 2, k + 1)'
        OBVIOUS
      <4>1. ThreeWireStage(c, w, 2, k)
        BY <2>1, <3>2, <3>5 DEF WithOwner
      <4>2. ThreeWireSets(script, Wiring[c], w, 2) /\ c \in {"N61", "N62"}
        BY <3>2, <3>3, <3>5, ChipSession
      <4> QED
        BY <3>4, <3>12, <4>1, <4>2, ThreeWireSetStep
    <3>8. s.kind = "vga" => ThreeWireStage(c, w, 1, k + 1)'
      <4> SUFFICES ASSUME s.kind = "vga" PROVE ThreeWireStage(c, w, 1, k + 1)'
        OBVIOUS
      <4>1. ThreeWireStage(c, w, 1, k)
        BY <2>1, <3>2, <3>5 DEF WithOwner
      <4>2. ThreeWireSets(script, Wiring[c], w, 1)
        BY <3>2, <3>3, <3>5, ChipSession
      <4> QED
        BY <3>4, <3>12, <4>1, <4>2, ThreeWireSetStep
    <3>9. WithOwner(p, c)'
      <4>1. pc'[p] = "using" /\ job'[p] = s /\ s.word = w /\ Done(p)' = k + 1
        BY <1>1, <1>2, <2>1, <3>2
      <4> QED
        BY <3>6, <3>7, <3>8, <4>1 DEF WithOwner
    <3>10. \A q \in Progs : Owns(q, c)' <=> Owns(q, c)
      BY <1>1 DEF Owns, ChipOf
    <3>11. \A q \in Progs : Owns(q, c) => q = p
      BY <2>0, <2>1 DEF Clocked, Alone
    <3> QED
      BY <2>1, <3>9, <3>10, <3>11 DEF ChipFollows
  <2>2. CASE ~ (Owns(p, c) /\ pc[p] = "using")
    <3>1. Target(p) \notin PinsOf(c)
      BY <1>1, <2>2, SetsOwnChip
    <3>2. UNCHANGED <<shift[c], latched[c], Latch(c), Clock(c), Data(c)>>
      BY <2>0, <3>1, ChipStep
    <3>3. UNCHANGED <<shift[c], latched[c], sent[c], Latch(c), Clock(c), Data(c), pc, job>>
      BY <1>1, <3>2
    <3>4. \A q \in Progs : Owns(q, c) /\ pc[q] = "using" => UNCHANGED Done(q)
      BY <1>2, <2>2
    <3> QED
      BY <2>0, <3>3, <3>4, ChipStays
  <2> QED
    BY <2>1, <2>2
<1>4. Alone'
  BY <1>1 DEF Clocked, Alone, Owns, ChipOf
<1> QED
  BY <1>1, <1>3, <1>4, ChipTypes DEF Clocked

LEMMA AlwaysClocked ==
    ASSUME ChipsLeftAlone
    PROVE  Spec => [](Kept /\ Clocked)
<1>1. Kept /\ [Next]_vars => Kept'
  BY NextKept
<1>2. Kept /\ Kept' /\ Clocked /\ [Next]_vars => Clocked'
  <2> SUFFICES ASSUME Kept, Kept', Clocked, [Next]_vars PROVE Clocked'
    OBVIOUS
  <2>1. CASE UNCHANGED vars
    <3>1. UNCHANGED <<shift, latched, sent, lastset, exposed, shared, pc, job, todo>>
      BY <2>1 DEF vars, driver, pins, started
    <3> QED
      BY <3>1, IdleClocked
  <2>2. ASSUME NEW p \in Progs, SetReads(p) PROVE Clocked'
    <3>1. /\ UNCHANGED <<shift, latched, sent, lastset, shared, pc, job, todo>>
          /\ exposed \subseteq exposed'
      BY <2>2 DEF SetReads, started
    <3> QED
      BY <3>1, IdleClocked
  <2>3. CASE Next
    BY <2>2, <2>3, StartClocked, MovesClocked, SetRefusedClocked, SetWritesClocked DEF Next
  <2> QED
    BY <2>1, <2>3
<1> QED
  BY <1>1, <1>2, InitKept, InitClocked, PTL DEF Spec

\* langford_spi.cpp:15 and the two WriteReg: a chip takes over the words the programs were
\* started to send it, in that order and bit for bit, and the last one no later than when
\* its program has ended, for words of any length and any number of programs on the same
\* register, unless two of them wrote to the chip at a time or sets that overlapped or
\* reached over others exposed a pin of it; langford_util is not given a pin of a chip.
THEOREM WordsTaken ==
    ASSUME ChipsLeftAlone
    PROVE  Spec => []ChipsLatchWhatWasSent
<1>1. ASSUME NEW t \in Seq(Words)
      PROVE  IsPrefix(t, t) /\ \A w \in Words : IsPrefix(t, Append(t, w))
  <2>1. IsPrefix(t, t)
    BY DEF IsPrefix
  <2>2. ASSUME NEW w \in Words PROVE IsPrefix(t, Append(t, w))
    <3>1. Len(t) \in Nat /\ Append(t, w) \in Seq(Words) /\ Len(Append(t, w)) = Len(t) + 1
          /\ \A i \in 1 .. Len(t) : Append(t, w)[i] = t[i]
      OBVIOUS
    <3> QED
      BY <3>1, SubSeqFull DEF IsPrefix
  <2> QED
    BY <2>1, <2>2
<1>2. Kept /\ Clocked => ChipsLatchWhatWasSent
  <2> SUFFICES ASSUME Kept, Clocked, NEW c \in Chips \ shared, PinsOf(c) \cap exposed = {}
               PROVE  /\ IsPrefix(latched[c], sent[c])
                      /\ latched[c] # sent[c] =>
                           \E p \in Progs : pc[p] # "closed" /\ c \in ChipOf(job[p])
    BY DEF ChipsLatchWhatWasSent
  <2>1. latched[c] \in Seq(Words) /\ sent[c] \in Seq(Words) /\ ChipFollows(c)
    BY DEF Clocked, Sure
  <2>2. CASE \A p \in Progs : ~Owns(p, c)
    <3>1. latched[c] = sent[c]
      BY <2>1, <2>2 DEF ChipFollows, Taken
    <3> QED
      BY <1>1, <2>1, <3>1
  <2>3. ASSUME NEW p \in Progs, Owns(p, c)
        PROVE  /\ latched[c] = sent[c] \/ \E w \in Words : sent[c] = Append(latched[c], w)
               /\ pc[p] # "closed" /\ c \in ChipOf(job[p])
    <3>1. /\ pc[p] # "closed" /\ c \in ChipOf(job[p]) /\ job[p] \in Sessions
          /\ pc[p] \in Locations /\ WithOwner(p, c)
      BY <2>1, <2>3 DEF Owns, ChipFollows, Kept, Ordered, Typed
    <3>2. PICK w \in Words : w = job[p].word
      BY <3>1, ChipSession
    <3>3. job[p].kind \in {"adc", "synth", "vga"}
      BY <3>1, ChipSession
    <3>4. \A k : AdcStage(c, w, k) => Taken(c) \/ sent[c] = Append(latched[c], w)
      BY DEF AdcStage, Waiting, Shifting
    <3>5. \A pre, k : ThreeWireStage(c, w, pre, k) => Taken(c) \/ sent[c] = Append(latched[c], w)
      BY DEF ThreeWireStage, Waiting, Shifting
    <3>6. Taken(c) \/ sent[c] = Append(latched[c], w)
      BY <3>1, <3>2, <3>3, <3>4, <3>5 DEF WithOwner, Waiting, Locations
    <3> QED
      BY <3>1, <3>6 DEF Taken
  <2>4. IsPrefix(latched[c], sent[c])
    BY <1>1, <2>1, <2>2, <2>3 DEF ChipFollows, Taken
  <2>5. latched[c] # sent[c] => \E p \in Progs : Owns(p, c)
    BY <2>1 DEF ChipFollows, Taken
  <2> QED
    BY <2>4, <2>5 DEF Owns
<1> QED
  BY <1>2, AlwaysClocked, PTL
===============================================================================
