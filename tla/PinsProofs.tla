------------------------------- MODULE PinsProofs -------------------------------
(***************************************************************************)
(* What a set of a field does to the register's word, for every field that *)
(* lies inside the word and every argument that fits the field; and that   *)
(* the fields of the layout are such fields, in places of their own.       *)
(***************************************************************************)
EXTENDS Pins, TLAPS

\* The field lies inside the word.
InWord(f) == f.off \in Nat /\ f.width \in Nat /\ f.off + f.width <= WordBits

\* The argument fits the field: what the range check of a SET is for.
Fits(f, arg) == arg \subseteq 0 .. f.width - 1

\* An argument that fits is shifted onto the field's own bits, and none is lost.
LEMMA ShiftedOntoSpan ==
    ASSUME NEW f, NEW arg, InWord(f), Fits(f, arg)
    PROVE  Shifted(arg, f.off) = {a + f.off : a \in arg}
           /\ Shifted(arg, f.off) \subseteq Span(f)
<1>1. \A a \in arg : a \in Int /\ a + f.off \in Bits /\ a + f.off \in Span(f)
  BY DEF InWord, Fits, Bits, WordBits, Span
<1>2. {a \in arg : a + f.off \in Bits} = arg
  BY <1>1
<1>3. Shifted(arg, f.off) = {a + f.off : a \in arg}
  BY <1>2 DEF Shifted
<1> QED
  BY <1>1, <1>3

\* langford.c:653 and its like: what was set in a field is what a get returns,
\* whatever the register held.
THEOREM SetThenGet ==
    ASSUME NEW f, NEW arg, NEW word \in SUBSET Bits, InWord(f), Fits(f, arg)
    PROVE  GetField(SetField(word, f, arg), f) = arg
<1> DEFINE shifted == Shifted(arg, f.off)
<1>1. shifted = {a + f.off : a \in arg} /\ shifted \subseteq Span(f)
  BY ShiftedOntoSpan
<1>2. SetField(word, f, arg) \cap Span(f) = shifted
  BY <1>1 DEF SetField
<1>3. f.off \in Int /\ \A a \in arg : a \in Int
  BY DEF InWord, Fits
<1>4. \A a \in arg : (a + f.off) - f.off = a
  BY <1>3
<1>5. {b - f.off : b \in shifted} = arg
  <2> HIDE DEF shifted
  <2>1. ASSUME NEW a \in arg
        PROVE  a \in {b - f.off : b \in shifted}
    <3>1. a + f.off \in shifted
      BY <1>1
    <3> QED
      BY <3>1, <1>4
  <2>2. ASSUME NEW b \in shifted
        PROVE  b - f.off \in arg
    <3>1. PICK a \in arg : b = a + f.off
      BY <1>1
    <3> QED
      BY <3>1, <1>4
  <2> QED
    BY <2>1, <2>2
<1> QED
  BY <1>2, <1>5 DEF GetField

\* A set leaves alone every field whose bits are not among those of its own: a
\* conflict on a register between programs that run one after the other can only
\* come from the layout.
THEOREM SetLeavesOthers ==
    ASSUME NEW f, NEW g, NEW arg, NEW word \in SUBSET Bits,
           InWord(f), Fits(f, arg), Span(f) \cap Span(g) = {}
    PROVE  GetField(SetField(word, f, arg), g) = GetField(word, g)
<1>1. Shifted(arg, f.off) \subseteq Span(f)
  BY ShiftedOntoSpan
<1>2. SetField(word, f, arg) \cap Span(g) = word \cap Span(g)
  BY <1>1 DEF SetField
<1> QED
  BY <1>2 DEF GetField

\* The field of a set holds the argument's low bits, whatever the argument is and
\* whatever the register held.
LEMMA SetOwnField ==
    ASSUME NEW f, NEW arg \in SUBSET Bits, NEW word \in SUBSET Bits, InWord(f)
    PROVE  GetField(SetField(word, f, arg), f) = arg \cap (0 .. f.width - 1)
<1> DEFINE low == arg \cap (0 .. f.width - 1)
<1>1. \A a \in arg : a \in Int /\ (a + f.off \in Bits /\ a + f.off \in Span(f) <=> a \in low)
  BY DEF InWord, Bits, WordBits, Span
<1>2. SetField(word, f, arg) \cap Span(f) = {a + f.off : a \in low}
  <2>1. SetField(word, f, arg) \cap Span(f) = Shifted(arg, f.off) \cap Span(f)
    BY DEF SetField
  <2> HIDE DEF low
  <2>2. ASSUME NEW b \in Shifted(arg, f.off) \cap Span(f)
        PROVE  b \in {a + f.off : a \in low}
    <3>1. PICK a \in arg : a + f.off \in Bits /\ b = a + f.off
      BY <2>2 DEF Shifted
    <3> QED
      BY <1>1, <2>2, <3>1
  <2>3. ASSUME NEW a \in low
        PROVE  a + f.off \in Shifted(arg, f.off) \cap Span(f)
    <3>1. a \in arg
      BY DEF low
    <3> QED
      BY <1>1, <3>1 DEF Shifted
  <2> QED
    BY <2>1, <2>2, <2>3
<1>3. \A a \in low : (a + f.off) - f.off = a
  BY <1>1 DEF InWord
<1> HIDE DEF low
<1>4. {b - f.off : b \in {a + f.off : a \in low}} = low
  BY <1>3
<1> QED
  BY <1>2, <1>4 DEF GetField, low

\* A set leaves alone every field it does not reach.
LEMMA SetSparesUnreached ==
    ASSUME NEW f \in Layout, NEW g \in Layout, NEW arg, NEW word \in SUBSET Bits,
           f # g, f.reg = g.reg, g \notin Reached(f, arg)
    PROVE  GetField(SetField(word, f, arg), g) = GetField(word, g)
<1>1. Span(g) \cap (Span(f) \cup Shifted(arg, f.off)) = {}
  BY DEF Reached
<1>2. SetField(word, f, arg) \cap Span(g) = word \cap Span(g)
  BY <1>1 DEF SetField
<1> QED
  BY <1>2 DEF GetField

\* A set of a field writes a word.
LEMMA SetIsWord ==
    ASSUME NEW f, NEW arg, NEW word \in SUBSET Bits
    PROVE  SetField(word, f, arg) \in SUBSET Bits
  BY DEF SetField, Shifted
-------------------------------------------------------------------------------
(* The layout *)

LEMMA LayoutInWord ==
    ASSUME NEW f \in Layout
    PROVE  InWord(f) /\ f.width > 0 /\ (f.reg = "PIO1" => f.width = 1)
  BY SMTT(60) DEF Layout, FieldsFrom, FieldAt, InWord, WordBits

\* A command names one field.
LEMMA NamesUnique ==
    ASSUME NEW f \in Layout, NEW g \in Layout, f.name = g.name
    PROVE  f = g
  BY SMTT(60) DEF Layout, FieldsFrom, FieldAt

LEMMA FieldOfName ==
    ASSUME NEW f \in Layout
    PROVE  Field(f.name) = f
<1>1. Field(f.name) \in Layout /\ Field(f.name).name = f.name
  BY ZenonT(30) DEF Field
<1> QED
  BY <1>1, NamesUnique

\* The pins that switch the peripherals, and where they are.
PeriphFields ==
    {FieldAt("ADCAPD", "PIO1", 21, 1), FieldAt("ADCBPD", "PIO1", 26, 1),
     FieldAt("DACReset", "PIO1", 16, 1), FieldAt("DACSClk", "PIO1", 19, 1),
     FieldAt("DACSDIO", "PIO1", 18, 1), FieldAt("DACCSB", "PIO1", 17, 1),
     FieldAt("DACSDO", "PIO1", 30, 1), FieldAt("RxDspEn", "PIO5", 18, 1),
     FieldAt("TxDspEn", "PIO5", 19, 1), FieldAt("RxIsSigned", "PIO5", 24, 1),
     FieldAt("TxIsSigned", "PIO5", 25, 1)}

LEMMA PeriphLaidOut == PeriphFields \subseteq Layout
  BY SMTT(60) DEF PeriphFields, Layout, FieldsFrom, FieldAt

\* The two fields of the layout that share a bit: bit 30 of PIO5.
Share(f, g) == {f.name, g.name} = {"GPIOout", "RxBaseband"}

LEMMA LayoutApart ==
    ASSUME NEW f \in Layout, NEW g \in Layout, f # g, f.reg = g.reg, ~Share(f, g)
    PROVE  Span(f) \cap Span(g) = {}
<1>1. f.off + f.width <= g.off \/ g.off + g.width <= f.off
  BY SMTT(60) DEF Layout, FieldsFrom, FieldAt, Share
<1> QED
  BY <1>1, LayoutInWord DEF InWord, Span

\* What a set of a field of the layout does to every field but one that shares a bit
\* with it, whatever word it is made from.
LEMMA SetInLayout ==
    ASSUME NEW f \in Layout, NEW g \in Layout, NEW word \in SUBSET Bits, NEW arg,
           ~Share(f, g), f.reg = g.reg, Fits(f, arg)
    PROVE  GetField(SetField(word, f, arg), g) = IF g = f THEN arg ELSE GetField(word, g)
<1>1. InWord(f)
  BY LayoutInWord
<1>2. CASE g = f
  BY <1>1, <1>2, SetThenGet
<1>3. CASE g # f
  BY <1>1, <1>3, LayoutApart, SetLeavesOthers
<1> QED
  BY <1>2, <1>3

\* Sets of fields of one register of the layout, each made once.
Together(sets, r) ==
    /\ \A set \in sets :
         /\ set[1] \in Layout /\ set[1].reg = r /\ Fits(set[1], set[2])
         /\ \A g \in Layout : ~Share(set[1], g)
    /\ \A set, other \in sets : set[1] = other[1] => set[2] = other[2]

\* Each of them is what a get returns afterwards, and the other fields are left alone.
LEMMA SetFieldsInLayout ==
    ASSUME NEW sets, NEW r, NEW word \in SUBSET Bits, NEW g \in Layout,
           Together(sets, r), g.reg = r
    PROVE  /\ SetFields(word, sets) \in SUBSET Bits
           /\ \A set \in sets : set[1] = g => GetField(SetFields(word, sets), g) = set[2]
           /\ (\A set \in sets : set[1] # g) =>
                GetField(SetFields(word, sets), g) = GetField(word, g)
<1>1. \A set \in sets : Shifted(set[2], set[1].off) \subseteq Span(set[1])
  BY LayoutInWord, ShiftedOntoSpan DEF Together
<1>2. \A set \in sets : set[1] # g => Span(set[1]) \cap Span(g) = {}
  BY LayoutApart DEF Together
<1>3. SetFields(word, sets) \in SUBSET Bits
  BY DEF SetFields, Shifted
<1>4. ASSUME NEW set \in sets, set[1] = g
      PROVE  GetField(SetFields(word, sets), g) = set[2]
  <2>1. \A other \in sets :
          Shifted(other[2], other[1].off) \cap Span(g) \subseteq Shifted(set[2], g.off)
    BY <1>1, <1>2, <1>4 DEF Together
  <2>2. SetFields(word, sets) \cap Span(g) = Shifted(set[2], g.off)
    BY <1>1, <1>4, <2>1 DEF SetFields
  <2>3. SetField(word, g, set[2]) \cap Span(g) = Shifted(set[2], g.off)
    BY <1>1, <1>4 DEF SetField
  <2>4. GetField(SetField(word, g, set[2]), g) = set[2]
    BY <1>4, SetThenGet, LayoutInWord DEF Together
  <2> QED
    BY <2>2, <2>3, <2>4 DEF GetField
<1>5. ASSUME \A set \in sets : set[1] # g
      PROVE  GetField(SetFields(word, sets), g) = GetField(word, g)
  <2>1. SetFields(word, sets) \cap Span(g) = word \cap Span(g)
    BY <1>1, <1>2, <1>5 DEF SetFields
  <2> QED
    BY <2>1 DEF GetField
<1> QED
  BY <1>3, <1>4, <1>5
===============================================================================
