---------------------------------- MODULE Pins ----------------------------------
(***************************************************************************)
(* The PIO registers through which ioctl_helper (langford.c) reaches the   *)
(* pins of the radio: where each field lies, and what a set and a get of a *)
(* field do to the register's word.  A word, and the 32-bit argument of an *)
(* ioctl, is the set of its bits that are 1.                               *)
(***************************************************************************)
EXTENDS Integers, Sequences

WordBits == 32
Bits == 0 .. WordBits - 1

FieldAt(name, reg, off, width) == [name |-> name, reg |-> reg, off |-> off, width |-> width]

\* Fields of equal width next to each other, the first at bit off.
FieldsFrom(reg, off, width, names) ==
    {FieldAt(names[i], reg, off + (i - 1) * width, width) : i \in DOMAIN names}

\* The "bit offset list" with the widths of the "read and write lists".
Layout ==
    FieldsFrom("PIO0", 0, 8, <<"N21at0", "N22at0", "N3GAIN">>)
    \cup FieldsFrom("PIO1", 0, 1,
           <<"N61CE", "N61DATA", "N61CLK", "N61LE", "N62CE", "N62DATA", "N62CLK", "N62LE",
             "N3ENB", "N3HILO", "NASRxA", "NASTxA", "N7CLK", "N7CS", "N7SDI", "DACIQSel",
             "DACReset", "DACCSB", "DACSDIO", "DACSClk", "ADCAnOE", "ADCAPD", "ADCASClk",
             "ADCASDIO", "ADCAnCS", "ADCBnOE", "ADCBPD", "ADCBSClk", "ADCBSDIO", "ADCBnCS",
             "DACSDO">>)
    \cup FieldsFrom("PIO2", 0, 1, <<"N61MUXOUT", "N61LD", "N62MUXOUT", "N62LD", "N7SDO">>)
    \cup {FieldAt("GPIOin", "PIO2", 5, 5)}
    \cup {FieldAt("RXPhase", "PIO3", 0, 32), FieldAt("TXPhase", "PIO4", 0, 32)}
    \cup FieldsFrom("PIO5", 0, 8, <<"RXDecEn", "TXIntEn">>)
    \cup FieldsFrom("PIO5", 16, 1,
           <<"RXRevFreq", "TXRevFreq", "RxDspEn", "TxDspEn", "NRXTALSEL", "NRVCOSEL",
             "RxFifoClr", "TxFifoClr", "RxIsSigned", "TxIsSigned">>)
    \cup {FieldAt("GPIOout", "PIO5", 26, 5), FieldAt("RxBaseband", "PIO5", 30, 1)}
    \cup FieldsFrom("PIO6", 0, 4, <<"RxErrorCorrGainQ", "RxErrorCorrGainI",
                                    "RxErrorCorrGroupDelayQ", "RxErrorCorrGroupDelayI">>)
    \cup FieldsFrom("PIO6", 16, 8, <<"RxErrorCorrDCOffsetQ", "RxErrorCorrDCOffsetI">>)
    \cup FieldsFrom("PIO7", 0, 4, <<"TxErrorCorrGainQ", "TxErrorCorrGainI",
                                    "TxErrorCorrGroupDelayQ", "TxErrorCorrGroupDelayI">>)
    \cup FieldsFrom("PIO7", 16, 8, <<"TxErrorCorrDCOffsetQ", "TxErrorCorrDCOffsetI">>)

Registers == {f.reg : f \in Layout}
Field(name) == CHOOSE f \in Layout : f.name = name

\* PIO2 holds inputs: it has no SET commands.
Settable(f) == f.reg # "PIO2"

\* The bits of a field in its register.
Span(f) == f.off .. f.off + f.width - 1

\* The range check of a SET.  It compares an int, so an argument with the sign bit
\* set passes it; a field of 32 bits has no check.
Accepted(f, arg) ==
    \/ f.width = WordBits
    \/ arg \subseteq 0 .. f.width - 1
    \/ WordBits - 1 \in arg

\* *parg << BitOffset, in 32 bits.
Shifted(arg, n) == {b + n : b \in {a \in arg : a + n \in Bits}}

\* Mutant: the field's old bits are not masked out.
SetField_NoMask(word, f, arg) == word \cup Shifted(arg, f.off)

\* (word & ~(mask << BitOffset)) | (*parg << BitOffset)
SetField(word, f, arg) == (word \ Span(f)) \cup Shifted(arg, f.off)

\* The other fields of the register that have a bit the set clears or sets.
Reached(f, arg) ==
    {g \in Layout \ {f} : g.reg = f.reg /\ Span(g) \cap (Span(f) \cup Shifted(arg, f.off)) # {}}

\* Sets of fields that share no bit, <<field, argument>>, one after the other: their
\* order does not matter.
SetFields(word, sets) ==
    (word \ UNION {Span(set[1]) : set \in sets})
    \cup UNION {Shifted(set[2], set[1].off) : set \in sets}

\* (word >> BitOffset) & mask
GetField(word, f) == {b - f.off : b \in word \cap Span(f)}
===============================================================================
