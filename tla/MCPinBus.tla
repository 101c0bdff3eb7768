-------------------------------- MODULE MCPinBus --------------------------------
(***************************************************************************)
(* PinBus for TLC: a session of each kind; of langford_util, one that      *)
(* ioctl_helper refuses, one whose argument is negative and reaches over   *)
(* RxDspEn, and the two fields that share a bit.                           *)
(***************************************************************************)
EXTENDS PinBus

MCSessions ==
    {[kind |-> "adc", chip |-> "ADCA", word |-> <<One, Zero>>],
     [kind |-> "synth", chip |-> "N61", word |-> <<Zero, One>>],
     [kind |-> "vga", chip |-> "N7", word |-> <<One, Zero>>],
     [kind |-> "ddc", channel |-> "rx", phase |-> {0, 31}, rev |-> One],
     [kind |-> "util", pin |-> "RXDecEn", arg |-> {8}],
     [kind |-> "util", pin |-> "RXDecEn", arg |-> {0, 18, 31}],
     [kind |-> "util", pin |-> "GPIOout", arg |-> {0, 4}],
     [kind |-> "util", pin |-> "RxBaseband", arg |-> Zero]}
===============================================================================
