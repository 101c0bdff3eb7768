--------------------------------- MODULE Adf4351 ---------------------------------
(***************************************************************************)
(* The frequency plan of the ADF4351 synthesizer: set_freq of              *)
(* adf4351_regs.hpp as fsynth.cpp calls it, with a reference of 125 MHz    *)
(* and a modulus of 125.                                                   *)
(*                                                                         *)
(* Frequencies are whole numbers of kHz.  The double arithmetic of the     *)
(* code is done with fractions: the phase detector runs at RefIn*(1+D)/R,  *)
(* so that vco_freq/pfd_freq is vco*R/(RefIn*(1+D)).                       *)
(***************************************************************************)
EXTENDS Integers

MinOut == 34375             \* ADF4351_MIN_OUT_FREQ
MaxOut == 4400000           \* ADF4350_MAX_OUT_FREQ
MinVco == 2200000
DesignPfd == 31250          \* ADF4350_DESIGN_PFD
MaxBandSelect == 125
RefIn == 125000
chan_mod == 125

\* The doubler is for references up to 12.5 MHz.
D == IF RefIn <= 12500 THEN 1 ELSE 0
Ref == RefIn * (1 + D)

\* vco_freq is doubled until the oscillator reaches it.
RFdiv(target) ==
    CHOOSE d \in {1, 2, 4, 8, 16, 32, 64} :
        target * d >= MinVco /\ (d = 1 \/ target * d < 2 * MinVco)

RFreg(div) == CASE div = 1 -> 0 [] div = 2 -> 1 [] div = 4 -> 2 [] div = 8 -> 3
                [] div = 16 -> 4 [] div = 32 -> 5 [] div = 64 -> 6

min_int_divider(vco) == IF vco > 3000000 THEN 75 ELSE 23

\* The two constraints of the outer loop.
Fits(vco, r) ==
    /\ Ref <= DesignPfd * r
    /\ (vco * r) \div Ref >= min_int_divider(vco)

\* The loops' R and BS: the first that fits and has a band select divider, and that divider.
BandSelects(r, bs) == Ref <= MaxBandSelect * r * bs
FirstR(vco) ==
    CHOOSE r \in 1 .. 1023 :
        /\ Fits(vco, r) /\ BandSelects(r, 255)
        /\ \A s \in 1 .. r - 1 : ~ (Fits(vco, s) /\ BandSelects(s, 255))

\* Mutant: the last divider that is too small.
FirstBS_TooSmall(r) ==
    CHOOSE bs \in 0 .. 254 : BandSelects(r, bs + 1) /\ \A b \in 1 .. bs : ~BandSelects(r, b)

FirstBS(r) ==
    CHOOSE bs \in 1 .. 255 : BandSelects(r, bs) /\ \A b \in 1 .. bs - 1 : ~BandSelects(r, b)

\* The fraction that the integer divider leaves, in parts of Ref, and FRAC, the nearest
\* number of parts of MOD.  A tie goes up here; in double arithmetic it may go either way.
Rest(vco, r) == (vco * r) % Ref
Frac(rest) == (rest * chan_mod + Ref \div 2) \div Ref

\* The returned frequency, as how far it is above the target: a number of parts of 1 kHz.
\* Mutant: the output divider is forgotten.
Parts_NoRFdiv(r, div) == r * chan_mod

Parts(r, div) == r * chan_mod * div
Above(rest, frac) == frac * Ref - rest * chan_mod

\* What set_freq loads into the registers, and what it returns.  An even R is halved and
\* the reference divided by 2 instead.  The prescaler that was chosen is assigned to
\* itself: the register keeps the 4/5 of the constructor.
set_freq(target) ==
    LET div == RFdiv(target)
        vco == target * div
        r == FirstR(vco)
        even == r % 2 = 0
        frac == Frac(Rest(vco, r))
    IN [frac |-> frac, int |-> (vco * r) \div Ref, mod |-> chan_mod,
        r |-> IF even THEN r \div 2 ELSE r, t |-> IF even THEN 1 ELSE 0, d |-> D,
        bs |-> FirstBS(r), rfreg |-> RFreg(div),
        above |-> Above(Rest(vco, r), frac), parts |-> Parts(r, div)]
===============================================================================
