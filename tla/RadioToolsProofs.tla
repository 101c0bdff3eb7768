---------------------------- MODULE RadioToolsProofs ----------------------------
(***************************************************************************)
(* Theorems about fsynth and lmh6521, for every frequency and every gain,  *)
(* any series of runs and any writes that fail.                            *)
(*                                                                         *)
(* The first part is the frequency plan; the second, that a chip reads in  *)
(* a field of a word the number get_reg put there; the third, the          *)
(* invariant RadioInv: as long as no write of a run has failed, those made *)
(* are in force (Running), and what a successful run left in a chip stays  *)
(* until the next run for that chip is started (Kept).                     *)
(***************************************************************************)
EXTENDS RadioTools, TLAPS, SequenceTheorems

-------------------------------------------------------------------------------
(* The frequency plan *)

Frequencies == MinOut .. MaxOut
Oscillator == MinVco .. MaxOut

LEMMA NoDoubler == D = 0
  BY SMT DEF D, RefIn

LEMMA RefValue == Ref = 125000
  BY NoDoubler, SMT DEF Ref, RefIn

\* The ends of the intervals, by inequalities: equalities would make the SMT translation
\* spell the intervals out.
LEMMA Values ==
    /\ MinOut \in Int /\ MinOut >= 34375 /\ MinOut <= 34375
    /\ MinVco \in Int /\ MinVco >= 2200000 /\ MinVco <= 2200000
    /\ MaxOut \in Int /\ MaxOut >= 4400000 /\ MaxOut <= 4400000
  BY SMT DEF MinOut, MaxOut, MinVco

\* The doubling ends inside the oscillator's octave after six rounds or fewer.
LEMMA RFdivReachesVco ==
    ASSUME NEW target \in Frequencies
    PROVE  /\ RFdiv(target) \in {1, 2, 4, 8, 16, 32, 64}
           /\ target * RFdiv(target) \in Oscillator
<1> DEFINE Reaches(d) == target * d >= MinVco /\ (d = 1 \/ target * d < 2 * MinVco)
<1>1. target \in Int /\ target >= 34375 /\ target <= 4400000
  BY Values, SMT DEF Frequencies
<1>2. \/ Reaches(1) \/ Reaches(2) \/ Reaches(4) \/ Reaches(8)
      \/ Reaches(16) \/ Reaches(32) \/ Reaches(64)
  BY <1>1, Values, SMT
<1>3. RFdiv(target) \in {1, 2, 4, 8, 16, 32, 64} /\ Reaches(RFdiv(target))
  BY <1>2, SMT DEF RFdiv
<1> QED
  BY <1>1, <1>3, Values, SMT DEF Oscillator

\* The reference divider is 4 whatever the oscillator's frequency, so that the phase
\* detector always runs at its design frequency.
LEMMA FirstRIsFour ==
    ASSUME NEW vco \in Oscillator
    PROVE  FirstR(vco) = 4
<1> DEFINE Good(r) == Fits(vco, r) /\ BandSelects(r, 255)
           Dividers == 1 .. 1023
<1>1. vco \in Int /\ vco >= 2200000 /\ vco <= 4400000
  BY Values, SMT DEF Oscillator
<1>2. Good(4)
  <2>1. (vco * 4) \div 125000 >= min_int_divider(vco)
    BY <1>1, SMT DEF min_int_divider
  <2> QED
    BY <2>1, RefValue, SMT DEF Fits, BandSelects, DesignPfd, MaxBandSelect
<1>3. \A r \in 1 .. 3 : ~Good(r)
  BY RefValue, SMT DEF Fits, DesignPfd
<1>0. 4 \in Dividers /\ \A r \in Dividers : r \in Int /\ r >= 1
  BY SMT
<1>6. FirstR(vco) = CHOOSE r \in Dividers : Good(r) /\ \A s \in 1 .. r - 1 : ~Good(s)
  BY Zenon DEF FirstR
<1> HIDE DEF Good, Dividers
<1>4. \A r \in Dividers : Good(r) /\ (\A s \in 1 .. r - 1 : ~Good(s)) => r = 4
  <2>1. TAKE r \in Dividers
  <2>2. CASE r < 4
    BY <2>2, <1>0, <1>3, SMT
  <2>3. CASE r > 4
    <3>1. 4 \in 1 .. r - 1
      BY <2>3, <1>0, SMT
    <3> QED
      BY <3>1, <1>2, SMT
  <2> QED
    BY <1>0, <2>2, <2>3, SMT
<1>5. \A s \in 1 .. 4 - 1 : ~Good(s)
  BY <1>3, SMT
<1> QED
  BY <1>0, <1>2, <1>4, <1>5, <1>6, Zenon

\* The band select divider that goes with it.
LEMMA FirstBSIs250 == FirstBS(4) = 250
<1> DEFINE Good(b) == BandSelects(4, b)
           Dividers == 1 .. 255
<1>1. \A b \in Int : Good(b) <=> b >= 250
  BY RefValue, SMT DEF BandSelects, MaxBandSelect
<1>2. 250 \in Dividers /\ \A b \in Dividers : b \in Int /\ b >= 1
  BY SMT
<1>3. FirstBS(4) = CHOOSE b \in Dividers : Good(b) /\ \A c \in 1 .. b - 1 : ~Good(c)
  BY Zenon DEF FirstBS
<1> HIDE DEF Good, Dividers
<1>4. \A n \in Int : \A c \in 1 .. n - 1 : c \in Int /\ c < n
  BY SMT
<1>5. Good(250) /\ \A c \in 1 .. 250 - 1 : ~Good(c)
  <2>1. Good(250)
    BY <1>1, SMT
  <2>2. ASSUME NEW c \in 1 .. 250 - 1
        PROVE  c \in Int /\ c < 250
    BY SMT
  <2> QED
    BY <2>1, <2>2, <1>1, SMT
<1>6. \A b \in Dividers : Good(b) /\ (\A c \in 1 .. b - 1 : ~Good(c)) => b = 250
  <2>1. TAKE b \in Dividers
  <2>2. CASE b < 250
    BY <2>2, <1>1, <1>2, SMT
  <2>3. CASE b > 250
    <3>1. 250 \in 1 .. b - 1
      BY <2>3, <1>2, SMT
    <3> QED
      BY <3>1, <1>5, SMT
  <2> QED
    BY <1>2, <2>2, <2>3, SMT
<1> QED
  BY <1>2, <1>3, <1>5, <1>6, Zenon

\* The fraction is rounded to the nearest, and to MOD itself at most.
LEMMA FracIsNearest ==
    ASSUME NEW rest \in Int, 0 <= rest, rest < 125000
    PROVE  /\ Frac(rest) \in Int /\ 0 <= Frac(rest) /\ Frac(rest) <= 125
           /\ 2 * (Frac(rest) * 125000 - rest * 125) <= 125000
           /\ -2 * (Frac(rest) * 125000 - rest * 125) <= 125000
<1>1. Frac(rest) = (rest * 125 + 62500) \div 125000
  BY RefValue, SMT DEF Frac, chan_mod
<1> QED
  BY <1>1, SMT

\* adf4351_regs.hpp:352-495: every frequency from 34.375 MHz to 4.4 GHz is synthesised
\* from a 31.25 MHz phase detector and a 125 kHz band select clock, with an integer divider
\* the 4/5 prescaler can make, at most half a channel step off at the oscillator; the
\* returned frequency says by how much.
THEOREM EveryFrequencyIsPlanned ==
    ASSUME NEW target \in Frequencies
    PROVE  LET p == set_freq(target)
               vco == target * RFdiv(target)
           IN /\ vco \in Oscillator
              /\ p.r = 2 /\ p.t = 1 /\ p.d = 0 /\ p.bs = 250 /\ p.mod = 125
              /\ p.rfreg = RFreg(RFdiv(target)) /\ p.parts = 500 * RFdiv(target)
              /\ p.int \in Int /\ p.frac \in Int /\ p.above \in Int
              /\ p.int >= 23 /\ p.int < 65536 /\ p.frac >= 0 /\ p.frac <= p.mod
              /\ 2 * p.above <= Ref /\ -2 * p.above <= Ref
              /\ p.above = p.frac * Ref - (vco * 4 - p.int * Ref) * p.mod
<1>1. PICK vco \in Oscillator : vco = target * RFdiv(target)
  BY RFdivReachesVco, SMT
<1>2. vco \in Int /\ vco >= 2200000 /\ vco <= 4400000
  BY Values, SMT DEF Oscillator
<1>3. FirstR(vco) = 4
  BY FirstRIsFour, Zenon
<1>4. PICK int \in Int, rest \in Int :
        /\ int = (vco * 4) \div 125000 /\ rest = (vco * 4) % 125000
        /\ rest = vco * 4 - int * 125000 /\ 0 <= rest /\ rest < 125000
        /\ int >= 23 /\ int < 65536
  BY <1>2, SMT
<1>5. Rest(vco, 4) = rest /\ (vco * 4) \div Ref = int
  BY <1>4, RefValue, SMT DEF Rest
<1> DEFINE frac == Frac(rest)
           above == Above(rest, frac)
<1>6. /\ frac \in Int /\ 0 <= frac /\ frac <= 125
      /\ 2 * (frac * 125000 - rest * 125) <= 125000
      /\ -2 * (frac * 125000 - rest * 125) <= 125000
  <2>1. 0 <= rest /\ rest < 125000
    BY <1>4, SMT
  <2> HIDE DEF frac
  <2>2. frac = Frac(rest)
    BY Zenon DEF frac
  <2>3. /\ Frac(rest) \in Int /\ 0 <= Frac(rest) /\ Frac(rest) <= 125
        /\ 2 * (Frac(rest) * 125000 - rest * 125) <= 125000
        /\ -2 * (Frac(rest) * 125000 - rest * 125) <= 125000
    BY <2>1, FracIsNearest, SMT
  <2> QED
    BY <2>2, <2>3, SMT
<1> HIDE DEF frac
<1>7. above = frac * 125000 - rest * 125
  BY RefValue, SMT DEF Above, chan_mod
<1> HIDE DEF above
<1>8. 4 % 2 = 0 /\ 4 \div 2 = 2
  BY SMT
<1>9. set_freq(target) =
        [frac |-> frac, int |-> int, mod |-> 125, r |-> 2, t |-> 1, d |-> 0, bs |-> 250,
         rfreg |-> RFreg(RFdiv(target)), above |-> above, parts |-> Parts(4, RFdiv(target))]
  BY <1>1, <1>3, <1>5, <1>8, FirstBSIs250, NoDoubler, ZenonT(60) DEF set_freq, chan_mod, frac, above
<1>10. frac * 125000 - (vco * 4 - int * 125000) * 125 = above
  BY <1>2, <1>4, <1>6, <1>7, SMT
<1>11. PICK div \in {1, 2, 4, 8, 16, 32, 64} : div = RFdiv(target)
  BY RFdivReachesVco, Zenon
<1>12. Parts(4, div) = 500 * div
  BY SMT DEF Parts, chan_mod
<1>13. PICK p :
         /\ p = set_freq(target) /\ p.frac = frac /\ p.int = int /\ p.mod = 125 /\ p.r = 2 /\ p.t = 1
         /\ p.d = 0 /\ p.bs = 250 /\ p.rfreg = RFreg(div) /\ p.above = above /\ p.parts = Parts(4, div)
  BY <1>9, <1>11, SMT
<1>14. frac \in Int /\ above \in Int /\ 2 * above <= Ref /\ -2 * above <= Ref
  BY <1>4, <1>6, <1>7, RefValue, SMT
<1>15. above = frac * Ref - (vco * 4 - int * Ref) * 125
  BY <1>10, RefValue, SMT
<1> QED
  BY <1>1, <1>4, <1>6, <1>11, <1>12, <1>13, <1>14, <1>15, SMT
-------------------------------------------------------------------------------
(* Fields of a word *)

LEMMA Powers ==
    /\ TwoTo(0) = 1 /\ TwoTo(1) = 2 /\ TwoTo(2) = 4 /\ TwoTo(3) = 8
    /\ TwoTo(4) = 16 /\ TwoTo(5) = 32 /\ TwoTo(6) = 64 /\ TwoTo(7) = 128
    /\ TwoTo(8) = 256 /\ TwoTo(9) = 512 /\ TwoTo(10) = 1024 /\ TwoTo(11) = 2048
    /\ TwoTo(12) = 4096 /\ TwoTo(13) = 8192 /\ TwoTo(14) = 16384 /\ TwoTo(15) = 32768
    /\ TwoTo(16) = 65536
  BY DEF TwoTo, Power

\* A number below TwoTo(w) has no bit at w or beyond.
LEMMA NoHigherBits ==
    ASSUME NEW w \in 1 .. 16, NEW b \in 0 .. 15, b >= w, NEW v \in Int, 0 <= v, v < TwoTo(w)
    PROVE  (v \div TwoTo(b)) % 2 # 1
<1>1. v < TwoTo(b)
  BY Powers, SMT
<1>2. \A n \in {1, 2, 4, 8, 16, 32, 64, 128, 256, 512, 1024, 2048, 4096, 8192, 16384, 32768} : v < n => (v \div n) % 2 # 1
  BY SMT
<1> QED
  BY <1>1, <1>2, Powers, SMT

\* The bits of a number, each at its weight, add up to it.
LEMMA BitsAddUp ==
    ASSUME NEW v \in Int, 0 <= v, v < 65536, NEW part,
           \A b \in 0 .. 15 : part[b] = IF (v \div TwoTo(b)) % 2 = 1 THEN TwoTo(b) ELSE 0
    PROVE  v = part[0] + part[1] + part[2] + part[3] + part[4] + part[5] + part[6] + part[7]
               + part[8] + part[9] + part[10] + part[11] + part[12] + part[13] + part[14] + part[15]
<1> DEFINE Weights == {1, 2, 4, 8, 16, 32, 64, 128, 256, 512, 1024, 2048, 4096, 8192, 16384, 32768}
           Rounded(n) == n * (v \div n)
           Above2(b) == Rounded(TwoTo(b))
<1>1. \A n \in Weights :
        (IF (v \div n) % 2 = 1 THEN n ELSE 0) = Rounded(n) - Rounded(2 * n)
  BY SMTT(60)
<1>2. \A n \in Weights : Rounded(n) \in Int
  BY SMT
<1>3. Rounded(1) = v /\ Rounded(65536) = 0
  BY SMT
<1>4. \A b \in 0 .. 15 : TwoTo(b + 1) = 2 * TwoTo(b) /\ TwoTo(b) \in Weights
  BY Powers, SMT
<1> HIDE DEF Rounded, Weights
<1>5. \A b \in 0 .. 15 : part[b] = Above2(b) - Above2(b + 1) /\ Above2(b) \in Int
  <2> TAKE b \in 0 .. 15
  <2>1. PICK n \in Weights : n = TwoTo(b) /\ TwoTo(b + 1) = 2 * n
    BY <1>4
  <2>2. part[b] = IF (v \div n) % 2 = 1 THEN n ELSE 0
    BY <2>1
  <2>3. Above2(b) = Rounded(n) /\ Above2(b + 1) = Rounded(2 * n)
    BY <2>1
  <2> QED
    BY <1>1, <1>2, <2>2, <2>3
<1>6. Above2(0) = v /\ Above2(16) = 0
  BY <1>3, Powers
<1> HIDE DEF Above2
<1> QED
  BY <1>5, <1>6, SMT

\* A field that holds the bits of a number has its value.
LEMMA ValueOfBits ==
    ASSUME NEW word, NEW shift \in Nat, NEW w \in 1 .. 16, NEW v \in Int, 0 <= v, v < TwoTo(w),
           \A b \in 0 .. w - 1 : b + shift \in word <=> b \in BitsOf(v, w)
    PROVE  ValueOf(word, shift, w) = v
<1> DEFINE Part(b) == IF b < w /\ b + shift \in word THEN TwoTo(b) ELSE 0
           part == [b \in 0 .. 15 |-> Part(b)]
<1>1. ASSUME NEW b \in 0 .. 15
      PROVE  Part(b) = IF (v \div TwoTo(b)) % 2 = 1 THEN TwoTo(b) ELSE 0
  <2>1. CASE b < w
    <3>1. b \in 0 .. w - 1
      BY <2>1
    <3>2. b + shift \in word <=> (v \div TwoTo(b)) % 2 = 1
      BY <3>1 DEF BitsOf
    <3> QED
      BY <2>1, <3>2
  <2>2. CASE b >= w
    BY <2>2, NoHigherBits
  <2> QED
    BY <2>1, <2>2
<1>2. v < 65536
  BY Powers, SMT
<1>3. ValueOf(word, shift, w) =
        Part(0) + Part(1) + Part(2) + Part(3) + Part(4) + Part(5) + Part(6) + Part(7)
        + Part(8) + Part(9) + Part(10) + Part(11) + Part(12) + Part(13) + Part(14) + Part(15)
  BY DEF ValueOf
<1> HIDE DEF Part
<1>4. \A b \in 0 .. 15 : part[b] = IF (v \div TwoTo(b)) % 2 = 1 THEN TwoTo(b) ELSE 0
  BY <1>1
<1>5. \A b \in 0 .. 15 : part[b] = Part(b)
  OBVIOUS
<1> HIDE DEF part
<1>6. v = part[0] + part[1] + part[2] + part[3] + part[4] + part[5] + part[6] + part[7]
          + part[8] + part[9] + part[10] + part[11] + part[12] + part[13] + part[14] + part[15]
  BY <1>2, <1>4, BitsAddUp
<1> QED
  BY <1>3, <1>5, <1>6
-------------------------------------------------------------------------------
(* The registers of the ADF4351 *)

\* The fields of a register lie above its number, in the word, and apart.
LaidOut(fields) ==
    \A f \in fields :
        /\ f[2] \in Int /\ f[3] \in 1 .. 16 /\ 3 <= f[2] /\ f[2] + f[3] <= 32
        /\ \A g \in fields : g = f \/ f[2] + f[3] <= g[2] \/ g[2] + g[3] <= f[2]

LEMMA RegistersLaidOut == \A i \in Registers : LaidOut(RegisterFields[i + 1])
<1>1. LaidOut(RegisterFields[1])
  BY SMT DEF LaidOut, RegisterFields
<1>2. LaidOut(RegisterFields[2])
  BY SMT DEF LaidOut, RegisterFields
<1>3. LaidOut(RegisterFields[3])
  BY SMTT(60) DEF LaidOut, RegisterFields
<1>4. LaidOut(RegisterFields[4])
  BY SMT DEF LaidOut, RegisterFields
<1>5. LaidOut(RegisterFields[5])
  BY SMTT(60) DEF LaidOut, RegisterFields
<1>6. LaidOut(RegisterFields[6])
  BY SMT DEF LaidOut, RegisterFields
<1> QED
  BY <1>1, <1>2, <1>3, <1>4, <1>5, <1>6, SMT DEF Registers

LEMMA InRegister ==
    ASSUME NEW o, NEW i \in Registers, NEW x
    PROVE  x \in get_reg(o, i) <=>
             \/ x \in BitsOf(i, 3)
             \/ \E g \in RegisterFields[i + 1] : \E b \in BitsOf(o[g[1]], g[3]) : x = g[2] + b
  BY DEF get_reg

LEMMA BitsBelow == \A v, w : \A b \in BitsOf(v, w) : b \in 0 .. w - 1
  BY DEF BitsOf

LEMMA RegisterIsWord ==
    ASSUME NEW o, NEW i \in Registers
    PROVE  get_reg(o, i) \in SUBSET Bits
<1> SUFFICES ASSUME NEW x \in get_reg(o, i) PROVE x \in Bits
  OBVIOUS
<1>1. CASE x \in BitsOf(i, 3)
  BY <1>1, BitsBelow DEF Bits
<1>2. ASSUME NEW g \in RegisterFields[i + 1], NEW b \in BitsOf(o[g[1]], g[3]), x = g[2] + b
      PROVE  x \in Bits
  <2>1. b \in 0 .. g[3] - 1 /\ g[2] \in Int /\ 3 <= g[2] /\ g[3] \in 1 .. 16 /\ g[2] + g[3] <= 32
    BY <1>2, BitsBelow, RegistersLaidOut DEF LaidOut
  <2> QED
    BY <1>2, <2>1 DEF Bits
<1> QED
  BY <1>1, <1>2, InRegister

\* The chip takes a word for the register it was made for.
LEMMA WordHasNumber ==
    ASSUME NEW o, NEW i \in Registers
    PROVE  ValueOf(get_reg(o, i), 0, 3) = i
<1>1. \A b \in 0 .. 3 - 1 : b + 0 \in get_reg(o, i) <=> b \in BitsOf(i, 3)
  <2> TAKE b \in 0 .. 3 - 1
  <2>1. ASSUME NEW g \in RegisterFields[i + 1], NEW c \in BitsOf(o[g[1]], g[3]), b = g[2] + c
        PROVE  FALSE
    <3>1. c \in 0 .. g[3] - 1 /\ g[2] \in Int /\ 3 <= g[2] /\ g[3] \in 1 .. 16
      BY <2>1, BitsBelow, RegistersLaidOut DEF LaidOut
    <3> QED
      BY <2>1, <3>1
  <2> QED
    BY <2>1, InRegister
<1>2. i \in Int /\ 0 <= i /\ i < TwoTo(3)
  BY Powers DEF Registers
<1> QED
  BY <1>1, <1>2, ValueOfBits

\* It reads in a field what get_reg put there.
LEMMA ReadsField ==
    ASSUME NEW o, NEW i \in Registers, NEW f \in RegisterFields[i + 1],
           NEW v \in Int, 0 <= v, v < TwoTo(f[3]), BitsOf(o[f[1]], f[3]) = BitsOf(v, f[3])
    PROVE  ValueOf(get_reg(o, i), f[2], f[3]) = v
<1>1. f[2] \in Int /\ 3 <= f[2] /\ f[3] \in 1 .. 16
  BY RegistersLaidOut DEF LaidOut
<1>2. ASSUME NEW b \in 0 .. f[3] - 1
      PROVE  b + f[2] \in get_reg(o, i) <=> b \in BitsOf(v, f[3])
  <2>1. b + f[2] \notin BitsOf(i, 3)
    BY <1>1, BitsBelow
  <2>2. ASSUME NEW g \in RegisterFields[i + 1], NEW c \in BitsOf(o[g[1]], g[3]),
               b + f[2] = g[2] + c
        PROVE  b \in BitsOf(v, f[3])
    <3>1. c \in 0 .. g[3] - 1 /\ g[2] \in Int /\ g[3] \in 1 .. 16
      BY BitsBelow, RegistersLaidOut DEF LaidOut
    <3>2. g = f \/ f[2] + f[3] <= g[2] \/ g[2] + g[3] <= f[2]
      BY RegistersLaidOut DEF LaidOut
    <3>3. g = f
      BY <1>1, <2>2, <3>1, <3>2
    <3>4. c = b
      BY <1>1, <2>2, <3>1, <3>3
    <3> QED
      BY <3>3, <3>4
  <2>3. b \in BitsOf(v, f[3]) => b + f[2] \in get_reg(o, i)
    <3>1. b + f[2] = f[2] + b
      BY <1>1
    <3> QED
      BY <3>1, InRegister
  <2> QED
    BY <2>1, <2>2, <2>3, InRegister
<1>3. PICK shift \in Nat, w \in 1 .. 16 : shift = f[2] /\ w = f[3]
  BY <1>1
<1>0. PICK word : word = get_reg(o, i)
  OBVIOUS
<1>4. /\ v < TwoTo(w)
      /\ \A b \in 0 .. w - 1 : b + shift \in word <=> b \in BitsOf(v, w)
  BY <1>0, <1>2, <1>3
<1>5. ValueOf(word, shift, w) = v
  BY <1>4, ValueOfBits
<1> QED
  BY <1>0, <1>3, <1>5
-------------------------------------------------------------------------------
(* What a run of fsynth loads, as the chip reads it *)

LEMMA PlanFields ==
    ASSUME NEW target
    PROVE  DOMAIN set_freq(target)
             = {"frac", "int", "mod", "r", "t", "d", "bs", "rfreg", "above", "parts"}
  BY DEF set_freq

LEMMA Defaults ==
    /\ {"frac", "int", "mod", "r", "t", "d", "bs", "rfreg", "presc", "power_down", "noise"}
         \subseteq DOMAIN fsynth_t
    /\ fsynth_t.power_down = 0 /\ fsynth_t.presc = 0
  BY DEF fsynth_t

\* A power-down: the defaults, but for two fields.
LEMMA PowerDownObject ==
    ASSUME NEW freq, NEW noise, PowersDown(freq)
    PROVE  Object(freq, noise)["power_down"] = 1 /\ Object(freq, noise)["noise"] = noise
<1> DEFINE o == [fsynth_t EXCEPT !.noise = noise]
<1>1. Object(freq, noise) = [o EXCEPT !.power_down = 1]
  BY DEF Object, Enum
<1>2. o["noise"] = noise /\ "noise" \in DOMAIN o /\ "power_down" \in DOMAIN o
  BY Defaults
<1> HIDE DEF o
<1> QED
  BY <1>1, <1>2

\* A frequency: the plan's fields and the defaults of the others.
LEMMA TunedObject ==
    ASSUME NEW freq \in Freqs, NEW noise, ~PowersDown(freq), freq \in MinOut .. MaxOut
    PROVE  LET o == Object(freq, noise)  p == set_freq(freq) IN
           /\ o["power_down"] = 0 /\ o["noise"] = noise /\ o["presc"] = 0
           /\ o["frac"] = p.frac /\ o["int"] = p.int /\ o["mod"] = p.mod /\ o["r"] = p.r
           /\ o["t"] = p.t /\ o["d"] = p.d /\ o["rfreg"] = p.rfreg /\ o["bs"] = Int8(p.bs)
<1> DEFINE o == [fsynth_t EXCEPT !.noise = noise]
<1>1. Plan[freq] = set_freq(freq)
  BY DEF Plan
<1>2. PICK p : p = set_freq(freq)
  OBVIOUS
<1>3. Object(freq, noise) =
        [f \in DOMAIN o |-> CASE f = "bs" -> Int8(p.bs)
                              [] f \in DOMAIN p \ {"bs"} -> p[f]
                              [] OTHER -> o[f]]
  BY <1>1, <1>2, Zenon DEF Object
<1>4. /\ {"frac", "int", "mod", "r", "t", "d", "bs", "rfreg", "presc", "power_down", "noise"}
           \subseteq DOMAIN o
      /\ o["power_down"] = 0 /\ o["presc"] = 0 /\ o["noise"] = noise
  BY Defaults
<1>5. DOMAIN p = {"frac", "int", "mod", "r", "t", "d", "bs", "rfreg", "above", "parts"}
  BY <1>2, PlanFields
<1> HIDE DEF o
<1> QED
  BY <1>2, <1>3, <1>4, <1>5

\* The words in effect are those of the register object o.
Loaded(c, o) == \A i \in Registers : active[c][i] = get_reg(o, i)

LEMMA ChipReadsModes ==
    ASSUME NEW c, NEW o, Loaded(c, o), o["power_down"] \in {0, 1}, o["noise"] \in {0, 3}
    PROVE  Chip(c).off = o["power_down"] /\ Chip(c).noise = o["noise"]
<1>1. /\ 2 \in Registers /\ <<"power_down", 5, 1>> \in RegisterFields[2 + 1]
      /\ <<"noise", 29, 2>> \in RegisterFields[2 + 1]
  BY DEF Registers, RegisterFields
<1>2. ValueOf(get_reg(o, 2), 5, 1) = o["power_down"]
  BY <1>1, ReadsField, Powers
<1>3. ValueOf(get_reg(o, 2), 29, 2) = o["noise"]
  BY <1>1, ReadsField, Powers
<1>4. active[c][2] = get_reg(o, 2)
  BY <1>1 DEF Loaded
<1> QED
  BY <1>2, <1>3, <1>4 DEF Chip

\* A band select divider of 250 does not fit an int8_t; its bits are those of 250.
LEMMA BandSelectBits == BitsOf(Int8(250), 8) = BitsOf(250, 8)
<1>1. Int8(250) = -6
  BY DEF Int8
<1>2. \A b \in 0 .. 7 : ((-6) \div TwoTo(b)) % 2 = (250 \div TwoTo(b)) % 2
  BY Powers, SMT
<1> QED
  BY <1>1, <1>2 DEF BitsOf

LEMMA RFregIsLog ==
    ASSUME NEW div \in {1, 2, 4, 8, 16, 32, 64}
    PROVE  RFreg(div) \in 0 .. 6 /\ TwoTo(RFreg(div)) = div
  BY Powers DEF RFreg

\* What the chip makes of a frequency's object.
LEMMA ChipReadsPlan ==
    ASSUME NEW c, NEW freq \in Freqs, NEW noise \in {0, 3}, ~PowersDown(freq),
           freq \in MinOut .. MaxOut, Loaded(c, Object(freq, noise))
    PROVE  LET p == set_freq(freq) IN
           Chip(c) = [frac |-> p.frac, int |-> p.int, mod |-> 125, presc |-> 0, off |-> 0,
                      noise |-> noise, div |-> 4, ref |-> 125000, bs |-> 250,
                      rfdiv |-> RFdiv(freq)]
<1>1. PICK o, p : o = Object(freq, noise) /\ p = set_freq(freq)
  OBVIOUS
<1>2. /\ o["power_down"] = 0 /\ o["noise"] = noise /\ o["presc"] = 0
      /\ o["frac"] = p.frac /\ o["int"] = p.int /\ o["mod"] = p.mod /\ o["r"] = p.r
      /\ o["t"] = p.t /\ o["d"] = p.d /\ o["rfreg"] = p.rfreg /\ o["bs"] = Int8(p.bs)
  BY <1>1, TunedObject
<1>3. freq \in Frequencies
  BY DEF Frequencies
<1>4. /\ p.r = 2 /\ p.t = 1 /\ p.d = 0 /\ p.bs = 250 /\ p.mod = 125
      /\ p.int \in Int /\ p.int >= 23 /\ p.int < 65536
      /\ p.frac \in Int /\ p.frac >= 0 /\ p.frac <= 125
      /\ p.rfreg = RFreg(RFdiv(freq))
  BY <1>1, <1>3, EveryFrequencyIsPlanned
<1>5. \A i \in {0, 1, 2, 4} : active[c][i] = get_reg(o, i)
  BY <1>1 DEF Loaded, Registers
<1>6. /\ 0 \in Registers /\ 1 \in Registers /\ 2 \in Registers /\ 4 \in Registers
      /\ <<"frac", 3, 12>> \in RegisterFields[0 + 1] /\ <<"int", 15, 16>> \in RegisterFields[0 + 1]
      /\ <<"mod", 3, 12>> \in RegisterFields[1 + 1] /\ <<"presc", 27, 1>> \in RegisterFields[1 + 1]
      /\ <<"r", 14, 10>> \in RegisterFields[2 + 1] /\ <<"t", 24, 1>> \in RegisterFields[2 + 1]
      /\ <<"d", 25, 1>> \in RegisterFields[2 + 1]
      /\ <<"bs", 12, 8>> \in RegisterFields[4 + 1] /\ <<"rfreg", 20, 3>> \in RegisterFields[4 + 1]
  BY DEF Registers, RegisterFields
<1>7. ValueOf(active[c][0], 3, 12) = p.frac
  BY <1>2, <1>4, <1>5, <1>6, ReadsField, Powers
<1>8. ValueOf(active[c][0], 15, 16) = p.int
  BY <1>2, <1>4, <1>5, <1>6, ReadsField, Powers
<1>9. ValueOf(active[c][1], 3, 12) = 125 /\ ValueOf(active[c][1], 27, 1) = 0
  BY <1>2, <1>4, <1>5, <1>6, ReadsField, Powers
<1>10. /\ ValueOf(active[c][2], 14, 10) = 2 /\ ValueOf(active[c][2], 24, 1) = 1
       /\ ValueOf(active[c][2], 25, 1) = 0
  BY <1>2, <1>4, <1>5, <1>6, ReadsField, Powers
<1>11. ValueOf(active[c][4], 12, 8) = 250
  BY <1>2, <1>4, <1>5, <1>6, ReadsField, Powers, BandSelectBits
<1>12. ValueOf(active[c][4], 20, 3) = RFreg(RFdiv(freq)) /\ TwoTo(RFreg(RFdiv(freq))) = RFdiv(freq)
  <2>1. PICK div \in {1, 2, 4, 8, 16, 32, 64} : div = RFdiv(freq)
    BY <1>3, RFdivReachesVco
  <2>2. RFreg(div) \in 0 .. 6 /\ TwoTo(RFreg(div)) = div
    BY RFregIsLog
  <2>3. o["rfreg"] = RFreg(div)
    BY <1>2, <1>4, <2>1
  <2>4. ValueOf(get_reg(o, 4), 20, 3) = RFreg(div)
    BY <1>6, <2>2, <2>3, ReadsField, Powers
  <2> QED
    BY <1>5, <2>1, <2>2, <2>4
<1>13. Chip(c).off = 0 /\ Chip(c).noise = noise
  BY <1>1, <1>2, ChipReadsModes
<1>14. /\ ValueOf(active[c][2], 5, 1) = 0 /\ ValueOf(active[c][2], 29, 2) = noise
  BY <1>13 DEF Chip
<1>15. RefIn = 125000
  BY DEF RefIn
<1> QED
  BY <1>1, <1>7, <1>8, <1>9, <1>10, <1>11, <1>12, <1>14, <1>15 DEF Chip
-------------------------------------------------------------------------------
(* What a program writes *)

\* The runs that are not refused, and their writes.
Accepted == {j \in FsynthRuns : FsynthAccepts(j)} \cup {j \in LmhRuns : LmhAccepts(j)}
Writes(j) == IF j.tool = "fsynth" THEN FsynthWrites(j) ELSE LmhWrites(j)

Settings == [phase : -1 .. PhaseSteps - 1, rev : BOOLEAN]
WriteSet ==
    [to : {"synth"}, chan : Channels, word : SUBSET Bits]
    \cup [to : {"ddc"}, chan : Channels, set : Settings]
    \cup [to : {"vga"}, word : SUBSET Bits]

LEMMA AcceptedRun ==
    ASSUME NEW j \in Accepted
    PROVE  \/ /\ j.tool = "fsynth" /\ j \in FsynthRuns /\ j.chan \in Channels
              /\ j.freq \in Freqs /\ j.freq \in Nat /\ OptionsFit(j.opt)
              /\ ~PowersDown(j.freq) => j.freq \in MinOut .. MaxOut
           \/ /\ j.tool = "lmh6521" /\ j \in LmhRuns /\ j.chan \in VgaChannels
              /\ j.gain \in 0 .. 126
<1>1. CASE j \in FsynthRuns /\ FsynthAccepts(j)
  <2>1. j.tool = "fsynth" /\ j.chan \in Channels /\ j.freq \in Freqs
    BY <1>1 DEF FsynthRuns
  <2>2. j.freq \in Nat
    BY <2>1, RadioToolsAssumption
  <2>3. OptionsFit(j.opt) /\ (j.freq = 0 \/ j.freq \in MinOut .. MaxOut)
    BY <1>1 DEF FsynthAccepts
  <2>4. PowersDown(0)
    BY RadioToolsAssumption DEF PowersDown
  <2> QED
    BY <1>1, <2>1, <2>2, <2>3, <2>4
<1>2. CASE j \in LmhRuns /\ LmhAccepts(j)
  BY <1>2 DEF LmhRuns, LmhAccepts
<1> QED
  BY <1>1, <1>2 DEF Accepted

\* The phase the down-converter is given is less than a turn.
LEMMA TurnIsPhase ==
    ASSUME NEW above \in Int, 2 * above <= 125000, -2 * above <= 125000,
           NEW div \in {1, 2, 4, 8, 16, 32, 64}
    PROVE  Turn(above, 500 * div) \in 0 .. PhaseSteps - 1
<1>1. PhaseSteps \in Nat /\ PhaseSteps >= 1
  BY RadioToolsAssumption
<1>2. PICK a \in Int : a = Abs(above) /\ 0 <= a /\ a <= 62500
  BY SMT DEF Abs
<1>3. PICK m \in Int : m = a * PhaseSteps /\ 0 <= m /\ m <= 62500 * PhaseSteps
  <2>1. (62500 - a) * PhaseSteps >= 0 /\ a * PhaseSteps >= 0 /\ a * PhaseSteps \in Int
    BY <1>1, <1>2, SMT
  <2>2. (62500 - a) * PhaseSteps = 62500 * PhaseSteps - a * PhaseSteps
    BY <1>1, <1>2, SMT
  <2> QED
    BY <1>1, <2>1, <2>2, SMT
<1>4. PICK q \in Int : q = m \div 125000 /\ 0 <= q /\ 2 * q <= PhaseSteps
  BY <1>1, <1>3, SMT
<1>5. q \div (500 * div) \in Int /\ 0 <= q \div (500 * div) /\ q \div (500 * div) <= q
  BY <1>4, SMT
<1>6. Turn(above, 500 * div) = q \div (500 * div)
  BY <1>2, <1>3, <1>4 DEF Turn, RefIn
<1> QED
  BY <1>1, <1>4, <1>5, <1>6, SMT

LEMMA DdcIsSetting ==
    ASSUME NEW j \in Accepted, j.tool = "fsynth"
    PROVE  DdcSetting(j.freq) \in Settings
<1>1. PhaseSteps \in Nat /\ PhaseSteps >= 1
  BY RadioToolsAssumption
<1>2. CASE PowersDown(j.freq)
  BY <1>1, <1>2 DEF DdcSetting, Settings
<1>3. CASE ~PowersDown(j.freq)
  <2>1. j.freq \in Freqs /\ j.freq \in MinOut .. MaxOut
    BY <1>3, AcceptedRun
  <2>2. PICK p : p = set_freq(j.freq)
    OBVIOUS
  <2>3. PICK div \in {1, 2, 4, 8, 16, 32, 64} : div = RFdiv(j.freq)
    BY <2>1, RFdivReachesVco DEF Frequencies
  <2>4. p.parts = 500 * div /\ p.above \in Int /\ 2 * p.above <= 125000 /\ -2 * p.above <= 125000
    BY <2>1, <2>2, <2>3, EveryFrequencyIsPlanned, RefValue DEF Frequencies
  <2>5. Plan[j.freq] = p
    BY <2>1, <2>2 DEF Plan
  <2>6. PowersDown(0)
    BY RadioToolsAssumption DEF PowersDown
  <2>7. DdcSetting(j.freq) = [phase |-> Turn(p.above, p.parts), rev |-> p.above > 0]
    BY <1>3, <2>5, <2>6 DEF DdcSetting
  <2>8. Turn(p.above, 500 * div) \in 0 .. PhaseSteps - 1
    BY <2>4, TurnIsPhase
  <2> QED
    BY <1>1, <2>4, <2>7, <2>8 DEF Settings
<1> QED
  BY <1>2, <1>3

\* The word of register i, and that of the amplifier.
Word(j, i) == get_reg(Object(j.freq, NoiseMode(j.opt)), i)
GainWord(j) ==
    {b + 1 : b \in BitsOf(set_gain(j.gain), 6)} \cup {7} \cup (IF j.chan = "1" THEN {8} ELSE {})

LEMMA FsynthWritesAre ==
    ASSUME NEW j \in Accepted, j.tool = "fsynth"
    PROVE  /\ Writes(j) \in Seq(WriteSet) /\ Len(Writes(j)) = 7
           /\ \A k \in 1 .. 6 : /\ 6 - k \in Registers /\ Word(j, 6 - k) \in SUBSET Bits
                                /\ Writes(j)[k] = [to |-> "synth", chan |-> j.chan, word |-> Word(j, 6 - k)]
           /\ Writes(j)[7] = [to |-> "ddc", chan |-> j.chan, set |-> DdcSetting(j.freq)]
<1> DEFINE W(k) == IF k <= 6 THEN [to |-> "synth", chan |-> j.chan, word |-> Word(j, 6 - k)]
                   ELSE [to |-> "ddc", chan |-> j.chan, set |-> DdcSetting(j.freq)]
<1>1. j.chan \in Channels
  BY AcceptedRun DEF Channels, VgaChannels
<1>2. \A k \in 1 .. 6 : RegisterOrder[k] = 6 - k /\ 6 - k \in Registers
  BY DEF RegisterOrder, Registers
<1>3. \A k \in 1 .. 6 : Word(j, 6 - k) \in SUBSET Bits
  BY <1>2, RegisterIsWord DEF Word
<1>4. \A k \in 1 .. 7 : k <= 6 => Word(j, RegisterOrder[k]) = Word(j, 6 - k)
  BY <1>2
<1>5. Writes(j) = [k \in 1 .. 7 |->
        IF k <= 6 THEN [to |-> "synth", chan |-> j.chan, word |-> Word(j, RegisterOrder[k])]
        ELSE [to |-> "ddc", chan |-> j.chan, set |-> DdcSetting(j.freq)]]
  BY Zenon DEF Writes, FsynthWrites, Word
<1>6. Writes(j) = [k \in 1 .. 7 |-> W(k)]
  BY <1>4, <1>5
<1>7. \A k \in 1 .. 7 : W(k) \in WriteSet
  BY <1>1, <1>3, DdcIsSetting DEF WriteSet
<1>8. W(7) = [to |-> "ddc", chan |-> j.chan, set |-> DdcSetting(j.freq)]
      /\ \A k \in 1 .. 6 : W(k) = [to |-> "synth", chan |-> j.chan, word |-> Word(j, 6 - k)]
  OBVIOUS
<1> HIDE DEF W
<1>9. Writes(j) \in Seq(WriteSet)
  BY <1>6, <1>7
<1>10. Len(Writes(j)) = 7
  BY <1>6
<1>11. \A k \in 1 .. 7 : Writes(j)[k] = W(k)
  BY <1>6
<1> QED
  BY <1>2, <1>3, <1>8, <1>9, <1>10, <1>11

LEMMA LmhWritesAre ==
    ASSUME NEW j \in Accepted, j.tool = "lmh6521"
    PROVE  /\ Writes(j) \in Seq(WriteSet) /\ Len(Writes(j)) = 1
           /\ Writes(j)[1] = [to |-> "vga", word |-> GainWord(j)]
           /\ GainWord(j) \in SUBSET Bits /\ (8 \in GainWord(j) <=> j.chan = "1")
<1>1. Writes(j) = <<[to |-> "vga", word |-> GainWord(j)]>>
  BY DEF Writes, LmhWrites, GainWord
<1>2. \A b \in BitsOf(set_gain(j.gain), 6) : b \in 0 .. 5
  BY BitsBelow
<1>3. GainWord(j) \in SUBSET Bits /\ (8 \in GainWord(j) <=> j.chan = "1")
  BY <1>2 DEF GainWord, Bits
<1>4. [to |-> "vga", word |-> GainWord(j)] \in WriteSet
  BY <1>3 DEF WriteSet
<1> QED
  BY <1>1, <1>3, <1>4

-------------------------------------------------------------------------------
(* The invariant: what the writes that were made have left in the chips *)

\* The first n writes of run j, none of which failed, are in force: registers 1 and 4 wait
\* for register 0, the last of the six.
Holds(j, n) ==
    /\ j.tool = "fsynth" =>
         /\ \A i \in Registers : i >= 6 - n =>
              /\ synth[j.chan][i] = Word(j, i)
              /\ i \notin {1, 4} \/ n >= 6 => active[j.chan][i] = Word(j, i)
         /\ n >= 7 => ddc[j.chan] = DdcSetting(j.freq)
    /\ j.tool = "lmh6521" => (n >= 1 => vga[j.chan] = GainWord(j))

Total(j) == Len(Writes(j))
Made == Total(job) - Len(todo)

Typed ==
    /\ job \in Accepted \cup {NoJob}
    /\ todo \in Seq(WriteSet)
    /\ rc \in BOOLEAN /\ runs \in 0 .. MaxRuns /\ fails \in 0 .. MaxFails
    /\ synth \in [Channels -> [Registers -> SUBSET Bits]]
    /\ active \in [Channels -> [Registers -> SUBSET Bits]]
    /\ ddc \in [Channels -> Settings]
    /\ vga \in [VgaChannels -> SUBSET Bits]
    /\ asked \in [Channels \cup VgaChannels -> {<<>>} \cup {<<j>> : j \in Accepted}]

\* The running program has made the first writes, the others are still to make.
Running ==
    /\ job = NoJob => todo = <<>>
    /\ job # NoJob =>
         /\ Len(todo) <= Total(job)
         /\ \A i \in 1 .. Len(todo) : todo[i] = Writes(job)[Made + i]
         /\ asked[job.chan] = <<>>
         /\ ~rc => Holds(job, Made)

\* What the last successful program left for a chip is still there.
Kept ==
    \A c \in Channels \cup VgaChannels : \A j \in Accepted :
        asked[c] = <<j>> => j.chan = c /\ Holds(j, Total(j))

RadioInv == Typed /\ Running /\ Kept

LEMMA TotalIsNat ==
    ASSUME NEW j \in Accepted
    PROVE  /\ Total(j) \in Nat /\ Writes(j) \in Seq(WriteSet) /\ j # NoJob
           /\ Total(j) = (IF j.tool = "fsynth" THEN 7 ELSE 1)
           /\ j.chan \in Channels \cup VgaChannels
<1>1. j # NoJob /\ j.chan \in Channels \cup VgaChannels
  BY AcceptedRun DEF NoJob
<1>2. CASE j.tool = "fsynth"
  <2>1. Writes(j) \in Seq(WriteSet) /\ Len(Writes(j)) = 7
    BY <1>2, FsynthWritesAre
  <2> QED
    BY <1>1, <1>2, <2>1 DEF Total
<1>3. CASE j.tool = "lmh6521"
  <2>1. Writes(j) \in Seq(WriteSet) /\ Len(Writes(j)) = 1
    BY <1>3, LmhWritesAre
  <2> QED
    BY <1>1, <1>3, <2>1 DEF Total
<1> QED
  BY <1>2, <1>3, AcceptedRun

LEMMA InitRadioInv == Init => RadioInv
<1> SUFFICES ASSUME Init PROVE RadioInv
  OBVIOUS
<1>1. PhaseSteps \in Nat /\ PhaseSteps >= 1 /\ MaxRuns \in Nat /\ MaxFails \in Nat
  BY RadioToolsAssumption
<1>2. [phase |-> 0, rev |-> FALSE] \in Settings
  BY <1>1 DEF Settings
<1>3. Typed
  <2>1. todo = <<>> /\ rc \in BOOLEAN /\ job \in Accepted \cup {NoJob}
    BY DEF Init
  <2>6. todo \in Seq(WriteSet)
    BY <2>1
  <2>2. runs \in 0 .. MaxRuns /\ fails \in 0 .. MaxFails
    BY <1>1 DEF Init
  <2>3. synth \in [Channels -> [Registers -> SUBSET Bits]] /\ active = synth
    BY DEF Init
  <2>4. ddc \in [Channels -> Settings] /\ vga \in [VgaChannels -> SUBSET Bits]
    BY <1>2 DEF Init
  <2>5. asked \in [Channels \cup VgaChannels -> {<<>>} \cup {<<j>> : j \in Accepted}]
    BY DEF Init
  <2> QED
    BY <2>1, <2>2, <2>3, <2>4, <2>5, <2>6 DEF Typed
<1>4. Running
  BY DEF Init, Running
<1>5. Kept
  BY DEF Init, Kept
<1> QED
  BY <1>3, <1>4, <1>5 DEF RadioInv

\* A step that leaves the chips of channel c alone.
Unmoved(c) ==
    /\ c \in Channels => synth'[c] = synth[c] /\ active'[c] = active[c] /\ ddc'[c] = ddc[c]
    /\ c \in VgaChannels => vga'[c] = vga[c]

LEMMA HoldsStays ==
    ASSUME NEW j \in Accepted, NEW n, Unmoved(j.chan), Holds(j, n)
    PROVE  Holds(j, n)'
  BY AcceptedRun DEF Holds, Unmoved

\* What is kept stays kept while its chips are left alone.
LEMMA KeptStays ==
    ASSUME Typed, Kept, asked' = asked,
           \A c \in Channels \cup VgaChannels : asked[c] # <<>> => Unmoved(c)
    PROVE  Kept'
<1> SUFFICES ASSUME NEW c \in Channels \cup VgaChannels, NEW j \in Accepted, asked'[c] = <<j>>
             PROVE  j.chan = c /\ Holds(j, Total(j))'
  BY DEF Kept
<1>1. asked[c] = <<j>> /\ asked[c] # <<>>
  OBVIOUS
<1>2. PICK n : n = Total(j)
  OBVIOUS
<1>3. j.chan = c /\ Holds(j, n) /\ Unmoved(c)
  BY <1>1, <1>2 DEF Kept
<1>4. Holds(j, n)'
  BY <1>3, HoldsStays
<1> QED
  BY <1>2, <1>3, <1>4

\* The write a program makes next.
LEMMA NextWrite ==
    ASSUME Typed, Running, todo # <<>>
    PROVE  /\ job \in Accepted /\ job # NoJob /\ Made \in 0 .. Total(job) - 1
           /\ Head(todo) \in WriteSet /\ Head(todo) = Writes(job)[Made + 1]
<1>1. job \in Accepted /\ job # NoJob /\ todo \in Seq(WriteSet)
  BY DEF Typed, Running
<1>2. Total(job) \in Nat
  BY <1>1, TotalIsNat
<1>3. Len(todo) \in Nat /\ Len(todo) >= 1 /\ Head(todo) = todo[1] /\ todo[1] \in WriteSet
  BY <1>1
<1>4. Len(todo) <= Total(job) /\ todo[1] = Writes(job)[Made + 1]
  BY <1>1, <1>3 DEF Running
<1> QED
  BY <1>1, <1>2, <1>3, <1>4 DEF Made

\* And those after it.
LEMMA WritesAfter ==
    ASSUME Typed, Running, todo # <<>>, todo' = Tail(todo), job' = job
    PROVE  /\ todo' \in Seq(WriteSet) /\ Made' = Made + 1
           /\ Len(todo') <= Total(job)
           /\ \A i \in 1 .. Len(todo') : todo'[i] = Writes(job)[Made + 1 + i]
<1>1. job \in Accepted /\ job # NoJob /\ todo \in Seq(WriteSet)
  BY DEF Typed, Running
<1>2. PICK total \in Nat : total = Total(job)
  BY <1>1, TotalIsNat
<1>3. Len(todo) \in Nat /\ Len(todo') = Len(todo) - 1 /\ todo' \in Seq(WriteSet)
  BY <1>1
<1>4. \A i \in 1 .. Len(todo') : todo'[i] = todo[i + 1] /\ i + 1 \in 1 .. Len(todo)
  BY <1>1, <1>3
<1>5. Made = total - Len(todo) /\ Made' = total - Len(todo')
  BY <1>2 DEF Made
<1>6. /\ Len(todo) <= total
      /\ \A i \in 1 .. Len(todo) : todo[i] = Writes(job)[Made + i]
  BY <1>1, <1>2 DEF Running
<1>7. PICK m \in Int : m = Made
  BY <1>2, <1>3, <1>5
<1>8. ASSUME NEW i \in 1 .. Len(todo')
      PROVE  todo'[i] = Writes(job)[m + 1 + i]
  <2>1. m + (i + 1) = m + 1 + i
    BY <1>3
  <2> QED
    BY <1>4, <1>6, <1>7, <2>1
<1> QED
  BY <1>2, <1>3, <1>5, <1>6, <1>7, <1>8

\* The chips after a write: their types, and the channels it is not for.
Written(c) ==
    /\ synth' \in [Channels -> [Registers -> SUBSET Bits]]
    /\ active' \in [Channels -> [Registers -> SUBSET Bits]]
    /\ ddc' \in [Channels -> Settings] /\ vga' \in [VgaChannels -> SUBSET Bits]
    /\ \A other \in Channels \cup VgaChannels : other # c => Unmoved(other)

LEMMA ChannelsApart == Channels \cap VgaChannels = {}
  BY DEF Channels, VgaChannels

\* Of the six registers.
LEMMA SynthWrite ==
    ASSUME Typed, NEW j \in Accepted, j.tool = "fsynth", NEW n \in 0 .. 5,
           SynthTakes(j.chan, Word(j, 5 - n)), UNCHANGED <<ddc, vga>>
    PROVE  Written(j.chan) /\ (Holds(j, n) => Holds(j, n + 1)')
<1>1. PICK c \in Channels : c = j.chan
  BY AcceptedRun DEF Channels, VgaChannels
<1>2. PICK i \in Registers : i = 5 - n
  BY DEF Registers
<1>3. PICK word \in SUBSET Bits : word = Word(j, i)
  BY RegisterIsWord DEF Word
<1> DEFINE at == ValueOf(word, 0, 3)
           words == [synth[c] EXCEPT ![at] = word]
           effect == [k \in Registers |->
                        IF k = at \/ at = 0 THEN IF k \in {1, 4} /\ at # 0 THEN active[c][k] ELSE words[k]
                                            ELSE active[c][k]]
<1>4. at = i
  BY <1>3, WordHasNumber DEF Word
<1>5. SynthTakes(c, word)
  BY <1>1, <1>2, <1>3
<1>6. synth' = [synth EXCEPT ![c] = words] /\ active' = [active EXCEPT ![c] = effect]
  BY <1>5, Zenon DEF SynthTakes
<1> HIDE DEF at
<1>7. /\ synth \in [Channels -> [Registers -> SUBSET Bits]]
      /\ active \in [Channels -> [Registers -> SUBSET Bits]]
  BY DEF Typed
<1>8. words \in [Registers -> SUBSET Bits] /\ words[i] = word
      /\ \A k \in Registers : k # i => words[k] = synth[c][k]
  BY <1>4, <1>7
<1> HIDE DEF words
<1>9. effect \in [Registers -> SUBSET Bits]
  BY <1>4, <1>7, <1>8
<1>10. \A k \in Registers :
         /\ k = i /\ (k \notin {1, 4} \/ i = 0) => effect[k] = words[k]
         /\ i = 0 => effect[k] = words[k]
         /\ k # i /\ i # 0 => effect[k] = active[c][k]
  BY <1>4
<1> HIDE DEF effect
<1>11. /\ synth' \in [Channels -> [Registers -> SUBSET Bits]]
       /\ active' \in [Channels -> [Registers -> SUBSET Bits]]
       /\ synth'[c] = words /\ active'[c] = effect
  BY <1>6, <1>7, <1>8, <1>9
<1>12. ASSUME NEW other \in Channels \cup VgaChannels, other # c
       PROVE  Unmoved(other)
  BY <1>6, <1>7, <1>12 DEF Unmoved
<1>13. Written(c)
  BY <1>11, <1>12 DEF Written, Typed
<1>14. ASSUME Holds(j, n)
       PROVE  Holds(j, n + 1)'
  <2>1. ASSUME NEW k \in Registers, k >= 6 - (n + 1)
        PROVE  /\ synth'[c][k] = Word(j, k)
               /\ k \notin {1, 4} \/ n + 1 >= 6 => active'[c][k] = Word(j, k)
    <3>1. CASE k = i
      <4>1. n + 1 >= 6 => i = 0
        BY <1>2
      <4> QED
        BY <1>3, <1>8, <1>10, <1>11, <3>1, <4>1
    <3>2. CASE k # i
      <4>1. k >= 6 - n /\ (n + 1 >= 6 <=> i = 0)
        BY <1>2, <2>1, <3>2 DEF Registers
      <4>2. /\ synth[c][k] = Word(j, k)
            /\ k \notin {1, 4} => active[c][k] = Word(j, k)
        BY <1>1, <1>14, <4>1 DEF Holds
      <4>3. words[k] = Word(j, k)
        BY <1>8, <3>2, <4>2
      <4> QED
        BY <1>10, <1>11, <3>2, <4>1, <4>2, <4>3
    <3> QED
      BY <3>1, <3>2
  <2> QED
    BY <1>1, <2>1 DEF Holds
<1> QED
  BY <1>1, <1>13, <1>14

\* Of the down-converter.
LEMMA DdcWrite ==
    ASSUME Typed, NEW j \in Accepted, j.tool = "fsynth", NEW n \in {6},
           ddc' = [ddc EXCEPT ![j.chan] = DdcSetting(j.freq)], UNCHANGED <<synth, active, vga>>
    PROVE  Written(j.chan) /\ (Holds(j, n) => Holds(j, n + 1)')
<1>1. PICK c \in Channels : c = j.chan
  BY AcceptedRun DEF Channels, VgaChannels
<1>2. ddc \in [Channels -> Settings] /\ DdcSetting(j.freq) \in Settings
  BY DdcIsSetting DEF Typed
<1>3. ddc' \in [Channels -> Settings] /\ ddc'[c] = DdcSetting(j.freq)
      /\ \A d \in Channels : d # c => ddc'[d] = ddc[d]
  BY <1>1, <1>2
<1>4. Written(c)
  BY <1>3 DEF Written, Unmoved, Typed
<1>5. ASSUME Holds(j, n)
      PROVE  Holds(j, n + 1)'
  <2>1. \A i \in Registers : i >= 6 - 6 /\ synth[c][i] = Word(j, i) /\ active[c][i] = Word(j, i)
    BY <1>1, <1>5 DEF Holds, Registers
  <2> QED
    BY <1>1, <1>3, <2>1 DEF Holds
<1> QED
  BY <1>1, <1>4, <1>5

\* Of the amplifier: the word says which of its channels it is for.
LEMMA VgaWrite ==
    ASSUME Typed, NEW j \in Accepted, j.tool = "lmh6521", NEW n \in {0},
           vga' = [vga EXCEPT ![IF 8 \in GainWord(j) THEN "1" ELSE "0"] = GainWord(j)],
           UNCHANGED <<synth, active, ddc>>
    PROVE  Written(j.chan) /\ Holds(j, n + 1)'
<1>1. j.chan \in VgaChannels /\ GainWord(j) \in SUBSET Bits /\ (8 \in GainWord(j) <=> j.chan = "1")
  BY AcceptedRun, LmhWritesAre
<1>2. vga' = [vga EXCEPT ![j.chan] = GainWord(j)] /\ vga \in [VgaChannels -> SUBSET Bits]
  BY <1>1 DEF Typed, VgaChannels
<1>3. vga' \in [VgaChannels -> SUBSET Bits] /\ vga'[j.chan] = GainWord(j)
      /\ \A v \in VgaChannels : v # j.chan => vga'[v] = vga[v]
  BY <1>1, <1>2
<1>4. Written(j.chan)
  BY <1>3 DEF Written, Unmoved, Typed
<1>5. Holds(j, n + 1)'
  BY <1>3 DEF Holds
<1> QED
  BY <1>4, <1>5

LEMMA WriteKeeps == RadioInv /\ Write => RadioInv'
<1> SUFFICES ASSUME Typed, Running, Kept, Write PROVE RadioInv'
  BY DEF RadioInv
<1>1. /\ todo # <<>> /\ todo' = Tail(todo) /\ rc' = rc /\ job' = job /\ asked' = asked
      /\ runs' = runs /\ fails' = fails
  BY DEF Write
<1>2. PICK j \in Accepted : j = job /\ j # NoJob
  BY <1>1, NextWrite
<1>3. PICK n \in 0 .. Total(j) - 1 : n = Made
  BY <1>1, <1>2, NextWrite
<1>4. n + 1 \in Int /\ n \in Int
  BY <1>2, TotalIsNat
<1>5. PICK w \in WriteSet : w = Head(todo) /\ w = Writes(j)[n + 1]
  BY <1>1, <1>2, <1>3, NextWrite
<1>6. /\ w.to = "synth" => (SynthTakes(w.chan, w.word) /\ UNCHANGED <<ddc, vga>>)
      /\ w.to = "ddc" => /\ ddc' = [ddc EXCEPT ![w.chan] = w.set]
                         /\ UNCHANGED <<synth, active, vga>>
      /\ w.to = "vga" => /\ vga' = [vga EXCEPT ![IF 8 \in w.word THEN "1" ELSE "0"] = w.word]
                         /\ UNCHANGED <<synth, active, ddc>>
  BY <1>5, Zenon DEF Write
<1>7. Written(j.chan) /\ (Holds(j, n) => Holds(j, n + 1)')
  <2>1. CASE j.tool = "fsynth" /\ n <= 5
    <3>1. n \in 0 .. 5 /\ n + 1 \in 1 .. 6 /\ 6 - (n + 1) = 5 - n
      BY <1>2, <2>1, TotalIsNat
    <3>2. w = [to |-> "synth", chan |-> j.chan, word |-> Word(j, 5 - n)]
      BY <1>5, <2>1, <3>1, FsynthWritesAre
    <3>3. SynthTakes(j.chan, Word(j, 5 - n)) /\ UNCHANGED <<ddc, vga>>
      BY <1>6, <3>2
    <3> QED
      BY <2>1, <3>1, <3>3, SynthWrite
  <2>2. CASE j.tool = "fsynth" /\ n > 5
    <3>1. n \in {6} /\ n + 1 = 7
      BY <1>2, <2>2, TotalIsNat
    <3>4. Writes(j)[7] = [to |-> "ddc", chan |-> j.chan, set |-> DdcSetting(j.freq)]
      BY <2>2, FsynthWritesAre
    <3>2. w = [to |-> "ddc", chan |-> j.chan, set |-> DdcSetting(j.freq)]
      BY <1>5, <3>1, <3>4
    <3>3. ddc' = [ddc EXCEPT ![j.chan] = DdcSetting(j.freq)] /\ UNCHANGED <<synth, active, vga>>
      BY <1>6, <3>2
    <3> QED
      BY <2>2, <3>1, <3>3, DdcWrite
  <2>3. CASE j.tool = "lmh6521"
    <3>1. n \in {0} /\ n + 1 = 1
      BY <1>2, <2>3, TotalIsNat
    <3>4. Writes(j)[1] = [to |-> "vga", word |-> GainWord(j)]
      BY <2>3, LmhWritesAre
    <3>2. w = [to |-> "vga", word |-> GainWord(j)]
      BY <1>5, <3>1, <3>4
    <3>3. /\ vga' = [vga EXCEPT ![IF 8 \in GainWord(j) THEN "1" ELSE "0"] = GainWord(j)]
          /\ UNCHANGED <<synth, active, ddc>>
      BY <1>6, <3>2
    <3> QED
      BY <2>3, <3>1, <3>3, VgaWrite
  <2> QED
    BY <1>4, <2>1, <2>2, <2>3, AcceptedRun
<1>8. asked[j.chan] = <<>> /\ (~rc => Holds(j, n))
  BY <1>2, <1>3 DEF Running
<1>9. /\ todo' \in Seq(WriteSet) /\ Made' = n + 1 /\ Len(todo') <= Total(j)
      /\ \A i \in 1 .. Len(todo') : todo'[i] = Writes(j)[n + 1 + i]
  BY <1>1, <1>2, <1>3, WritesAfter
<1>10. Typed'
  BY <1>1, <1>7, <1>9 DEF Typed, Written
<1>11. Running'
  <2>1. PICK m : m = n + 1 /\ m = Made'
    BY <1>9
  <2>2. ~rc' => Holds(j, m)'
    BY <1>1, <1>7, <1>8, <2>1
  <2> QED
    BY <1>1, <1>2, <1>8, <1>9, <2>1, <2>2 DEF Running
<1>12. Kept'
  <2>1. \A c \in Channels \cup VgaChannels : asked[c] # <<>> => Unmoved(c)
    BY <1>7, <1>8 DEF Written
  <2> QED
    BY <1>1, <2>1, KeptStays
<1> QED
  BY <1>10, <1>11, <1>12 DEF RadioInv

LEMMA WriteFailsKeeps == RadioInv /\ WriteFails => RadioInv'
<1> SUFFICES ASSUME Typed, Running, Kept, WriteFails PROVE RadioInv'
  BY DEF RadioInv
<1>1. /\ todo # <<>> /\ todo' = Tail(todo) /\ rc' = TRUE /\ job' = job /\ asked' = asked
      /\ runs' = runs /\ fails' = fails + 1 /\ fails < MaxFails
      /\ synth' = synth /\ active' = active /\ ddc' = ddc /\ vga' = vga
  BY DEF WriteFails
<1>2. job \in Accepted /\ job # NoJob
  BY <1>1, NextWrite
<1>3. /\ todo' \in Seq(WriteSet) /\ Made' = Made + 1 /\ Len(todo') <= Total(job)
      /\ \A i \in 1 .. Len(todo') : todo'[i] = Writes(job)[Made + 1 + i]
  BY <1>1, WritesAfter
<1>4. fails' \in 0 .. MaxFails
  BY <1>1, RadioToolsAssumption DEF Typed
<1>5. Typed'
  BY <1>1, <1>3, <1>4 DEF Typed
<1>6. asked[job.chan] = <<>>
  BY <1>2 DEF Running
<1>7. Running'
  BY <1>1, <1>2, <1>3, <1>6 DEF Running
<1>8. Kept'
  <2>1. \A c \in Channels \cup VgaChannels : Unmoved(c)
    BY <1>1 DEF Unmoved
  <2> QED
    BY <1>1, <2>1, KeptStays
<1> QED
  BY <1>5, <1>7, <1>8 DEF RadioInv

LEMMA ReturnKeeps == RadioInv /\ Return => RadioInv'
<1> SUFFICES ASSUME Typed, Running, Kept, Return PROVE RadioInv'
  BY DEF RadioInv
<1>1. /\ job # NoJob /\ todo = <<>> /\ job' = NoJob
      /\ asked' = [asked EXCEPT ![job.chan] = IF rc THEN <<>> ELSE <<job>>]
      /\ todo' = todo /\ rc' = rc /\ runs' = runs /\ fails' = fails
      /\ synth' = synth /\ active' = active /\ ddc' = ddc /\ vga' = vga
  BY DEF Return, Idle
<1>2. PICK j \in Accepted : j = job /\ j # NoJob
  BY <1>1 DEF Typed
<1>3. j.chan \in Channels \cup VgaChannels /\ Total(j) \in Nat
  BY <1>2, TotalIsNat
<1>4. /\ asked \in [Channels \cup VgaChannels -> {<<>>} \cup {<<i>> : i \in Accepted}]
      /\ asked' = [asked EXCEPT ![j.chan] = IF rc THEN <<>> ELSE <<j>>]
  BY <1>1, <1>2 DEF Typed
<1>5. asked' \in [Channels \cup VgaChannels -> {<<>>} \cup {<<i>> : i \in Accepted}]
  BY <1>4
<1>6. Typed'
  BY <1>1, <1>5 DEF Typed
<1>7. Running'
  BY <1>1 DEF Running
<1>8. Kept'
  <2>1. SUFFICES ASSUME NEW c \in Channels \cup VgaChannels, NEW i \in Accepted, asked'[c] = <<i>>
                 PROVE  i.chan = c /\ Holds(i, Total(i))'
    BY DEF Kept
  <2>2. PICK n : n = Total(i)
    OBVIOUS
  <2>3. i.chan = c /\ Holds(i, n)
    <3>1. CASE c = j.chan
      <4>1. i = j /\ ~rc
        BY <1>3, <1>4, <2>1, <3>1
      <4>2. Made = n
        BY <1>1, <1>2, <1>3, <2>2, <4>1 DEF Made
      <4> QED
        BY <1>2, <3>1, <4>1, <4>2 DEF Running
    <3>2. CASE c # j.chan
      <4>1. asked[c] = <<i>>
        BY <1>4, <2>1, <3>2
      <4> QED
        BY <2>2, <4>1 DEF Kept
    <3> QED
      BY <3>1, <3>2
  <2>4. Unmoved(i.chan)
    BY <1>1 DEF Unmoved
  <2>5. Holds(i, n)'
    BY <2>3, <2>4, HoldsStays
  <2> QED
    BY <2>2, <2>3, <2>5
<1> QED
  BY <1>6, <1>7, <1>8 DEF RadioInv

LEMMA StartKeeps == RadioInv /\ Start => RadioInv'
<1> SUFFICES ASSUME Typed, Running, Kept, Start PROVE RadioInv'
  BY DEF RadioInv
<1>1. /\ job = NoJob /\ runs < MaxRuns /\ runs' = runs + 1 /\ rc' = FALSE /\ fails' = fails
      /\ synth' = synth /\ active' = active /\ ddc' = ddc /\ vga' = vga
  BY DEF Start, Idle
<1>2. runs' \in 0 .. MaxRuns
  BY <1>1, RadioToolsAssumption DEF Typed
<1>3. \/ todo' = todo /\ job' = job /\ asked' = asked
      \/ \E j \in Accepted : /\ todo' = Writes(j) /\ job' = j
                             /\ asked' = [asked EXCEPT ![j.chan] = <<>>]
  <2>1. ASSUME NEW j \in FsynthRuns, FsynthAccepts(j)
        PROVE  j \in Accepted /\ Writes(j) = FsynthWrites(j)
    BY <2>1 DEF Accepted, Writes, FsynthRuns
  <2>2. ASSUME NEW j \in LmhRuns, LmhAccepts(j)
        PROVE  j \in Accepted /\ Writes(j) = LmhWrites(j)
    BY <2>2 DEF Accepted, Writes, LmhRuns
  <2>3. \/ todo' = todo /\ job' = job /\ asked' = asked
        \/ \E j \in FsynthRuns : FsynthAccepts(j) /\ todo' = FsynthWrites(j) /\ job' = j
                                 /\ asked' = [asked EXCEPT ![j.chan] = <<>>]
        \/ \E j \in LmhRuns : LmhAccepts(j) /\ todo' = LmhWrites(j) /\ job' = j
                              /\ asked' = [asked EXCEPT ![j.chan] = <<>>]
    BY DEF Start
  <2> QED
    BY <2>1, <2>2, <2>3
<1>4. \A c : Unmoved(c)
  BY <1>1 DEF Unmoved
<1>5. CASE todo' = todo /\ job' = job /\ asked' = asked
  <2>1. Typed' /\ Running'
    BY <1>1, <1>2, <1>5 DEF Typed, Running
  <2>2. Kept'
    BY <1>4, <1>5, KeptStays
  <2> QED
    BY <2>1, <2>2 DEF RadioInv
<1>6. ASSUME NEW j \in Accepted, todo' = Writes(j), job' = j,
             asked' = [asked EXCEPT ![j.chan] = <<>>]
      PROVE  RadioInv'
  <2>1. /\ j.chan \in Channels \cup VgaChannels /\ Writes(j) \in Seq(WriteSet) /\ j # NoJob
        /\ Total(j) \in Nat
    BY TotalIsNat
  <2>2. asked \in [Channels \cup VgaChannels -> {<<>>} \cup {<<i>> : i \in Accepted}]
    BY DEF Typed
  <2>3. /\ asked' \in [Channels \cup VgaChannels -> {<<>>} \cup {<<i>> : i \in Accepted}]
        /\ asked'[j.chan] = <<>>
        /\ \A c \in Channels \cup VgaChannels : c # j.chan => asked'[c] = asked[c]
    BY <1>6, <2>1, <2>2
  <2>4. Typed'
    BY <1>1, <1>2, <1>6, <2>1, <2>3 DEF Typed
  <2>5. Running'
    <3>1. Made' = 0 /\ Len(todo') = Total(j)
      BY <1>6, <2>1 DEF Made, Total
    <3>2. Holds(j, 0)'
      BY DEF Holds, Registers
    <3>3. \A i \in 1 .. Total(j) : todo'[i] = Writes(j)[0 + i]
      BY <1>6, <2>1
    <3> QED
      BY <1>6, <2>1, <2>3, <3>1, <3>2, <3>3 DEF Running
  <2>6. Kept'
    <3>1. SUFFICES ASSUME NEW c \in Channels \cup VgaChannels, NEW i \in Accepted, asked'[c] = <<i>>
                   PROVE  i.chan = c /\ Holds(i, Total(i))'
      BY DEF Kept
    <3>2. asked[c] = <<i>>
      <4>1. <<>> # <<i>>
        OBVIOUS
      <4>2. c # j.chan
        BY <2>3, <3>1, <4>1
      <4> QED
        BY <2>3, <3>1, <4>2
    <3>3. PICK n : n = Total(i)
      OBVIOUS
    <3>4. i.chan = c /\ Holds(i, n)
      BY <3>2, <3>3 DEF Kept
    <3>5. Holds(i, n)'
      BY <1>4, <3>4, HoldsStays
    <3> QED
      BY <3>3, <3>4, <3>5
  <2> QED
    BY <2>4, <2>5, <2>6 DEF RadioInv
<1> QED
  BY <1>3, <1>5, <1>6

LEMMA AlwaysRadioInv == Spec => []RadioInv
<1>1. RadioInv /\ UNCHANGED vars => RadioInv'
  BY DEF RadioInv, Typed, Running, Kept, Holds, Made, vars
<1>2. RadioInv /\ [Next]_vars => RadioInv'
  BY <1>1, WriteKeeps, WriteFailsKeeps, ReturnKeeps, StartKeeps DEF Next
<1> QED
  BY <1>2, InitRadioInv, PTL DEF Spec
-------------------------------------------------------------------------------
(* What the invariant says of the chips *)

\* A channel whose last program returned 0 holds the words of its register object.
LEMMA FsynthKept ==
    ASSUME RadioInv, NEW c \in Channels, asked[c] # <<>>
    PROVE  \E j \in Accepted :
             /\ asked[c][1] = j /\ j.tool = "fsynth"
             /\ Loaded(c, Object(j.freq, NoiseMode(j.opt))) /\ ddc[c] = DdcSetting(j.freq)
<1>1. PICK j \in Accepted : asked[c] = <<j>>
  BY DEF RadioInv, Typed
<1>2. j.chan = c /\ Holds(j, Total(j))
  BY <1>1 DEF RadioInv, Kept
<1>3. j.tool = "fsynth"
  BY <1>2, AcceptedRun, ChannelsApart
<1>4. Holds(j, 7)
  <2>1. Total(j) = 7
    BY <1>3, TotalIsNat
  <2> QED
    BY <1>2, <2>1
<1>5. \A i \in Registers : active[c][i] = Word(j, i)
  BY <1>2, <1>3, <1>4 DEF Holds, Registers
<1>6. Loaded(c, Object(j.freq, NoiseMode(j.opt))) /\ ddc[c] = DdcSetting(j.freq)
  BY <1>2, <1>3, <1>4, <1>5 DEF Holds, Loaded, Word
<1> QED
  BY <1>1, <1>3, <1>6

LEMMA NoiseModes ==
    ASSUME NEW opt
    PROVE  /\ NoiseMode(opt) \in {0, 3}
           /\ opt[2] # "" => NoiseMode(opt) = (IF opt[2] = "0" THEN 3 ELSE 0)
  BY DEF NoiseMode, Enum

\* No frequency that is asked for is a multiple of 2^32 Hz: int() takes only 0 for 0.
NoneWraps == \A freq \in Freqs : PowersDown(freq) => freq = 0

\* What the chip of a tuned channel reads, and how its down-converter is set.
Reads(c, freq, int, frac, above, div, noise) ==
    /\ Chip(c) = [frac |-> frac, int |-> int, mod |-> 125, presc |-> 0, off |-> 0, noise |-> noise,
                  div |-> 4, ref |-> 125000, bs |-> 250, rfdiv |-> div]
    /\ ddc[c] = [phase |-> Turn(above, 500 * div), rev |-> above > 0]
    /\ freq * div \in Oscillator /\ int >= 23 /\ frac >= 0 /\ frac <= 125
    /\ AboveTarget(Chip(c), freq) = above /\ 2 * Abs(above) <= 125000

LEMMA TunedReads ==
    ASSUME NoneWraps, RadioInv, NEW c \in Tuned
    PROVE  \E freq \in Frequencies, int \in Int, frac \in Int, above \in Int,
              div \in {1, 2, 4, 8, 16, 32, 64}, noise \in {0, 3} :
             asked[c][1].freq = freq /\ Reads(c, freq, int, frac, above, div, noise)
<1>0. c \in Channels /\ asked[c] # <<>> /\ asked[c][1].freq # 0
  BY DEF Tuned
<1>2. PICK j \in Accepted :
        /\ asked[c][1] = j /\ j.tool = "fsynth"
        /\ Loaded(c, Object(j.freq, NoiseMode(j.opt))) /\ ddc[c] = DdcSetting(j.freq)
  BY <1>0, FsynthKept
<1>1. ~PowersDown(asked[c][1].freq)
  BY <1>0, <1>2, AcceptedRun DEF NoneWraps
<1>3. PICK freq \in Frequencies : freq = j.freq /\ freq \in Freqs
  BY <1>1, <1>2, AcceptedRun DEF Frequencies
<1>4. PICK noise \in {0, 3} : noise = NoiseMode(j.opt)
  BY NoiseModes
<1>5. PICK div \in {1, 2, 4, 8, 16, 32, 64} : div = RFdiv(freq)
  BY RFdivReachesVco
<1>6. PICK p : p = set_freq(freq)
  OBVIOUS
<1>7. Chip(c) = [frac |-> p.frac, int |-> p.int, mod |-> 125, presc |-> 0, off |-> 0,
                 noise |-> noise, div |-> 4, ref |-> 125000, bs |-> 250, rfdiv |-> div]
  <2>1. ~PowersDown(freq) /\ freq \in MinOut .. MaxOut /\ Loaded(c, Object(freq, noise))
    BY <1>1, <1>2, <1>3, <1>4 DEF Frequencies
  <2> QED
    BY <1>3, <1>5, <1>6, <2>1, ChipReadsPlan
<1>8. /\ p.int \in Int /\ p.frac \in Int /\ p.above \in Int
      /\ freq * div \in Oscillator /\ p.int >= 23 /\ p.frac >= 0 /\ p.frac <= 125 /\ p.parts = 500 * div
      /\ 2 * p.above <= 125000 /\ -2 * p.above <= 125000
      /\ p.above = p.frac * 125000 - (freq * div * 4 - p.int * 125000) * 125
  BY <1>5, <1>6, EveryFrequencyIsPlanned, RefValue
<1>9. ddc[c] = [phase |-> Turn(p.above, 500 * div), rev |-> p.above > 0]
  <2>1. Plan[freq] = p
    BY <1>3, <1>6 DEF Plan, Frequencies
  <2>2. freq # 0 /\ ~PowersDown(freq)
    BY <1>0, <1>1, <1>2, <1>3
  <2>3. DdcSetting(freq) = [phase |-> Turn(p.above, p.parts), rev |-> p.above > 0]
    BY <2>1, <2>2 DEF DdcSetting
  <2>4. p.parts = 500 * div
    BY <1>8
  <2> QED
    BY <1>2, <1>3, <2>3, <2>4
<1>10. AboveTarget(Chip(c), freq) = p.above /\ 2 * Abs(p.above) <= 125000
  <2>1. PICK chip :
          /\ chip = Chip(c) /\ chip.frac = p.frac /\ chip.int = p.int /\ chip.mod = 125
          /\ chip.div = 4 /\ chip.ref = 125000 /\ chip.rfdiv = div
    BY <1>7
  <2>2. AboveTarget(chip, freq) = p.above
    BY <1>8, <2>1 DEF AboveTarget
  <2>3. 2 * Abs(p.above) <= 125000
    BY <1>8, SMT DEF Abs
  <2> QED
    BY <2>1, <2>2, <2>3
<1>11. Reads(c, freq, p.int, p.frac, p.above, div, noise)
  BY <1>7, <1>8, <1>9, <1>10 DEF Reads
<1> QED
  BY <1>2, <1>3, <1>8, <1>11
-------------------------------------------------------------------------------
(* The theorems *)

\* libs/fsynth.cpp, libs/lmh6521.cpp: for all frequencies, gains and options, and
\* however many writes fail, the state has its types: the words written have 32 bits, and the
\* phase of the down-converter is less than a turn, or undefined.
THEOREM TypesCorrect == Spec => []TypeOK
<1>1. RadioInv => TypeOK
  <2> SUFFICES ASSUME RadioInv PROVE TypeOK
    OBVIOUS
  <2>1. job = NoJob \/ job \in FsynthRuns \/ job \in LmhRuns
    BY AcceptedRun DEF RadioInv, Typed
  <2>2. \A i \in DOMAIN todo : todo[i].to \in {"synth", "vga", "ddc"}
    <3>1. \A w \in WriteSet : w.to \in {"synth", "vga", "ddc"}
      BY DEF WriteSet
    <3>2. \A i \in DOMAIN todo : todo[i] \in WriteSet
      BY DEF RadioInv, Typed
    <3> QED
      BY <3>1, <3>2
  <2>3. \A c \in Channels : ddc[c].phase \in -1 .. PhaseSteps - 1 /\ ddc[c].rev \in BOOLEAN
    BY DEF RadioInv, Typed, Settings
  <2> QED
    BY <2>1, <2>2, <2>3 DEF RadioInv, Typed, TypeOK
<1> QED
  BY <1>1, AlwaysRadioInv, PTL

\* fsynth.cpp:47-49: for every frequency of the tool's range but 2^32 Hz, whatever was run
\* before and whatever of it failed: a chip whose last fsynth returned 0 is powered if and
\* only if it was run with another frequency than 0, with the noise mode that was asked
\* for, and gives that frequency to half a channel step.
THEOREM TunesTheChip ==
    ASSUME NoneWraps
    PROVE  Spec => []ChipTuned
<1>1. RadioInv => ChipTuned
  <2> SUFFICES ASSUME RadioInv, NEW c \in Channels, asked[c] # <<>>
               PROVE  LET chip == Chip(c)
                          j == asked[c][1]
                      IN /\ chip.off = (IF j.freq = 0 THEN 1 ELSE 0)
                         /\ j.opt[2] # "" => chip.noise = (IF j.opt[2] = "0" THEN 3 ELSE 0)
                         /\ c \in Tuned =>
                              /\ chip.mod > 0 /\ chip.div > 0
                              /\ 2 * Abs(AboveTarget(chip, j.freq)) <= chip.ref
    BY Zenon DEF ChipTuned
  <2>1. PICK j \in Accepted :
          /\ asked[c][1] = j /\ j.tool = "fsynth"
          /\ Loaded(c, Object(j.freq, NoiseMode(j.opt)))
    BY FsynthKept
  <2>2. PICK noise \in {0, 3} :
          noise = NoiseMode(j.opt) /\ (j.opt[2] # "" => noise = (IF j.opt[2] = "0" THEN 3 ELSE 0))
    BY NoiseModes
  <2>3. /\ Chip(c).off = (IF j.freq = 0 THEN 1 ELSE 0)
        /\ Chip(c).noise = noise
    <3>1. PICK o : o = Object(j.freq, noise)
      OBVIOUS
    <3>2. o["noise"] = noise /\ o["power_down"] = (IF PowersDown(j.freq) THEN 1 ELSE 0)
      BY <2>1, <3>1, AcceptedRun, PowerDownObject, TunedObject
    <3>3. Chip(c).off = o["power_down"] /\ Chip(c).noise = o["noise"]
      BY <2>1, <2>2, <3>1, <3>2, ChipReadsModes
    <3>4. PowersDown(j.freq) <=> j.freq = 0
      <4>1. PowersDown(0)
        BY RadioToolsAssumption DEF PowersDown
      <4> QED
        BY <2>1, <4>1, AcceptedRun, Zenon DEF NoneWraps
    <3> QED
      BY <3>2, <3>3, <3>4
  <2>4. ASSUME c \in Tuned
        PROVE  /\ Chip(c).mod > 0 /\ Chip(c).div > 0
               /\ 2 * Abs(AboveTarget(Chip(c), j.freq)) <= Chip(c).ref
    <3>1. PICK freq \in Frequencies, int \in Int, frac \in Int, above \in Int,
               div \in {1, 2, 4, 8, 16, 32, 64}, n \in {0, 3} :
            asked[c][1].freq = freq /\ Reads(c, freq, int, frac, above, div, n)
      BY <2>4, TunedReads
    <3>2. AboveTarget(Chip(c), freq) = above /\ 2 * Abs(above) <= 125000
      BY <3>1, SMT DEF Reads
    <3>3. /\ Chip(c).mod = 125 /\ Chip(c).div = 4 /\ Chip(c).ref = 125000 /\ Chip(c).rfdiv = div
      BY <3>1 DEF Reads
    <3>4. j.freq = freq
      BY <2>1, <3>1
    <3> QED
      BY <3>2, <3>3, <3>4
  <2> QED
    BY <2>1, <2>2, <2>3, <2>4
<1> QED
  BY <1>1, AlwaysRadioInv, PTL

\* adf4351_regs.hpp:16-28, 376-427: for every frequency of the range but 2^32 Hz, what the
\* chip reads keeps the limits of oscillator, phase detector, band select clock and
\* integer divider, and its FRAC is below MOD unless the fraction is rounded up to 1.
THEOREM WithinLimits ==
    ASSUME NoneWraps
    PROVE  Spec => []ChipWithinLimits
<1>1. RadioInv => ChipWithinLimits
  <2> SUFFICES ASSUME RadioInv, NEW c \in Tuned
               PROVE  LET chip == Chip(c)
                          freq == asked[c][1].freq
                      IN /\ freq * chip.rfdiv \in MinVco .. MaxOut
                         /\ chip.ref <= DesignPfd * chip.div
                         /\ chip.ref <= MaxBandSelect * chip.div * chip.bs
                         /\ chip.int >= (IF chip.presc = 1 THEN 75 ELSE 23)
                         /\ chip.mod >= 2 /\ (chip.frac < chip.mod \/ FractionIsOne(chip, freq))
    BY Zenon DEF ChipWithinLimits
  <2>1. PICK freq \in Frequencies, int \in Int, frac \in Int, above \in Int,
             div \in {1, 2, 4, 8, 16, 32, 64}, n \in {0, 3} :
          asked[c][1].freq = freq /\ Reads(c, freq, int, frac, above, div, n)
    BY TunedReads
  <2>2. PICK chip :
          /\ chip = Chip(c) /\ chip.mod = 125 /\ chip.div = 4 /\ chip.ref = 125000 /\ chip.bs = 250
          /\ chip.rfdiv = div /\ chip.presc = 0 /\ chip.int = int /\ chip.frac = frac
    BY <2>1 DEF Reads
  <2>3. freq * div \in MinVco .. MaxOut /\ int >= 23 /\ 0 <= frac /\ frac <= 125
    BY <2>1 DEF Reads, Oscillator
  <2>4. ASSUME frac = 125 PROVE FractionIsOne(chip, freq)
    <3>1. AboveTarget(chip, freq) = above /\ 2 * Abs(above) <= 125000
      BY <2>1, <2>2 DEF Reads
    <3>2. above = 125 * 125000 - (freq * div * 4 - int * 125000) * 125
      BY <2>2, <2>4, <3>1 DEF AboveTarget
    <3>3. 2 * above <= 125000
      BY <3>1, SMT DEF Abs
    <3>4. freq * div \in Int
      BY <2>3, Values
    <3>5. 2 * (freq * div * 4 - int * 125000) * 125 >= 249 * 125000
      BY <3>2, <3>3, <3>4, SMT
    <3> QED
      BY <2>2, <3>5, SMT DEF FractionIsOne
  <2> QED
    BY <2>1, <2>2, <2>3, <2>4 DEF DesignPfd, MaxBandSelect
<1> QED
  BY <1>1, AlwaysRadioInv, PTL

\* fsynth.cpp:125: for every frequency but 2^32 Hz, the down-converter turns by what the chip
\* is off, and against it.
THEOREM ResidueMadeUp ==
    ASSUME NoneWraps
    PROVE  Spec => []DdcMakesUpResidue
<1>1. RadioInv => DdcMakesUpResidue
  <2> SUFFICES ASSUME RadioInv, NEW c \in Tuned
               PROVE  LET chip == Chip(c)
                          above == AboveTarget(chip, asked[c][1].freq)
                      IN ddc[c] = [phase |-> Turn(above, chip.div * chip.mod * chip.rfdiv),
                                   rev |-> above > 0]
    BY Zenon DEF DdcMakesUpResidue
  <2>1. PICK freq \in Frequencies, int \in Int, frac \in Int, above \in Int,
             div \in {1, 2, 4, 8, 16, 32, 64}, n \in {0, 3} :
          asked[c][1].freq = freq /\ Reads(c, freq, int, frac, above, div, n)
    BY TunedReads
  <2>2. AboveTarget(Chip(c), asked[c][1].freq) = above
    BY <2>1, SMT DEF Reads
  <2>3. Chip(c).div * Chip(c).mod * Chip(c).rfdiv = 500 * div
    <3>1. Chip(c).div = 4 /\ Chip(c).mod = 125 /\ Chip(c).rfdiv = div
      BY <2>1 DEF Reads
    <3> QED
      BY <3>1
  <2>4. ddc[c] = [phase |-> Turn(above, 500 * div), rev |-> above > 0]
    BY <2>1 DEF Reads
  <2> QED
    BY <2>2, <2>3, <2>4
<1> QED
  BY <1>1, AlwaysRadioInv, PTL

\* lmh6521.cpp:36: for every gain, whatever was run before and whatever of it failed: a
\* channel whose last lmh6521 returned 0 has the gain asked for, to less than half a dB.
THEOREM GainsHeld == Spec => []GainsKept
<1>1. RadioInv => GainsKept
  <2> SUFFICES ASSUME RadioInv, NEW v \in VgaChannels, asked[v] # <<>>
               PROVE  LET left == asked[v][1].gain - 2 * ValueOf(vga[v], 1, 6)
                      IN 7 \in vga[v] /\ left \in {0, 1}
    BY Zenon DEF GainsKept
  <2>1. PICK j \in Accepted : asked[v] = <<j>>
    BY DEF RadioInv, Typed
  <2>2. j.chan = v /\ Holds(j, Total(j))
    BY <2>1 DEF RadioInv, Kept
  <2>3. j.tool = "lmh6521" /\ j.gain \in 0 .. 126
    BY <2>2, AcceptedRun, ChannelsApart
  <2>4. vga[v] = GainWord(j)
    BY <2>2, <2>3, TotalIsNat DEF Holds
  <2>5. PICK g \in 0 .. 63 : g = set_gain(j.gain) /\ j.gain - 2 * g \in {0, 1}
    <3>1. ASSUME NEW gain \in 0 .. 126
          PROVE  set_gain(gain) \in 0 .. 63 /\ gain - 2 * set_gain(gain) \in {0, 1}
      <4>1. CASE gain = 126
        BY <4>1 DEF set_gain
      <4>2. CASE gain < 126
        <5>1. gain \div 2 \in 0 .. 63 /\ gain - 2 * (gain \div 2) \in {0, 1}
          BY <4>2, SMT
        <5>2. set_gain(gain) = gain \div 2
          BY <4>2 DEF set_gain
        <5> QED
          BY <5>1, <5>2
      <4>3. gain = 126 \/ gain < 126
        BY SMT
      <4> QED
        BY <4>1, <4>2, <4>3, Zenon
    <3> QED
      BY <2>3, <3>1
  <2>6. ValueOf(vga[v], 1, 6) = g
    <3>1. \A b \in 0 .. 6 - 1 : b + 1 \in GainWord(j) <=> b \in BitsOf(g, 6)
      <4> TAKE b \in 0 .. 6 - 1
      <4>1. \A d \in BitsOf(g, 6) : d \in 0 .. 5
        BY BitsBelow
      <4>2. b + 1 # 7 /\ b + 1 # 8
        OBVIOUS
      <4> QED
        BY <2>5, <4>1, <4>2 DEF GainWord
    <3>2. g \in Int /\ 0 <= g /\ g < TwoTo(6)
      <4>1. TwoTo(6) = 64
        BY Powers
      <4> QED
        BY <4>1
    <3>3. ValueOf(GainWord(j), 1, 6) = g
      BY <3>1, <3>2, ValueOfBits
    <3> QED
      BY <2>4, <3>3
  <2>7. 7 \in vga[v]
    BY <2>4 DEF GainWord
  <2> QED
    BY <2>1, <2>5, <2>6, <2>7
<1> QED
  BY <1>1, AlwaysRadioInv, PTL
===============================================================================
