---------------------------- MODULE CircBuffProofs ----------------------------
(***************************************************************************)
(* Lemmas about the index arithmetic of CircBuff, for rings of any size.   *)
(***************************************************************************)
EXTENDS CircBuff, TLAPS

\* One step of at most a whole ring wraps at most once: the % of the driver's
\* index updates is a single conditional subtraction.
LEMMA AdvanceWraps ==
    ASSUME NEW len \in Nat \ {0}, NEW x \in 0 .. len - 1, NEW n \in 0 .. len
    PROVE  /\ Advance(x, n, len) = IF x + n < len THEN x + n ELSE x + n - len
           /\ Advance(x, n, len) \in 0 .. len - 1
<1>1. CASE x + n < len
  <2>1. (x + n) % len = x + n
    BY <1>1
  <2>2. QED
    BY <1>1, <2>1 DEF Advance
<1>2. CASE x + n >= len
  <2>1. x + n \in len .. 2 * len - 1
    BY <1>2
  <2>2. (x + n) % len = x + n - len
    BY <2>1
  <2>3. QED
    BY <1>2, <2>2 DEF Advance
<1>3. QED
  BY <1>1, <1>2

\* circ_buff_filled and circ_buff_avail stay in 0 .. len-1 and add up to len-1:
\* a full buffer keeps one free cell, so it is never taken for an empty one.
LEMMA FilledBounds ==
    ASSUME NEW len \in Nat \ {0}, NEW s \in 0 .. len - 1, NEW e \in 0 .. len - 1
    PROVE  /\ CircBuffFilled(s, e, len) \in 0 .. len - 1
           /\ CircBuffAvail(s, e, len) \in 0 .. len - 1
           /\ CircBuffFilled(s, e, len) + CircBuffAvail(s, e, len) = len - 1
           /\ CircBuffFilled(s, e, len) = 0 <=> s = e
  BY DEF CircBuffFilled, CircBuffAvail

\* Moving the end index over n free cells adds n to the fill, for n no more than
\* circ_buff_avail.
LEMMA FilledAfterProduce ==
    ASSUME NEW len \in Nat \ {0}, NEW s \in 0 .. len - 1, NEW e \in 0 .. len - 1,
           NEW n \in 0 .. CircBuffAvail(s, e, len)
    PROVE  CircBuffFilled(s, Advance(e, n, len), len) = CircBuffFilled(s, e, len) + n
<1>1. n \in 0 .. len
  BY FilledBounds
<1>2. Advance(e, n, len) = IF e + n < len THEN e + n ELSE e + n - len
  BY <1>1, AdvanceWraps
<1>3. QED
  BY <1>2 DEF CircBuffFilled, CircBuffAvail

\* Moving the start index over n used cells takes n from the fill.
LEMMA FilledAfterConsume ==
    ASSUME NEW len \in Nat \ {0}, NEW s \in 0 .. len - 1, NEW e \in 0 .. len - 1,
           NEW n \in 0 .. CircBuffFilled(s, e, len)
    PROVE  CircBuffFilled(Advance(s, n, len), e, len) = CircBuffFilled(s, e, len) - n
<1>1. n \in 0 .. len
  BY FilledBounds
<1>2. Advance(s, n, len) = IF s + n < len THEN s + n ELSE s + n - len
  BY <1>1, AdvanceWraps
<1>3. QED
  BY <1>2 DEF CircBuffFilled

\* The n cells from the end index and the cells in use are disjoint, for n no
\* more than circ_buff_avail.
LEMMA FreeAndUsedDisjoint ==
    ASSUME NEW len \in Nat \ {0}, NEW s \in 0 .. len - 1, NEW e \in 0 .. len - 1,
           NEW n \in 0 .. CircBuffAvail(s, e, len)
    PROVE  Region(e, n, len) \cap Region(s, CircBuffFilled(s, e, len), len) = {}
<1> DEFINE F == CircBuffFilled(s, e, len)
<1>1. F \in 0 .. len - 1 /\ n \in 0 .. len
  BY FilledBounds
<1>2. ASSUME NEW i \in 0 .. n - 1, NEW j \in 0 .. F - 1
      PROVE  Advance(e, i, len) # Advance(s, j, len)
  <2>1. i \in 0 .. len /\ j \in 0 .. len
    BY <1>1
  <2>2. Advance(e, i, len) = IF e + i < len THEN e + i ELSE e + i - len
    BY <2>1, AdvanceWraps
  <2>3. Advance(s, j, len) = IF s + j < len THEN s + j ELSE s + j - len
    BY <2>1, AdvanceWraps
  <2>4. F = IF e - s < 0 THEN len + (e - s) ELSE e - s
    BY DEF CircBuffFilled
  <2>5. n <= len - F - 1
    BY <1>1 DEF CircBuffAvail
  <2>6. QED
    BY <1>1, <2>2, <2>3, <2>4, <2>5
<1>3. QED
  BY <1>2 DEF Region

\* The first n cells in use are among the cells in use.
LEMMA RegionMonotone ==
    ASSUME NEW len \in Nat \ {0}, NEW s \in 0 .. len - 1,
           NEW m \in Nat, NEW n \in 0 .. m
    PROVE  Region(s, n, len) \subseteq Region(s, m, len)
  BY DEF Region

\* Two steps round a ring are one step, up to once around.
LEMMA AdvanceAdds ==
    ASSUME NEW len \in Nat \ {0}, NEW x \in 0 .. len - 1,
           NEW m \in 0 .. len, NEW n \in 0 .. len - m
    PROVE  Advance(Advance(x, m, len), n, len) = Advance(x, m + n, len)
<1>1. /\ Advance(x, m, len) = IF x + m < len THEN x + m ELSE x + m - len
      /\ Advance(x, m, len) \in 0 .. len - 1
  BY AdvanceWraps
<1>2. Advance(x, m + n, len) = IF x + (m + n) < len THEN x + (m + n) ELSE x + (m + n) - len
  <2>1. m + n \in 0 .. len
    OBVIOUS
  <2>2. QED
    BY <2>1, AdvanceWraps
<1>3. Advance(Advance(x, m, len), n, len) =
        IF Advance(x, m, len) + n < len THEN Advance(x, m, len) + n
                                         ELSE Advance(x, m, len) + n - len
  <2>1. n \in 0 .. len
    OBVIOUS
  <2>2. QED
    BY <1>1, <2>1, AdvanceWraps
<1>4. QED
  BY <1>1, <1>2, <1>3

\* The cells in use end where the end index is.
LEMMA UsedCellsReachEnd ==
    ASSUME NEW len \in Nat \ {0}, NEW s \in 0 .. len - 1, NEW e \in 0 .. len - 1
    PROVE  Advance(s, CircBuffFilled(s, e, len), len) = e
<1>1. CircBuffFilled(s, e, len) \in 0 .. len
  BY FilledBounds
<1>2. Advance(s, CircBuffFilled(s, e, len), len) =
        IF s + CircBuffFilled(s, e, len) < len THEN s + CircBuffFilled(s, e, len)
                                                 ELSE s + CircBuffFilled(s, e, len) - len
  BY <1>1, AdvanceWraps
<1>3. QED
  BY <1>2 DEF CircBuffFilled

\* How far a cell is from where the walk to it began; and a cell in use, seen from
\* the end index, lies behind all the free ones.
LEMMA FilledUpTo ==
    ASSUME NEW len \in Nat \ {0}, NEW x \in 0 .. len - 1, NEW i \in 0 .. len - 1
    PROVE  CircBuffFilled(x, Advance(x, i, len), len) = i
<1>1. Advance(x, i, len) = IF x + i < len THEN x + i ELSE x + i - len
  BY AdvanceWraps
<1>2. QED
  BY <1>1 DEF CircBuffFilled

LEMMA UsedCellsBehindFree ==
    ASSUME NEW len \in Nat \ {0}, NEW s \in 0 .. len - 1, NEW e \in 0 .. len - 1,
           NEW i \in 0 .. CircBuffFilled(s, e, len) - 1
    PROVE  /\ CircBuffFilled(e, Advance(s, i, len), len) > CircBuffAvail(s, e, len)
           /\ Advance(s, i, len) \in 0 .. len - 1
<1>1. i \in 0 .. len
  BY FilledBounds
<1>2. /\ Advance(s, i, len) = IF s + i < len THEN s + i ELSE s + i - len
      /\ Advance(s, i, len) \in 0 .. len - 1
  BY <1>1, AdvanceWraps
<1>3. QED
  BY <1>1, <1>2 DEF CircBuffFilled, CircBuffAvail
===============================================================================
