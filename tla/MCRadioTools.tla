------------------------------ MODULE MCRadioTools ------------------------------
(***************************************************************************)
(* RadioTools for TLC: both ends of the range and of the oscillator's octaves, *)
(* fractions on either side of a tie, one that rounds up to MOD, a         *)
(* frequency beyond either end; gains at both ends and between two steps.  *)
(***************************************************************************)
EXTENDS RadioTools

MCFreqs == {0, 34374, 34375, 68749, 68750, 2199999, 2200000, 2218749, 2218874, 2218876,
            3000001, 4400000, 4400001}
MCGains == {-1, 0, 1, 125, 126, 127}
MCOptions == {<<"", "">>, <<"3", "">>, <<"0", "1">>, <<"1", "1">>}
===============================================================================
