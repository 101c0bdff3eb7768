------------------------------- MODULE CircBuff -------------------------------
(***************************************************************************)
(* The index arithmetic of the driver's circular buffers (langford.c).     *)
(* A buffer of len cells is two indices in 0 .. len-1: start, the oldest   *)
(* cell in use, and end, the next free cell.  start = end means empty, so  *)
(* one cell always stays unused.  The same two functions serve the         *)
(* character device buffers (cells are bytes) and the rings of DMA         *)
(* buffers (cells are whole buffers).                                      *)
(***************************************************************************)
EXTENDS Integers

\* circ_buff_filled: the cells in use, corrected once when end is behind start.
CircBuffFilled(start, end, len) ==
    LET rc == end - start
    IN  IF rc < 0 THEN len + rc ELSE rc

\* Mutant: forgets that one cell stays unused, so that a full ring looks empty.
CircBuffAvail_NoSpareCell(start, end, len) == len - CircBuffFilled(start, end, len)

\* circ_buff_avail: the cells that may still be filled.
CircBuffAvail(start, end, len) == len - CircBuffFilled(start, end, len) - 1

\* Mutant: the index runs past the end of the ring.
Advance_NoWrap(index, n, len) == index + n

\* index = (index + n) % len, the update every index of the driver uses.
Advance(index, n, len) == (index + n) % len

\* The n cells from start onwards: what the pair of memcpy / copy_*_user calls
\* around each wrap test touches.
Region(start, n, len) == {Advance(start, i, len) : i \in 0 .. n - 1}

\* MIN of langford.h.
MinOf(a, b) == IF a < b THEN a ELSE b
===============================================================================
