-------------------------------- MODULE DmaBuffs --------------------------------
(***************************************************************************)
(* create_dma_buffs and destroy_dma_buffs of the Langford Linux driver     *)
(* (langford.c:754-816): which pieces of memory and which bus mappings a   *)
(* DMA ring consists of, and which of them are made and released at every  *)
(* point where the creation may fail.  The operators speak of names of     *)
(* pieces; Lifecycle keeps which of them exist.                            *)
(***************************************************************************)
EXTENDS Integers

CONSTANTS
    NumBuffs,     \* DMARXBUFFS = DMATXBUFFS, 32
    UnwindFrom    \* the index create_dma_buffs resumes its unwinding at, 15

ASSUME DmaBuffsAssumption ==
    /\ NumBuffs \in Nat \ {0}
    /\ UnwindFrom \in Nat /\ UnwindFrom < NumBuffs

Rings == {"Rx", "Tx"}
Indices == 0 .. NumBuffs - 1

\* The pieces of a ring: the array of pointers and what they point to, the array of
\* bus addresses and the mappings behind them.
BuffArray(ring) == <<"buffs", ring, 0>>
Buffs(ring, I) == {<<"buff", ring, i>> : i \in I}
AddrArray(ring) == <<"addrs", ring, 0>>
Mappings(ring, I) == {<<"map", ring, i>> : i \in I}

RingPieces(ring) ==
    {BuffArray(ring), AddrArray(ring)} \cup Buffs(ring, Indices) \cup Mappings(ring, Indices)

\* Where create_dma_buffs may fail: at an array, or at an element of one.
FailurePoints ==
    [at : {"buffs", "addrs"}, i : {0}] \cup [at : {"buff", "map"}, i : Indices]

\* What exists when the creation fails at a point.
MadeBefore(ring, f) ==
    CASE f.at = "buffs" -> {}
      [] f.at = "buff"  -> {BuffArray(ring)} \cup Buffs(ring, 0 .. f.i - 1)
      [] f.at = "addrs" -> {BuffArray(ring)} \cup Buffs(ring, Indices)
      [] OTHER           -> {BuffArray(ring), AddrArray(ring)} \cup Buffs(ring, Indices)
                               \cup Mappings(ring, 0 .. f.i - 1)

\* Mutant: the buffers made so far are kept.
Unwound_KeepsBuffs(ring, f) ==
    CASE f.at = "buffs" -> {}
      [] f.at = "buff"  -> {BuffArray(ring)}
      [] f.at = "addrs" -> {BuffArray(ring)} \cup Buffs(ring, 0 .. NumBuffs)
      [] OTHER           -> {BuffArray(ring), AddrArray(ring)} \cup Buffs(ring, 0 .. UnwindFrom)
                               \cup Mappings(ring, 0 .. f.i)

\* What the labels exit_dma_unmap and exit_kfree then release.  kfree of the buffer
\* that was not made does nothing, its pointer is null; but after line 771 the loop
\* begins at num_buffs, one past the array; exit_dma_unmap begins with the mapping
\* that was not made; and its i = 15 leaves the buffers above that index allocated.
Unwound(ring, f) ==
    CASE f.at = "buffs" -> {}
      [] f.at = "buff"  -> {BuffArray(ring)} \cup Buffs(ring, 0 .. f.i - 1)
      [] f.at = "addrs" -> {BuffArray(ring)} \cup Buffs(ring, 0 .. NumBuffs)
      [] OTHER           -> {BuffArray(ring), AddrArray(ring)} \cup Buffs(ring, 0 .. UnwindFrom)
                               \cup Mappings(ring, 0 .. f.i)

\* destroy_dma_buffs, given the buffers of one ring and the bus addresses of another.
Destroyed(ring, addrsOf) ==
    {BuffArray(ring), AddrArray(addrsOf)} \cup Buffs(ring, Indices)
        \cup Mappings(addrsOf, Indices)
===============================================================================
