------------------------------- MODULE TxStream -------------------------------
(***************************************************************************)
(* The transmit path of the Langford Linux driver (langford.c):            *)
(*                                                                         *)
(*   cdev_write --> cdev_write_buff --> dev_write_task --> pTxDmaBuffs     *)
(*                  (byte ring)        (kernel thread)    (buffer ring)    *)
(*                                           |                 |           *)
(*                                           +-- descriptors --+--> FPGA   *)
(*                                                                         *)
(* Each writer (a process inside cdev_write), the thread and the FPGA take *)
(* steps of their own.  A step is what the code does between two points    *)
(* where another actor can see it: a section under cdev_write_buff_mutex,  *)
(* a register read, a descriptor written, or one memory copy, which runs   *)
(* with the mutex released.  A copy lasts from the step that enters the pc *)
(* "copy" to the one that leaves it.                                       *)
(*                                                                         *)
(* Bytes are numbered by their place in the stream of accepted writes.     *)
(***************************************************************************)
EXTENDS Sequences, CircBuff

CONSTANTS
    Writers,         \* processes that call write(2) on the device
    WriteLens,       \* lengths they may ask for
    StreamLen,       \* bound: bytes the writers hand over in all
    CDEVBUFFSIZE,    \* bytes in cdev_write_buff
    DMABUFFSIZE,     \* bytes in one DMA buffer
    DMATXBUFFS,      \* DMA buffers in the Tx ring
    DMARXBUFFS,      \* the Rx count, which dev_write_task uses as well
    DMATXDESCS,      \* depth of the FPGA's descriptor FIFO
    DMATXDESCDELAY,  \* completions the thread waits before it reuses a buffer
    InFlightMax      \* descriptors the FPGA holds outside its FIFO

ASSUME SizeAssumption ==
    /\ CDEVBUFFSIZE \in Nat /\ DMABUFFSIZE \in Nat
    /\ 0 < DMABUFFSIZE /\ DMABUFFSIZE < CDEVBUFFSIZE
    /\ WriteLens \subseteq Nat \ {0}
    /\ StreamLen \in Nat

\* The two ring sizes are used as one (lines 324 and 383), the FIFO takes every
\* buffer of the ring, and the delay leaves at least one buffer to fill.
ASSUME RingAssumption ==
    /\ DMATXBUFFS \in Nat /\ DMARXBUFFS = DMATXBUFFS
    /\ DMATXDESCS \in Nat /\ DMATXBUFFS <= DMATXDESCS
    /\ DMATXDESCDELAY \in Nat
    /\ 0 < DMATXDESCDELAY /\ DMATXDESCDELAY < DMATXBUFFS

\* What the delay is for: the fill level register stops counting a descriptor
\* when the FPGA starts on it, and at most this many are being worked on.
ASSUME HardwareAssumption ==
    InFlightMax \in Nat /\ 0 < InFlightMax /\ InFlightMax <= DMATXDESCDELAY

VARIABLES
    cdev_write_buff,        \* the byte ring: cell -> stream position
    cdev_write_buff_start,
    cdev_write_buff_end,
    accepted,               \* bytes of the write calls that have returned
    wpc, len,               \* per writer: where it is, the length it asked for
    tpc,                    \* where dev_write_task is
    DescLevel, DescComp, BuffStart, BuffEnd, BuffsToWrite,   \* its locals
    pTxDmaBuffs,            \* the DMA buffers: index -> offset -> stream position
    fifo,                   \* descriptors queued in the FPGA, oldest first
    inflight,               \* descriptors it took from the queue, not completed
    out,                    \* stream positions it has fetched, oldest first
    stop                    \* kthread_stop was called on the thread

charVars   == <<cdev_write_buff, cdev_write_buff_start, cdev_write_buff_end>>
writerVars == <<wpc, len, accepted>>
threadVars == <<tpc, DescLevel, DescComp, BuffStart, BuffEnd, BuffsToWrite>>
fpgaVars   == <<fifo, inflight, out>>
vars == <<charVars, writerVars, threadVars, pTxDmaBuffs, fpgaVars, stop>>

Unset == -1     \* the content of memory nobody has written yet

WriteFilled ==
    CircBuffFilled(cdev_write_buff_start, cdev_write_buff_end, CDEVBUFFSIZE)
WriteAvail ==
    CircBuffAvail(cdev_write_buff_start, cdev_write_buff_end, CDEVBUFFSIZE)
RingFilled == CircBuffFilled(BuffStart, BuffEnd, DMATXBUFFS)

\* The low half of RDCSRFILLLEVEL.
FillLevel == Len(fifo)

\* The first session since the card was reset: an earlier one that ended with the exit of
\* line 296 may have left descriptors in the FIFO, which cdev_open does not clear.
Init ==
    /\ cdev_write_buff = [c \in 0 .. CDEVBUFFSIZE - 1 |-> Unset]
    /\ cdev_write_buff_start = 0 /\ cdev_write_buff_end = 0
    /\ accepted = 0
    /\ wpc = [w \in Writers |-> "idle"]
    /\ len = [w \in Writers |-> 0]
    /\ tpc = "poll"
    /\ DescLevel = 0 /\ DescComp = 0 /\ BuffsToWrite = 0
    /\ BuffStart = 0 /\ BuffEnd = 0
    /\ pTxDmaBuffs = [b \in 0 .. DMATXBUFFS - 1 |->
                        [i \in 0 .. DMABUFFSIZE - 1 |-> Unset]]
    /\ fifo = <<>> /\ inflight = <<>> /\ out = <<>>
    /\ stop = FALSE
-------------------------------------------------------------------------------
(* cdev_write *)

\* The process enters cdev_write.  A length above CDEVBUFFSIZE - 1 is logged and
\* nothing else.  The device is open as long as a writer is inside, so no
\* shutdown has begun.
WriteCall(w, n) ==
    /\ wpc[w] = "idle" /\ ~stop
    /\ accepted + n <= StreamLen
    /\ wpc' = [wpc EXCEPT ![w] = "wait"]
    /\ len' = [len EXCEPT ![w] = n]
    /\ UNCHANGED <<charVars, accepted, threadVars, pTxDmaBuffs, fpgaVars, stop>>

\* Mutants: one round of the wait loop whatever it finds; and a round that wants
\* one byte more than it needs.
WriteHasRoom_Unchecked(w) ==
    /\ wpc[w] = "wait"
    /\ wpc' = [wpc EXCEPT ![w] = "copy"]
    /\ UNCHANGED <<charVars, len, accepted, threadVars, pTxDmaBuffs, fpgaVars,
                   stop>>

WriteHasRoom_Strict(w) ==
    WriteAvail > len[w] /\ WriteHasRoom_Unchecked(w)

\* The last round of the wait loop.  The other rounds sleep and change nothing.
WriteHasRoom(w) ==
    /\ wpc[w] = "wait"
    /\ WriteAvail >= len[w]
    /\ wpc' = [wpc EXCEPT ![w] = "copy"]
    /\ UNCHANGED <<charVars, len, accepted, threadVars, pTxDmaBuffs, fpgaVars,
                   stop>>

\* Both copy_from_user calls: the bytes up to the wrap, then those after it.
WriteCopy(w) ==
    /\ wpc[w] = "copy"
    /\ cdev_write_buff' =
         [c \in 0 .. CDEVBUFFSIZE - 1 |->
            LET i == CircBuffFilled(cdev_write_buff_end, c, CDEVBUFFSIZE)
            IN  IF i < len[w] THEN accepted + i ELSE cdev_write_buff[c]]
    /\ wpc' = [wpc EXCEPT ![w] = "advance"]
    /\ UNCHANGED <<cdev_write_buff_start, cdev_write_buff_end, len, accepted,
                   threadVars, pTxDmaBuffs, fpgaVars, stop>>

\* The end index moves under the mutex and the call returns.
WriteReturn(w) ==
    /\ wpc[w] = "advance"
    /\ cdev_write_buff_end' = Advance(cdev_write_buff_end, len[w], CDEVBUFFSIZE)
    /\ accepted' = accepted + len[w]
    /\ wpc' = [wpc EXCEPT ![w] = "idle"]
    /\ UNCHANGED <<cdev_write_buff, cdev_write_buff_start, len, threadVars,
                   pTxDmaBuffs, fpgaVars, stop>>
-------------------------------------------------------------------------------
(* dev_write_task *)

\* The top of the loop with a stop request pending: return at once.
TxExitAtTop ==
    /\ tpc = "poll" /\ stop
    /\ tpc' = "exited"
    /\ UNCHANGED <<DescLevel, DescComp, BuffStart, BuffEnd, BuffsToWrite, charVars,
                   writerVars, pTxDmaBuffs, fpgaVars, stop>>

\* The first read of the fill level finds room in the FIFO and ends the wait.
TxSeesRoom ==
    /\ tpc = "poll" /\ ~stop
    /\ FillLevel < DMATXDESCS
    /\ tpc' = "level"
    /\ UNCHANGED <<DescLevel, DescComp, BuffStart, BuffEnd, BuffsToWrite, charVars,
                   writerVars, pTxDmaBuffs, fpgaVars, stop>>

\* Mutants: the free buffers counted from the depth of the FIFO; and the queued
\* descriptors taken for the completed ones.
TxReadLevel_FifoDepth ==
    /\ tpc = "level"
    /\ DescLevel' = FillLevel
    /\ DescComp' = DMATXDESCS - DescLevel'
    /\ tpc' = "check"
    /\ UNCHANGED <<BuffStart, BuffEnd, BuffsToWrite, charVars, writerVars,
                   pTxDmaBuffs, fpgaVars, stop>>

TxReadLevel_CountsQueued ==
    /\ tpc = "level"
    /\ DescLevel' = FillLevel
    /\ DescComp' = DescLevel'
    /\ tpc' = "check"
    /\ UNCHANGED <<BuffStart, BuffEnd, BuffsToWrite, charVars, writerVars,
                   pTxDmaBuffs, fpgaVars, stop>>

\* The second read, from which the thread works out the buffers it may refill.
TxReadLevel ==
    /\ tpc = "level"
    /\ DescLevel' = FillLevel
    /\ DescComp' = DMARXBUFFS - DescLevel'
    /\ tpc' = "check"
    /\ UNCHANGED <<BuffStart, BuffEnd, BuffsToWrite, charVars, writerVars,
                   pTxDmaBuffs, fpgaVars, stop>>

\* Mutant: reuses a buffer one completion too early.
TxFindsData_Early ==
    /\ tpc = "check" /\ DescComp >= DMATXDESCDELAY
    /\ WriteFilled > DMABUFFSIZE
    /\ tpc' = "copy"
    /\ UNCHANGED <<DescLevel, DescComp, BuffStart, BuffEnd, BuffsToWrite, charVars,
                   writerVars, pTxDmaBuffs, fpgaVars, stop>>

\* A round of the copy loop finds more than a DMA buffer of data.
TxFindsData ==
    /\ tpc = "check" /\ DescComp > DMATXDESCDELAY
    /\ WriteFilled > DMABUFFSIZE
    /\ tpc' = "copy"
    /\ UNCHANGED <<DescLevel, DescComp, BuffStart, BuffEnd, BuffsToWrite, charVars,
                   writerVars, pTxDmaBuffs, fpgaVars, stop>>

\* A round that does not: the buffer is skipped for this pass.
TxFindsNoData ==
    /\ tpc = "check" /\ DescComp > DMATXDESCDELAY
    /\ WriteFilled <= DMABUFFSIZE
    /\ DescComp' = DescComp - 1
    /\ UNCHANGED <<tpc, DescLevel, BuffStart, BuffEnd, BuffsToWrite, charVars,
                   writerVars, pTxDmaBuffs, fpgaVars, stop>>

\* The memcpy pair into pTxDmaBuffs[BuffEnd].
TxCopy ==
    /\ tpc = "copy"
    /\ pTxDmaBuffs' =
         [pTxDmaBuffs EXCEPT ![BuffEnd] =
            [i \in 0 .. DMABUFFSIZE - 1 |->
               cdev_write_buff[Advance(cdev_write_buff_start, i, CDEVBUFFSIZE)]]]
    /\ tpc' = "advance"
    /\ UNCHANGED <<DescLevel, DescComp, BuffStart, BuffEnd, BuffsToWrite, charVars,
                   writerVars, fpgaVars, stop>>

\* The start index moves under the mutex, and the round ends.
TxAdvance ==
    /\ tpc = "advance"
    /\ cdev_write_buff_start' =
         Advance(cdev_write_buff_start, DMABUFFSIZE, CDEVBUFFSIZE)
    /\ BuffEnd' = Advance(BuffEnd, 1, DMARXBUFFS)
    /\ DescComp' = DescComp - 1
    /\ tpc' = "check"
    /\ UNCHANGED <<cdev_write_buff, cdev_write_buff_end, DescLevel, BuffStart,
                   BuffsToWrite, writerVars, pTxDmaBuffs, fpgaVars, stop>>

\* The copy loop is over: how many descriptors to write.
TxCountDescriptors ==
    /\ tpc = "check" /\ DescComp <= DMATXDESCDELAY
    /\ BuffsToWrite' = MinOf(DMATXDESCS - DescLevel, RingFilled)
    /\ tpc' = "enqueue"
    /\ UNCHANGED <<DescLevel, DescComp, BuffStart, BuffEnd, charVars, writerVars,
                   pTxDmaBuffs, fpgaVars, stop>>

\* One descriptor: its address and length, then the GO that queues it.
TxEnqueue ==
    /\ tpc = "enqueue" /\ BuffsToWrite # 0
    /\ fifo' = Append(fifo, BuffStart)
    /\ BuffStart' = Advance(BuffStart, 1, DMATXBUFFS)
    /\ DescLevel' = DescLevel + 1
    /\ BuffsToWrite' = BuffsToWrite - 1
    /\ UNCHANGED <<tpc, DescComp, BuffEnd, charVars, writerVars, pTxDmaBuffs,
                   inflight, out, stop>>

\* The bottom of the loop: drain if a stop is pending, or go round again.
TxBottom ==
    /\ tpc = "enqueue" /\ BuffsToWrite = 0
    /\ tpc' = IF stop THEN "drain" ELSE "poll"
    /\ UNCHANGED <<DescLevel, DescComp, BuffStart, BuffEnd, BuffsToWrite, charVars,
                   writerVars, pTxDmaBuffs, fpgaVars, stop>>

\* Mutant: waits on the level it read before.
TxDrain_StaleLevel ==
    /\ tpc = "drain" /\ DescLevel # 0
    /\ UNCHANGED vars

\* One round of while (DescLevel).
TxDrain ==
    /\ tpc = "drain" /\ DescLevel # 0
    /\ DescLevel' = FillLevel
    /\ UNCHANGED <<tpc, DescComp, BuffStart, BuffEnd, BuffsToWrite, charVars,
                   writerVars, pTxDmaBuffs, fpgaVars, stop>>

TxExitDrained ==
    /\ tpc = "drain" /\ DescLevel = 0
    /\ tpc' = "exited"
    /\ UNCHANGED <<DescLevel, DescComp, BuffStart, BuffEnd, BuffsToWrite, charVars,
                   writerVars, pTxDmaBuffs, fpgaVars, stop>>
-------------------------------------------------------------------------------
(* The FPGA's Tx DMA engine, as dev_write_task uses it, and kthread_stop *)

\* The engine takes the oldest descriptor out of its FIFO; the fill level drops.
FpgaStart ==
    /\ fifo # <<>> /\ Len(inflight) < InFlightMax
    /\ inflight' = Append(inflight, Head(fifo))
    /\ fifo' = Tail(fifo)
    /\ UNCHANGED <<charVars, writerVars, threadVars, pTxDmaBuffs, out, stop>>

\* It has fetched the buffer of the oldest descriptor it works on.
FpgaComplete ==
    /\ inflight # <<>>
    /\ out' = out \o [i \in 1 .. DMABUFFSIZE |->
                        pTxDmaBuffs[Head(inflight)][i - 1]]
    /\ inflight' = Tail(inflight)
    /\ UNCHANGED <<charVars, writerVars, threadVars, pTxDmaBuffs, fifo, stop>>

\* cdev_release of the last open file stops the thread: the kernel calls it only
\* once no write call is running.
StopThread ==
    /\ ~stop /\ \A w \in Writers : wpc[w] = "idle"
    /\ stop' = TRUE
    /\ UNCHANGED <<charVars, writerVars, threadVars, pTxDmaBuffs, fpgaVars>>
-------------------------------------------------------------------------------
WriterStep(w) == WriteHasRoom(w) \/ WriteCopy(w) \/ WriteReturn(w)

TxThread ==
    \/ TxExitAtTop \/ TxSeesRoom \/ TxReadLevel \/ TxFindsData \/ TxFindsNoData
    \/ TxCopy \/ TxAdvance \/ TxCountDescriptors \/ TxEnqueue \/ TxBottom
    \/ TxDrain \/ TxExitDrained

Fpga == FpgaStart \/ FpgaComplete

Next ==
    \/ \E w \in Writers : WriterStep(w) \/ \E n \in WriteLens : WriteCall(w, n)
    \/ TxThread
    \/ Fpga
    \/ StopThread

Spec == Init /\ [][Next]_vars

\* The scheduler runs every runnable process and kernel thread, and the radio
\* goes on consuming samples.  Nobody has to call write or close.
Fairness ==
    /\ \A w \in Writers : WF_vars(WriterStep(w))
    /\ WF_vars(TxThread)
    /\ WF_vars(FpgaStart) /\ WF_vars(FpgaComplete)

FairSpec == Spec /\ Fairness
-------------------------------------------------------------------------------
(* Correctness *)

Positions == Nat
RingIndex == 0 .. DMATXBUFFS - 1

\* Every variable keeps its type: both indices stay inside their rings and no
\* count of dev_write_task leaves its range.
TypeOK ==
    /\ cdev_write_buff \in [0 .. CDEVBUFFSIZE - 1 -> Positions \cup {Unset}]
    /\ cdev_write_buff_start \in 0 .. CDEVBUFFSIZE - 1
    /\ cdev_write_buff_end \in 0 .. CDEVBUFFSIZE - 1
    /\ accepted \in Nat
    /\ wpc \in [Writers -> {"idle", "wait", "copy", "advance"}]
    /\ len \in [Writers -> WriteLens \cup {0}]
    /\ tpc \in {"poll", "level", "check", "copy", "advance", "enqueue", "drain",
                "exited"}
    /\ DescLevel \in 0 .. DMATXBUFFS /\ DescComp \in 0 .. DMATXBUFFS
    /\ BuffStart \in RingIndex /\ BuffEnd \in RingIndex
    /\ BuffsToWrite \in 0 .. DMATXBUFFS
    /\ pTxDmaBuffs \in
         [RingIndex -> [0 .. DMABUFFSIZE - 1 -> Positions \cup {Unset}]]
    /\ fifo \in Seq(RingIndex) /\ inflight \in Seq(RingIndex)
    /\ Len(fifo) <= DMATXDESCS /\ Len(inflight) <= InFlightMax
    /\ out \in Seq(Positions \cup {Unset})
    /\ stop \in BOOLEAN

\* The bytes a copy_from_user of writer w fills, those the thread's memcpy reads,
\* and all that wait in the buffer.
WriterRegion(w) == Region(cdev_write_buff_end, len[w], CDEVBUFFSIZE)
ThreadRegion == Region(cdev_write_buff_start, DMABUFFSIZE, CDEVBUFFSIZE)
UnreadRegion == Region(cdev_write_buff_start, WriteFilled, CDEVBUFFSIZE)

\* What makes the copies safe with the mutex released: a copy_from_user touches
\* no byte that waits to be sent, and the thread's memcpy reads none but those.
CopiesKeepToTheirSide ==
    /\ \A w \in Writers :
         wpc[w] = "copy" => WriterRegion(w) \cap UnreadRegion = {}
    /\ tpc = "copy" => ThreadRegion \subseteq UnreadRegion

\* The descriptors that name a buffer the FPGA may still fetch.
Owned == {fifo[i] : i \in 1 .. Len(fifo)} \cup {inflight[i] : i \in 1 .. Len(inflight)}

\* The thread fills a DMA buffer only when no descriptor in the FPGA, queued or
\* in progress, names it: the delay of DMATXDESCDELAY stands in for the
\* transfers the fill level no longer counts.
DmaBufferStable == tpc \in {"copy", "advance"} => BuffEnd \notin Owned

\* The accounting dev_write_task does with three locals and one register.  The
\* descriptors in the FPGA name the buffers just before BuffStart, in ring order;
\* the buffers filled, the descriptors last seen in the FIFO and the rounds left
\* never exceed the ring; and a pass queues every buffer it filled, as the next
\* pass works out the free buffers from the fill level alone and would overwrite
\* one left behind.
Before(b, k) == IF k <= b THEN b - k ELSE b - k + DMATXBUFFS

DescriptorsInRingOrder ==
    /\ \A i \in 1 .. Len(fifo) : fifo[i] = Before(BuffStart, Len(fifo) - i + 1)
    /\ \A i \in 1 .. Len(inflight) :
         inflight[i] = Before(BuffStart, Len(fifo) + Len(inflight) - i + 1)

PassAccounting ==
    /\ tpc \in {"poll", "level", "drain", "exited"} =>
         BuffStart = BuffEnd /\ FillLevel <= DMATXBUFFS - DMATXDESCDELAY
    /\ tpc \in {"check", "copy", "advance"} =>
         /\ FillLevel <= DescLevel
         /\ RingFilled + DescLevel + DescComp <= DMATXBUFFS
         /\ DescComp >= DMATXDESCDELAY
    /\ tpc \in {"copy", "advance"} => DescComp > DMATXDESCDELAY
    /\ tpc = "enqueue" =>
         /\ FillLevel <= DescLevel
         /\ RingFilled = BuffsToWrite
         /\ DescLevel + RingFilled <= DMATXBUFFS - DMATXDESCDELAY

RingAccounting == DescriptorsInRingOrder /\ PassAccounting

\* The driver as a whole is a bounded stream that loses and reorders nothing.
Stream == INSTANCE ByteStream
            WITH Capacity <- CDEVBUFFSIZE - 1 + DMATXBUFFS * DMABUFFSIZE
ImplementsByteStream == Stream!Spec

\* As long as the device stays open, every accepted byte is fetched except the
\* last DMABUFFSIZE ones, which dev_write_task keeps until more data comes.
AcceptedBytesAreSent ==
    \A k \in 1 .. StreamLen :
        (accepted >= k + DMABUFFSIZE) ~> (Len(out) >= k \/ stop)

\* A write that leaves room for the tail of one DMA buffer always returns.
FittingWriteReturns ==
    \A w \in Writers :
        (wpc[w] = "wait" /\ len[w] <= CDEVBUFFSIZE - 1 - DMABUFFSIZE)
            ~> (wpc[w] = "idle")

\* kthread_stop comes back: the thread leaves its loop from wherever it was.
StopEnds == stop ~> tpc = "exited"
===============================================================================
