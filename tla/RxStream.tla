------------------------------- MODULE RxStream -------------------------------
(***************************************************************************)
(* The receive path of the Langford Linux driver (langford.c):             *)
(*                                                                         *)
(*   FPGA --> pRxDmaBuffs --> dev_read_task --> cdev_read_buff --> cdev_read *)
(*     ^     (buffer ring)   (kernel thread)    (byte ring)                *)
(*     +------ descriptors ------+                                         *)
(*                                                                         *)
(* The step granularity is that of TxStream: sections under                *)
(* cdev_read_buff_mutex, register reads, descriptor writes and memory      *)
(* copies interleave; a copy runs with the mutex released.                 *)
(*                                                                         *)
(* The thread decides whether to copy by looking at the room in            *)
(* cdev_write_buff, the buffer of the transmit path (line 196).  That path *)
(* is the environment here: TxRoom says whether its buffer has more than   *)
(* DMABUFFSIZE bytes free.                                                 *)
(*                                                                         *)
(* Samples are numbered by their place in the received stream; block b is  *)
(* the samples b * DMABUFFSIZE ... of one DMA transfer.                    *)
(***************************************************************************)
EXTENDS Sequences, CircBuff

CONSTANTS
    Readers,         \* processes that call read(2) on the device
    ReadLens,        \* lengths they may ask for
    MaxBlocks,       \* bound: DMA transfers the FPGA makes in all
    TxMayFill,       \* whether the transmit path ever fills its buffer
    CDEVBUFFSIZE,    \* bytes in cdev_read_buff
    DMABUFFSIZE,     \* bytes in one DMA buffer
    DMARXBUFFS,      \* DMA buffers in the Rx ring
    DMARXDESCS,      \* depth of the FPGA's descriptor FIFO
    DMARXDESCDELAY,  \* completions the thread waits before it reads a buffer
    InFlightMax      \* descriptors the FPGA holds outside its FIFO

ASSUME SizeAssumption ==
    /\ CDEVBUFFSIZE \in Nat /\ DMABUFFSIZE \in Nat
    /\ 0 < DMABUFFSIZE /\ DMABUFFSIZE < CDEVBUFFSIZE
    /\ ReadLens \subseteq Nat \ {0}
    /\ MaxBlocks \in Nat /\ TxMayFill \in BOOLEAN

ASSUME RingAssumption ==
    /\ DMARXBUFFS \in Nat /\ 1 < DMARXBUFFS
    /\ DMARXDESCS \in Nat /\ 0 < DMARXDESCS
    /\ DMARXDESCDELAY \in Nat

\* What the delay is for: at most this many transfers are under way that the
\* fill level register no longer counts.
ASSUME HardwareAssumption ==
    InFlightMax \in Nat /\ 0 < InFlightMax /\ InFlightMax <= DMARXDESCDELAY

VARIABLES
    cdev_read_buff,         \* the byte ring: cell -> sample number
    cdev_read_buff_start,
    cdev_read_buff_end,
    rpc, len,               \* per reader: where it is, the length it asked for
    got,                    \* samples handed to the readers, oldest first
    tpc,                    \* where dev_read_task is
    DescLevel, DescActive, DescComp, BuffStart, BuffEnd, BuffsToWrite,  \* its locals
    pRxDmaBuffs,            \* the DMA buffers: index -> the block in it
    fifo,                   \* descriptors queued in the FPGA, oldest first
    inflight,               \* descriptors it took from the queue, not completed
    produced,               \* DMA transfers completed
    TxRoom,                 \* the room check of line 196 would succeed now
    taken, skipped,         \* history: rounds that copied a buffer, rounds that did not
    overrun,                \* history: a copy was made into bytes not yet read
    stop                    \* kthread_stop was called on the thread

charVars   == <<cdev_read_buff, cdev_read_buff_start, cdev_read_buff_end>>
readerVars == <<rpc, len, got>>
localVars  == <<DescLevel, DescActive, DescComp, BuffStart, BuffEnd, BuffsToWrite>>
history    == <<taken, skipped, overrun>>
fpgaVars   == <<pRxDmaBuffs, fifo, inflight, produced>>
vars == <<charVars, readerVars, tpc, localVars, history, fpgaVars, TxRoom, stop>>

Unset == -1     \* the content of memory nobody has written yet

ReadFilled == CircBuffFilled(cdev_read_buff_start, cdev_read_buff_end, CDEVBUFFSIZE)
ReadAvail == CircBuffAvail(cdev_read_buff_start, cdev_read_buff_end, CDEVBUFFSIZE)
RingFilled == CircBuffFilled(BuffStart, BuffEnd, DMARXBUFFS)
RingAvail == CircBuffAvail(BuffStart, BuffEnd, DMARXBUFFS)

\* The high half of WRCSRFILLLEVEL.
FillLevel == Len(fifo)

\* The first session since the card was reset: an earlier one that ended with the exit of
\* line 110 may have left descriptors in the FIFO, which cdev_open does not clear.
Init ==
    /\ cdev_read_buff = [c \in 0 .. CDEVBUFFSIZE - 1 |-> Unset]
    /\ cdev_read_buff_start = 0 /\ cdev_read_buff_end = 0
    /\ rpc = [r \in Readers |-> "idle"]
    /\ len = [r \in Readers |-> 0]
    /\ got = <<>>
    /\ tpc = "poll"
    /\ DescLevel = 0 /\ DescActive = 0 /\ DescComp = 0
    /\ BuffStart = 0 /\ BuffEnd = 0 /\ BuffsToWrite = 0
    /\ pRxDmaBuffs = [b \in 0 .. DMARXBUFFS - 1 |-> Unset]
    /\ fifo = <<>> /\ inflight = <<>> /\ produced = 0
    /\ TxRoom = TRUE
    /\ taken = 0 /\ skipped = 0 /\ overrun = FALSE
    /\ stop = FALSE
-------------------------------------------------------------------------------
(* cdev_read *)

\* The process enters cdev_read.  A length above CDEVBUFFSIZE - 1 is logged and
\* nothing else.
ReadCall(r, n) ==
    /\ rpc[r] = "idle" /\ ~stop
    /\ rpc' = [rpc EXCEPT ![r] = "wait"]
    /\ len' = [len EXCEPT ![r] = n]
    /\ UNCHANGED <<charVars, got, tpc, localVars, history, fpgaVars, TxRoom, stop>>

\* Mutant: goes on with whatever data there is.
ReadHasData_AnyData(r) ==
    /\ rpc[r] = "wait"
    /\ ReadFilled > 0
    /\ rpc' = [rpc EXCEPT ![r] = "copy"]
    /\ UNCHANGED <<charVars, len, got, tpc, localVars, history, fpgaVars, TxRoom, stop>>

\* The last round of the wait loop.  The other rounds sleep and change nothing.
ReadHasData(r) ==
    /\ rpc[r] = "wait"
    /\ ReadFilled >= len[r]
    /\ rpc' = [rpc EXCEPT ![r] = "copy"]
    /\ UNCHANGED <<charVars, len, got, tpc, localVars, history, fpgaVars, TxRoom, stop>>

\* Both copy_to_user calls: the bytes up to the wrap, then those after it.
ReadCopy(r) ==
    /\ rpc[r] = "copy"
    /\ got' = got \o [i \in 1 .. len[r] |->
                        cdev_read_buff[Advance(cdev_read_buff_start, i - 1, CDEVBUFFSIZE)]]
    /\ rpc' = [rpc EXCEPT ![r] = "advance"]
    /\ UNCHANGED <<charVars, len, tpc, localVars, history, fpgaVars, TxRoom, stop>>

\* The start index moves under the mutex and the call returns.
ReadReturn(r) ==
    /\ rpc[r] = "advance"
    /\ cdev_read_buff_start' = Advance(cdev_read_buff_start, len[r], CDEVBUFFSIZE)
    /\ rpc' = [rpc EXCEPT ![r] = "idle"]
    /\ UNCHANGED <<cdev_read_buff, cdev_read_buff_end, len, got, tpc, localVars,
                   history, fpgaVars, TxRoom, stop>>
-------------------------------------------------------------------------------
(* dev_read_task *)

\* The top of the loop with a stop request pending: return at once.
RxExitAtTop ==
    /\ tpc = "poll" /\ stop
    /\ tpc' = "exited"
    /\ UNCHANGED <<charVars, readerVars, localVars, history, fpgaVars, TxRoom, stop>>

\* The first read of the fill level finds room in the FIFO and ends the wait.
RxSeesRoom ==
    /\ tpc = "poll" /\ ~stop
    /\ FillLevel < DMARXDESCS
    /\ tpc' = "level"
    /\ UNCHANGED <<charVars, readerVars, localVars, history, fpgaVars, TxRoom, stop>>

\* Mutant: the count of dev_write_task, which queues the filled buffers.
RxReadLevel_CountsFilled ==
    /\ tpc = "level"
    /\ DescLevel' = FillLevel
    /\ BuffsToWrite' = MinOf(DMARXDESCS - DescLevel', RingFilled)
    /\ tpc' = "enqueue"
    /\ UNCHANGED <<DescActive, DescComp, BuffStart, BuffEnd, charVars, readerVars,
                   history, fpgaVars, TxRoom, stop>>

\* The second read, and from it the number of descriptors to write.
RxReadLevel ==
    /\ tpc = "level"
    /\ DescLevel' = FillLevel
    /\ BuffsToWrite' = MinOf(DMARXDESCS - DescLevel', RingAvail)
    /\ tpc' = "enqueue"
    /\ UNCHANGED <<DescActive, DescComp, BuffStart, BuffEnd, charVars, readerVars,
                   history, fpgaVars, TxRoom, stop>>

\* Mutant: the descriptor is not counted as active.
RxEnqueue_NotCounted ==
    /\ tpc = "enqueue" /\ BuffsToWrite # 0
    /\ fifo' = Append(fifo, BuffEnd)
    /\ BuffEnd' = Advance(BuffEnd, 1, DMARXBUFFS)
    /\ DescLevel' = DescLevel + 1
    /\ BuffsToWrite' = BuffsToWrite - 1
    /\ UNCHANGED <<tpc, DescActive, DescComp, BuffStart, charVars, readerVars, history,
                   pRxDmaBuffs, inflight, produced, TxRoom, stop>>

\* One descriptor: its address and length, then the GO that queues it.
RxEnqueue ==
    /\ tpc = "enqueue" /\ BuffsToWrite # 0
    /\ fifo' = Append(fifo, BuffEnd)
    /\ BuffEnd' = Advance(BuffEnd, 1, DMARXBUFFS)
    /\ DescActive' = DescActive + 1
    /\ DescLevel' = DescLevel + 1
    /\ BuffsToWrite' = BuffsToWrite - 1
    /\ UNCHANGED <<tpc, DescComp, BuffStart, charVars, readerVars, history,
                   pRxDmaBuffs, inflight, produced, TxRoom, stop>>

\* Mutant: the active descriptors start again from zero on every pass.
RxCountCompleted_ActiveReset ==
    /\ tpc = "enqueue" /\ BuffsToWrite = 0
    /\ DescComp' = DescComp + DescActive - DescLevel
    /\ DescActive' = 0
    /\ tpc' = "check"
    /\ UNCHANGED <<DescLevel, BuffStart, BuffEnd, BuffsToWrite, charVars, readerVars,
                   history, fpgaVars, TxRoom, stop>>

\* The descriptors the FPGA has taken since the last pass count as completed.
RxCountCompleted ==
    /\ tpc = "enqueue" /\ BuffsToWrite = 0
    /\ DescComp' = DescComp + DescActive - DescLevel
    /\ DescActive' = DescLevel
    /\ tpc' = "check"
    /\ UNCHANGED <<DescLevel, BuffStart, BuffEnd, BuffsToWrite, charVars, readerVars,
                   history, fpgaVars, TxRoom, stop>>

\* Mutant: reads a buffer one completion too early.
RxFindsRoom_Early ==
    /\ tpc = "check" /\ DescComp >= DMARXDESCDELAY
    /\ TxRoom
    /\ tpc' = "copy"
    /\ UNCHANGED <<charVars, readerVars, localVars, history, fpgaVars, TxRoom, stop>>

\* A round of the copy loop whose room check, made on cdev_write_buff, succeeds.
RxFindsRoom ==
    /\ tpc = "check" /\ DescComp > DMARXDESCDELAY
    /\ TxRoom
    /\ tpc' = "copy"
    /\ UNCHANGED <<charVars, readerVars, localVars, history, fpgaVars, TxRoom, stop>>

\* A round whose check fails: the loop counts the completed descriptor as dealt
\* with and leaves BuffStart where it is.
RxFindsNoRoom ==
    /\ tpc = "check" /\ DescComp > DMARXDESCDELAY
    /\ ~TxRoom
    /\ DescComp' = DescComp - 1
    /\ skipped' = skipped + 1
    /\ UNCHANGED <<tpc, DescLevel, DescActive, BuffStart, BuffEnd, BuffsToWrite,
                   charVars, readerVars, taken, overrun, fpgaVars, TxRoom, stop>>

\* The memcpy pair out of pRxDmaBuffs[BuffStart].
RxCopy ==
    /\ tpc = "copy"
    /\ cdev_read_buff' =
         [c \in 0 .. CDEVBUFFSIZE - 1 |->
            LET i == CircBuffFilled(cdev_read_buff_end, c, CDEVBUFFSIZE)
            IN  IF i < DMABUFFSIZE THEN pRxDmaBuffs[BuffStart] * DMABUFFSIZE + i
                                   ELSE cdev_read_buff[c]]
    /\ overrun' = (overrun \/ ReadAvail < DMABUFFSIZE)
    /\ tpc' = "advance"
    /\ UNCHANGED <<cdev_read_buff_start, cdev_read_buff_end, readerVars, localVars,
                   taken, skipped, fpgaVars, TxRoom, stop>>

\* The end index moves under the mutex, and the round ends.
RxAdvance ==
    /\ tpc = "advance"
    /\ cdev_read_buff_end' = Advance(cdev_read_buff_end, DMABUFFSIZE, CDEVBUFFSIZE)
    /\ BuffStart' = Advance(BuffStart, 1, DMARXBUFFS)
    /\ DescComp' = DescComp - 1
    /\ taken' = taken + 1
    /\ tpc' = "check"
    /\ UNCHANGED <<cdev_read_buff, cdev_read_buff_start, DescLevel, DescActive, BuffEnd,
                   BuffsToWrite, readerVars, skipped, overrun, fpgaVars, TxRoom, stop>>

\* The bottom of the loop: drain if a stop is pending, or go round again.
RxBottom ==
    /\ tpc = "check" /\ DescComp <= DMARXDESCDELAY
    /\ tpc' = IF stop THEN "drain" ELSE "poll"
    /\ UNCHANGED <<charVars, readerVars, localVars, history, fpgaVars, TxRoom, stop>>

\* Mutant: waits on the level it read before.
RxDrain_StaleLevel ==
    /\ tpc = "drain" /\ DescLevel # 0
    /\ UNCHANGED vars

\* One round of while (DescLevel).
RxDrain ==
    /\ tpc = "drain" /\ DescLevel # 0
    /\ DescLevel' = FillLevel
    /\ UNCHANGED <<tpc, DescActive, DescComp, BuffStart, BuffEnd, BuffsToWrite,
                   charVars, readerVars, history, fpgaVars, TxRoom, stop>>

RxExitDrained ==
    /\ tpc = "drain" /\ DescLevel = 0
    /\ tpc' = "exited"
    /\ UNCHANGED <<charVars, readerVars, localVars, history, fpgaVars, TxRoom, stop>>
-------------------------------------------------------------------------------
(* The FPGA's Rx DMA engine, the transmit path and kthread_stop *)

\* The engine takes the oldest descriptor out of its FIFO; the fill level drops.
FpgaStart ==
    /\ fifo # <<>> /\ Len(inflight) < InFlightMax
    /\ inflight' = Append(inflight, Head(fifo))
    /\ fifo' = Tail(fifo)
    /\ UNCHANGED <<charVars, readerVars, tpc, localVars, history, pRxDmaBuffs,
                   produced, TxRoom, stop>>

\* It has filled the buffer of the oldest descriptor with the next block.
FpgaComplete ==
    /\ inflight # <<>> /\ produced < MaxBlocks
    /\ pRxDmaBuffs' = [pRxDmaBuffs EXCEPT ![Head(inflight)] = produced]
    /\ produced' = produced + 1
    /\ inflight' = Tail(inflight)
    /\ UNCHANGED <<charVars, readerVars, tpc, localVars, history, fifo, TxRoom, stop>>

\* The transmit path fills its buffer to within DMABUFFSIZE bytes, or drains it.
TxRoomChanges ==
    /\ TxMayFill
    /\ TxRoom' = ~TxRoom
    /\ UNCHANGED <<charVars, readerVars, tpc, localVars, history, fpgaVars, stop>>

\* cdev_release of the last open file stops the thread.
StopThread ==
    /\ ~stop /\ \A r \in Readers : rpc[r] = "idle"
    /\ stop' = TRUE
    /\ UNCHANGED <<charVars, readerVars, tpc, localVars, history, fpgaVars, TxRoom>>
-------------------------------------------------------------------------------
ReaderStep(r) == ReadHasData(r) \/ ReadCopy(r) \/ ReadReturn(r)

RxThread ==
    \/ RxExitAtTop \/ RxSeesRoom \/ RxReadLevel \/ RxEnqueue \/ RxCountCompleted
    \/ RxFindsRoom \/ RxFindsNoRoom \/ RxCopy \/ RxAdvance \/ RxBottom
    \/ RxDrain \/ RxExitDrained

Fpga == FpgaStart \/ FpgaComplete

Next ==
    \/ \E r \in Readers : ReaderStep(r) \/ \E n \in ReadLens : ReadCall(r, n)
    \/ RxThread
    \/ Fpga
    \/ TxRoomChanges
    \/ StopThread

Spec == Init /\ [][Next]_vars

\* The scheduler runs every runnable process and kernel thread, and the radio goes
\* on delivering samples.  Nobody has to call read or close, and nothing is asked
\* of the transmit path.
Fairness ==
    /\ \A r \in Readers : WF_vars(ReaderStep(r))
    /\ WF_vars(RxThread)
    /\ WF_vars(FpgaStart) /\ WF_vars(FpgaComplete)

FairSpec == Spec /\ Fairness
-------------------------------------------------------------------------------
(* Correctness *)

RingIndex == 0 .. DMARXBUFFS - 1

\* Every variable keeps its type; BuffsToWrite in particular, which the loop
\* "for (; BuffsToWrite; BuffsToWrite--)" counts down to exactly zero.
TypeOK ==
    /\ cdev_read_buff \in [0 .. CDEVBUFFSIZE - 1 -> Int]
    /\ cdev_read_buff_start \in 0 .. CDEVBUFFSIZE - 1
    /\ cdev_read_buff_end \in 0 .. CDEVBUFFSIZE - 1
    /\ rpc \in [Readers -> {"idle", "wait", "copy", "advance"}]
    /\ len \in [Readers -> ReadLens \cup {0}]
    /\ got \in Seq(Int)
    /\ tpc \in {"poll", "level", "enqueue", "check", "copy", "advance", "drain",
                "exited"}
    /\ DescLevel \in 0 .. DMARXBUFFS - 1 /\ DescActive \in 0 .. DMARXBUFFS - 1
    /\ DescComp \in 0 .. DMARXBUFFS - 1
    /\ BuffStart \in RingIndex /\ BuffEnd \in RingIndex
    /\ BuffsToWrite \in 0 .. DMARXBUFFS - 1
    /\ pRxDmaBuffs \in [RingIndex -> Nat \cup {Unset}]
    /\ fifo \in Seq(RingIndex) /\ inflight \in Seq(RingIndex)
    /\ Len(fifo) <= DMARXDESCS /\ Len(inflight) <= InFlightMax
    /\ produced \in Nat /\ taken \in Nat /\ skipped \in Nat
    /\ TxRoom \in BOOLEAN /\ overrun \in BOOLEAN /\ stop \in BOOLEAN

\* The accounting dev_read_task does.  The descriptors in the FPGA name the
\* buffers just before BuffEnd, in ring order; and the buffers between BuffStart
\* and BuffEnd are those counted as active, those counted as completed, and one for
\* every round that found no room, which no counter remembers.
Before(b, k) == IF k <= b THEN b - k ELSE b - k + DMARXBUFFS

DescriptorsInRingOrder ==
    /\ \A i \in 1 .. Len(fifo) : fifo[i] = Before(BuffEnd, Len(fifo) - i + 1)
    /\ \A i \in 1 .. Len(inflight) :
         inflight[i] = Before(BuffEnd, Len(fifo) + Len(inflight) - i + 1)

PassAccounting ==
    /\ RingFilled = DescActive + DescComp + skipped
    /\ FillLevel <= DescActive
    /\ tpc = "enqueue" =>
         /\ FillLevel <= DescLevel /\ DescLevel <= DescActive
         /\ BuffsToWrite <= RingAvail /\ BuffsToWrite <= DMARXDESCS - DescLevel
    /\ tpc \in {"copy", "advance"} => DescComp > DMARXDESCDELAY

RingAccounting == DescriptorsInRingOrder /\ PassAccounting

\* The descriptors that name a buffer the FPGA may still fill.
Owned == {fifo[i] : i \in 1 .. Len(fifo)} \cup {inflight[i] : i \in 1 .. Len(inflight)}

\* The buffer the thread copies is complete and is the next block of the stream,
\* however the fill level, the transfers in progress and the skipped rounds fell:
\* the thread reads no buffer the FPGA still fills, skips none and repeats none.
TakesBlocksInOrder ==
    tpc = "copy" => BuffStart \notin Owned /\ pRxDmaBuffs[BuffStart] = taken

\* As long as no copy overran the unread bytes, a single reader receives the
\* stream from its first sample on, nothing lost, repeated or reordered.
ReadsContinueStream ==
    ~overrun => \A i \in 1 .. Len(got) : got[i] = i - 1

\* While the transmit path always leaves room in its own buffer, reception never
\* stops: the FPGA can deliver every block, as it is always given descriptors.
\* A stop request ends it, of course.
ReceptionContinues == []TxRoom => <>(produced = MaxBlocks \/ stop)

\* kthread_stop comes back while the radio delivers: the thread leaves its loop.
StopEnds == stop ~> (tpc = "exited" \/ produced = MaxBlocks)

\* langford.c:28-33: dev_read_task writes at cdev_read_buff_end while cdev_read reads
\* at cdev_read_buff_start, "which will never overlap due to wait loops", "Same
\* applies to Read thread and cdev_read".
CopiesNeverOverlap ==
    \A r \in Readers :
        rpc[r] = "copy" /\ tpc = "copy" =>
            Region(cdev_read_buff_start, len[r], CDEVBUFFSIZE)
              \cap Region(cdev_read_buff_end, DMABUFFSIZE, CDEVBUFFSIZE) = {}

\* langford.c:251: a stopped thread has waited for the remaining Rx transfers, so
\* that cdev_release may free the buffers.
ExitLeavesNoDescriptor == tpc = "exited" => fifo = <<>>
===============================================================================
