---------------------------- MODULE RxStreamProofs ----------------------------
(***************************************************************************)
(* Theorems about RxStream, for every size of the buffers, every number of *)
(* DMA buffers and descriptors and any stream.                             *)
(*                                                                         *)
(* Of the buffers between BuffStart and BuffEnd the newest are in the      *)
(* FPGA, named by its descriptors; the others, Complete of them, hold the  *)
(* blocks that are still to be taken, in order (BlocksInOrder).  In the    *)
(* byte ring the unread samples continue what the reader has got           *)
(* (StreamInOrder).                                                        *)
(***************************************************************************)
EXTENDS RxStream, CircBuffProofs

InFpga == Len(fifo) + Len(inflight)
Complete == RingFilled - InFpga

BlocksInOrder ==
    /\ 0 <= Complete /\ produced = taken + Complete
    /\ \A k \in 1 .. Complete : pRxDmaBuffs[Before(BuffEnd, InFpga + k)] = produced - k

RxInv == TypeOK /\ RingAccounting /\ BlocksInOrder

\* The samples taken from the byte ring, by calls that have returned.
Returned == taken * DMABUFFSIZE - ReadFilled

StreamInOrder ==
    ~overrun =>
        /\ \A i \in 1 .. Len(got) : got[i] = i - 1
        /\ \A i \in 0 .. ReadFilled - 1 :
             cdev_read_buff[Advance(cdev_read_buff_start, i, CDEVBUFFSIZE)] = Returned + i
        /\ tpc = "advance" =>
             /\ DMABUFFSIZE <= ReadAvail
             /\ \A i \in 0 .. DMABUFFSIZE - 1 :
                  cdev_read_buff[Advance(cdev_read_buff_end, i, CDEVBUFFSIZE)]
                    = taken * DMABUFFSIZE + i
        /\ \A r \in Readers :
             /\ rpc[r] \in {"copy", "advance"} => len[r] <= ReadFilled
             /\ rpc[r] = "advance" => Len(got) = Returned + len[r]
        /\ (\A r \in Readers : rpc[r] # "advance") => Len(got) = Returned
-------------------------------------------------------------------------------
(* Sizes, counts and the ring order *)

\* The sizes as positive naturals, the form the lemmas of CircBuffProofs ask for.
LEMMA Sizes ==
    /\ CDEVBUFFSIZE \in Nat \ {0} /\ DMARXBUFFS \in Nat \ {0}
    /\ DMABUFFSIZE \in Nat \ {0} /\ DMABUFFSIZE \in 0 .. CDEVBUFFSIZE
    /\ DMARXDESCS \in Nat /\ DMARXDESCDELAY \in Nat
    /\ InFlightMax \in 1 .. DMARXDESCDELAY
    /\ 1 \in 0 .. DMARXBUFFS
  BY SizeAssumption, RingAssumption, HardwareAssumption

\* The numbers the accounting is about are naturals, and their bounds.
Numbers ==
    /\ BuffStart \in 0 .. DMARXBUFFS - 1 /\ BuffEnd \in 0 .. DMARXBUFFS - 1
    /\ Len(fifo) \in 0 .. DMARXDESCS /\ Len(inflight) \in 0 .. InFlightMax
    /\ FillLevel = Len(fifo) /\ InFpga = Len(fifo) + Len(inflight)
    /\ RingFilled \in 0 .. DMARXBUFFS - 1 /\ RingAvail \in 0 .. DMARXBUFFS - 1
    /\ RingFilled + RingAvail = DMARXBUFFS - 1
    /\ Complete = RingFilled - InFpga
    /\ DescLevel \in 0 .. DMARXBUFFS - 1 /\ DescActive \in 0 .. DMARXBUFFS - 1
    /\ DescComp \in 0 .. DMARXBUFFS - 1 /\ BuffsToWrite \in 0 .. DMARXBUFFS - 1
    /\ produced \in Nat /\ taken \in Nat /\ skipped \in Nat

LEMMA Counts == TypeOK => Numbers
<1> SUFFICES ASSUME TypeOK PROVE Numbers
  OBVIOUS
<1>1. BuffStart \in 0 .. DMARXBUFFS - 1 /\ BuffEnd \in 0 .. DMARXBUFFS - 1
  BY DEF TypeOK, RingIndex
<1>2. Len(fifo) \in 0 .. DMARXDESCS /\ Len(inflight) \in 0 .. InFlightMax
  BY Sizes DEF TypeOK
<1>3. /\ RingFilled \in 0 .. DMARXBUFFS - 1 /\ RingAvail \in 0 .. DMARXBUFFS - 1
      /\ RingFilled + RingAvail = DMARXBUFFS - 1
  BY <1>1, Sizes, FilledBounds DEF RingFilled, RingAvail
<1>4. QED
  BY <1>1, <1>2, <1>3 DEF Numbers, TypeOK, FillLevel, InFpga, Complete

\* Going back k buffers from b stays in the ring, and reaches every buffer once.
LEMMA BeforeInRing ==
    ASSUME NEW b \in 0 .. DMARXBUFFS - 1, NEW k \in 0 .. DMARXBUFFS
    PROVE  Before(b, k) \in 0 .. DMARXBUFFS - 1
  BY Sizes DEF Before

LEMMA BeforeInjective ==
    ASSUME NEW b \in 0 .. DMARXBUFFS - 1, NEW j \in 1 .. DMARXBUFFS, NEW k \in 1 .. DMARXBUFFS,
           Before(b, j) = Before(b, k)
    PROVE  j = k
  BY Sizes DEF Before

\* Moving BuffEnd on by one puts every buffer before it one place further back.
LEMMA BeforeShift ==
    ASSUME NEW b \in 0 .. DMARXBUFFS - 1, NEW k \in 0 .. DMARXBUFFS - 1
    PROVE  Before(Advance(b, 1, DMARXBUFFS), k + 1) = Before(b, k)
<1>1. Advance(b, 1, DMARXBUFFS) = IF b + 1 < DMARXBUFFS THEN b + 1 ELSE b + 1 - DMARXBUFFS
  BY Sizes, AdvanceWraps
<1>2. QED
  BY <1>1, Sizes DEF Before

\* The oldest buffer in use is BuffStart.
LEMMA StartIsOldest ==
    ASSUME TypeOK
    PROVE  Before(BuffEnd, RingFilled) = BuffStart
<1>1. BuffStart \in 0 .. DMARXBUFFS - 1 /\ BuffEnd \in 0 .. DMARXBUFFS - 1
  BY Counts DEF Numbers
<1>2. QED
  BY <1>1, Sizes DEF Before, RingFilled, CircBuffFilled

\* A reader's length is a natural number.
LEMMA LenIsNat ==
    ASSUME TypeOK, NEW r \in Readers
    PROVE  len[r] \in Nat
<1>1. len[r] \in ReadLens \cup {0} /\ \A n \in ReadLens : n \in Nat
  BY SizeAssumption DEF TypeOK
<1>2. QED
  BY <1>1

\* The blocks and the ring order read nothing else than these.
LEMMA RingFrame ==
    ASSUME RxInv, UNCHANGED <<fifo, inflight, BuffStart, BuffEnd, pRxDmaBuffs, produced, taken>>
    PROVE  /\ DescriptorsInRingOrder' /\ BlocksInOrder'
           /\ RingFilled' = RingFilled /\ FillLevel' = FillLevel
<1>1. /\ RingFilled' = RingFilled /\ FillLevel' = FillLevel /\ Complete' = Complete
      /\ InFpga' = InFpga
  BY DEF RingFilled, FillLevel, Complete, InFpga
<1>2. DescriptorsInRingOrder'
  BY DEF RxInv, RingAccounting, DescriptorsInRingOrder, Before
<1>3. BlocksInOrder'
  BY <1>1 DEF RxInv, BlocksInOrder, Before
<1>4. QED
  BY <1>1, <1>2, <1>3
-------------------------------------------------------------------------------
(* Every step keeps the types, the accounting and the blocks. *)

LEMMA InitRxInv == Init => RxInv
<1> SUFFICES ASSUME Init PROVE RxInv
  OBVIOUS
<1> USE DEF Init
<1>1. TypeOK
  <2>1. /\ cdev_read_buff \in [0 .. CDEVBUFFSIZE - 1 -> Int]
        /\ pRxDmaBuffs \in [RingIndex -> Nat \cup {Unset}]
    BY DEF RingIndex, Unset
  <2>2. /\ fifo \in Seq(RingIndex) /\ inflight \in Seq(RingIndex) /\ got \in Seq(Int)
        /\ Len(fifo) <= DMARXDESCS /\ Len(inflight) <= InFlightMax
    BY Sizes
  <2>3. /\ 0 \in 0 .. CDEVBUFFSIZE - 1 /\ 0 \in 0 .. DMARXBUFFS - 1 /\ 0 \in RingIndex
    BY Sizes DEF RingIndex
  <2>4. QED
    BY <2>1, <2>2, <2>3 DEF TypeOK
<1>2. RingFilled = 0 /\ FillLevel = 0 /\ InFpga = 0 /\ Complete = 0
  <2>1. RingFilled = 0
    BY Sizes DEF RingFilled, CircBuffFilled
  <2>2. FillLevel = 0 /\ InFpga = 0
    BY DEF FillLevel, InFpga
  <2>3. QED
    BY <2>1, <2>2 DEF Complete
<1>3. RingAccounting
  BY <1>2 DEF RingAccounting, DescriptorsInRingOrder, PassAccounting
<1>4. BlocksInOrder
  BY <1>2 DEF BlocksInOrder
<1>5. QED
  BY <1>1, <1>3, <1>4 DEF RxInv

\* The steps of a reader.
LEMMA ReaderKeepsRxInv ==
    ASSUME RxInv, NEW r \in Readers, ReaderStep(r) \/ \E n \in ReadLens : ReadCall(r, n)
    PROVE  RxInv'
<1>1. UNCHANGED <<tpc, localVars, history, fpgaVars, TxRoom, stop>>
  BY DEF ReaderStep, ReadCall, ReadHasData, ReadCopy, ReadReturn
<1>2. DescriptorsInRingOrder' /\ BlocksInOrder' /\ RingFilled' = RingFilled
      /\ FillLevel' = FillLevel
  BY <1>1, RingFrame DEF localVars, fpgaVars, history
<1>3. PassAccounting'
  BY <1>1, <1>2 DEF RxInv, RingAccounting, PassAccounting, localVars, history, RingAvail,
                    RingFilled
<1>4. SUFFICES /\ cdev_read_buff' \in [0 .. CDEVBUFFSIZE - 1 -> Int]
               /\ cdev_read_buff_start' \in 0 .. CDEVBUFFSIZE - 1
               /\ cdev_read_buff_end' \in 0 .. CDEVBUFFSIZE - 1
               /\ rpc' \in [Readers -> {"idle", "wait", "copy", "advance"}]
               /\ len' \in [Readers -> ReadLens \cup {0}] /\ got' \in Seq(Int)
  <2>1. TypeOK'
    BY <1>1, <1>4 DEF RxInv, TypeOK, localVars, history, fpgaVars
  <2>2. QED
    BY <1>2, <1>3, <2>1 DEF RxInv, RingAccounting
<1>5. TypeOK
  BY DEF RxInv
<1>6. ASSUME NEW n \in ReadLens, ReadCall(r, n) PROVE <1>4!1
  BY <1>5, <1>6 DEF ReadCall, TypeOK, charVars
<1>7. CASE ReadHasData(r)
  BY <1>5, <1>7 DEF ReadHasData, TypeOK, charVars
<1>8. CASE ReadCopy(r)
  <2>1. ASSUME NEW i \in 1 .. len[r]
        PROVE  cdev_read_buff[Advance(cdev_read_buff_start, i - 1, CDEVBUFFSIZE)] \in Int
    <3>1. cdev_read_buff_start \in 0 .. CDEVBUFFSIZE - 1 /\ len[r] \in Nat
      BY <1>5, LenIsNat DEF TypeOK
    <3>2. Advance(cdev_read_buff_start, i - 1, CDEVBUFFSIZE) \in 0 .. CDEVBUFFSIZE - 1
      BY <3>1, Sizes DEF Advance
    <3>3. QED
      BY <1>5, <3>2 DEF TypeOK
  <2>2. [i \in 1 .. len[r] |-> cdev_read_buff[Advance(cdev_read_buff_start, i - 1, CDEVBUFFSIZE)]]
          \in Seq(Int)
    BY <1>5, <2>1, LenIsNat
  <2>3. got' \in Seq(Int)
    BY <1>5, <1>8, <2>2 DEF ReadCopy, TypeOK
  <2>4. QED
    BY <1>5, <1>8, <2>3 DEF ReadCopy, TypeOK, charVars
<1>9. CASE ReadReturn(r)
  <2>1. cdev_read_buff_start' \in 0 .. CDEVBUFFSIZE - 1
    BY <1>5, <1>9, LenIsNat, Sizes, SMTT(60) DEF ReadReturn, Advance, TypeOK
  <2>2. QED
    BY <1>5, <1>9, <2>1 DEF ReadReturn, TypeOK
<1>10. QED
  BY <1>6, <1>7, <1>8, <1>9 DEF ReaderStep

\* The steps of dev_read_task that only move its pc and its counters.
LEMMA CountingKeepsRxInv ==
    ASSUME RxInv,
           \/ RxExitAtTop \/ RxSeesRoom \/ RxReadLevel \/ RxCountCompleted \/ RxFindsRoom
           \/ RxFindsNoRoom \/ RxBottom \/ RxDrain \/ RxExitDrained
    PROVE  RxInv'
<1>1. /\ UNCHANGED <<charVars, readerVars, fifo, inflight, pRxDmaBuffs, produced, TxRoom, stop>>
      /\ UNCHANGED <<BuffStart, BuffEnd, taken, overrun>>
  BY DEF RxExitAtTop, RxSeesRoom, RxReadLevel, RxCountCompleted, RxFindsRoom, RxFindsNoRoom,
         RxBottom, RxDrain, RxExitDrained, localVars, history, fpgaVars
<1>2. DescriptorsInRingOrder' /\ BlocksInOrder' /\ RingFilled' = RingFilled
      /\ FillLevel' = FillLevel
  BY <1>1, RingFrame
<1>3. TypeOK /\ PassAccounting /\ RingAvail' = RingAvail
  BY <1>1 DEF RxInv, RingAccounting, RingAvail
<1>n. Numbers
  BY <1>3, Counts
<1> USE Sizes, <1>n DEF Numbers
<1>4. SUFFICES /\ PassAccounting'
               /\ tpc' \in {"poll", "level", "enqueue", "check", "copy", "advance", "drain",
                            "exited"}
               /\ DescLevel' \in 0 .. DMARXBUFFS - 1 /\ DescActive' \in 0 .. DMARXBUFFS - 1
               /\ DescComp' \in 0 .. DMARXBUFFS - 1 /\ BuffsToWrite' \in 0 .. DMARXBUFFS - 1
               /\ skipped' \in Nat
  <2>1. TypeOK'
    BY <1>1, <1>3, <1>4 DEF TypeOK, charVars, readerVars
  <2>2. QED
    BY <1>2, <1>4, <2>1 DEF RxInv, RingAccounting
<1>5. CASE RxExitAtTop \/ RxSeesRoom \/ RxBottom \/ RxExitDrained
  BY <1>1, <1>2, <1>3, <1>5 DEF RxExitAtTop, RxSeesRoom, RxBottom, RxExitDrained, localVars,
                                history, PassAccounting
<1>6. CASE RxReadLevel
  <2>1. /\ DescLevel' = FillLevel /\ DescActive' = DescActive /\ DescComp' = DescComp
        /\ BuffsToWrite' = MinOf(DMARXDESCS - FillLevel, RingAvail)
        /\ tpc' = "enqueue" /\ skipped' = skipped
    BY <1>6 DEF RxReadLevel, history
  <2>2. /\ RingFilled = DescActive + DescComp + skipped /\ FillLevel <= DescActive
    BY <1>3 DEF PassAccounting
  <2>3. /\ BuffsToWrite' <= RingAvail /\ BuffsToWrite' <= DMARXDESCS - DescLevel'
        /\ BuffsToWrite' \in 0 .. DMARXBUFFS - 1
    BY <1>3, <2>1 DEF MinOf
  <2>4. QED
    BY <1>2, <1>3, <2>1, <2>2, <2>3 DEF PassAccounting
<1>7. CASE RxCountCompleted
  <2>1. /\ DescComp' = DescComp + DescActive - DescLevel /\ DescActive' = DescLevel
        /\ DescLevel' = DescLevel /\ BuffsToWrite' = BuffsToWrite
        /\ tpc = "enqueue" /\ tpc' = "check" /\ skipped' = skipped
    BY <1>7 DEF RxCountCompleted, history
  <2>2. /\ RingFilled = DescActive + DescComp + skipped
        /\ FillLevel <= DescLevel /\ DescLevel <= DescActive
    BY <1>3, <2>1 DEF PassAccounting
  <2>3. DescComp' \in 0 .. DMARXBUFFS - 1
    BY <1>3, <2>1, <2>2
  <2>4. QED
    BY <1>2, <1>3, <2>1, <2>2, <2>3 DEF PassAccounting
<1>8. CASE RxFindsRoom
  BY <1>1, <1>2, <1>3, <1>8 DEF RxFindsRoom, localVars, history, PassAccounting
<1>9. CASE RxFindsNoRoom
  <2>1. /\ DescComp' = DescComp - 1 /\ skipped' = skipped + 1 /\ DescActive' = DescActive
        /\ DescLevel' = DescLevel /\ BuffsToWrite' = BuffsToWrite
        /\ tpc = "check" /\ tpc' = "check" /\ DescComp > DMARXDESCDELAY
    BY <1>9 DEF RxFindsNoRoom
  <2>2. DescComp' \in 0 .. DMARXBUFFS - 1
    BY <1>3, <2>1
  <2>3. QED
    BY <1>2, <1>3, <2>1, <2>2 DEF PassAccounting
<1>10. CASE RxDrain
  <2>1. /\ DescLevel' = FillLevel /\ UNCHANGED <<DescComp, DescActive, BuffsToWrite, skipped>>
        /\ tpc' = "drain"
    BY <1>10 DEF RxDrain, history
  <2>2. FillLevel <= DescActive
    BY <1>3 DEF PassAccounting
  <2>3. QED
    BY <1>2, <1>3, <2>1, <2>2 DEF PassAccounting
<1>11. QED
  BY <1>5, <1>6, <1>7, <1>8, <1>9, <1>10

\* At a copy more than the delay is counted as complete: at least one buffer is.
LEMMA CopyFindsBlock ==
    ASSUME RxInv, tpc \in {"copy", "advance"}
    PROVE  /\ 1 <= Complete /\ RingFilled >= 1
           /\ pRxDmaBuffs[BuffStart] = taken
<1>1. Numbers
  BY Counts DEF RxInv
<1>2. /\ RingFilled = DescActive + DescComp + skipped /\ FillLevel <= DescActive
      /\ DescComp > DMARXDESCDELAY
  BY DEF RxInv, RingAccounting, PassAccounting
<1>3. 1 <= Complete /\ RingFilled >= 1
  BY <1>1, <1>2, Sizes DEF Numbers
<1>4. pRxDmaBuffs[Before(BuffEnd, InFpga + Complete)] = produced - Complete
  <2>1. Complete \in 1 .. Complete
    BY <1>1, <1>3 DEF Numbers
  <2>2. QED
    BY <2>1 DEF RxInv, BlocksInOrder
<1>5. InFpga + Complete = RingFilled /\ produced - Complete = taken
  BY <1>1 DEF RxInv, BlocksInOrder, Numbers
<1>6. QED
  BY <1>3, <1>4, <1>5, StartIsOldest DEF RxInv

\* Copying a buffer into the byte ring.
LEMMA CopyKeepsRxInv ==
    ASSUME RxInv, RxCopy
    PROVE  RxInv'
<1>1. /\ UNCHANGED <<readerVars, localVars, fpgaVars, taken, skipped, TxRoom, stop>>
      /\ UNCHANGED <<cdev_read_buff_start, cdev_read_buff_end>>
      /\ tpc = "copy" /\ tpc' = "advance"
  BY DEF RxCopy
<1>2. DescriptorsInRingOrder' /\ BlocksInOrder' /\ RingFilled' = RingFilled
      /\ FillLevel' = FillLevel
  BY <1>1, RingFrame DEF localVars, fpgaVars
<1>3. TypeOK /\ Numbers
  BY Counts DEF RxInv
<1>4. PassAccounting'
  BY <1>1, <1>2 DEF RxInv, RingAccounting, PassAccounting, localVars
<1>5. cdev_read_buff' \in [0 .. CDEVBUFFSIZE - 1 -> Int] /\ overrun' \in BOOLEAN
  <2>1. ASSUME NEW c \in 0 .. CDEVBUFFSIZE - 1
        PROVE  cdev_read_buff'[c] \in Int
    <3>1. cdev_read_buff_end \in 0 .. CDEVBUFFSIZE - 1 /\ cdev_read_buff[c] \in Int
      BY <1>3 DEF TypeOK
    <3>2. CircBuffFilled(cdev_read_buff_end, c, CDEVBUFFSIZE) \in Int
      BY <3>1, Sizes DEF CircBuffFilled
    <3>3. taken * DMABUFFSIZE \in Int
      BY <1>3, Sizes DEF Numbers
    <3>4. pRxDmaBuffs[BuffStart] = taken
      BY <1>1, CopyFindsBlock
    <3>5. QED
      BY <3>1, <3>2, <3>3, <3>4 DEF RxCopy
  <2>2. cdev_read_buff' = [c \in 0 .. CDEVBUFFSIZE - 1 |-> cdev_read_buff'[c]]
    BY DEF RxCopy
  <2>3. overrun' \in BOOLEAN
    BY <1>3 DEF RxCopy, TypeOK
  <2>4. QED
    BY <2>1, <2>2, <2>3
<1>6. TypeOK'
  BY <1>1, <1>3, <1>5 DEF TypeOK, readerVars, localVars, fpgaVars
<1>7. QED
  BY <1>2, <1>4, <1>6 DEF RxInv, RingAccounting

\* Taking it off the ring: the oldest complete buffer is free again.
LEMMA AdvanceKeepsRxInv ==
    ASSUME RxInv, RxAdvance
    PROVE  RxInv'
<1>1. /\ UNCHANGED <<cdev_read_buff, cdev_read_buff_start, DescLevel, DescActive, BuffEnd,
                     BuffsToWrite, readerVars, skipped, overrun, fpgaVars, TxRoom, stop>>
      /\ tpc = "advance" /\ tpc' = "check" /\ taken' = taken + 1 /\ DescComp' = DescComp - 1
      /\ BuffStart' = Advance(BuffStart, 1, DMARXBUFFS)
      /\ cdev_read_buff_end' = Advance(cdev_read_buff_end, DMABUFFSIZE, CDEVBUFFSIZE)
  BY DEF RxAdvance
<1>2. TypeOK /\ Numbers
  BY Counts DEF RxInv
<1>3. 1 <= Complete /\ RingFilled >= 1
  BY <1>1, CopyFindsBlock
<1>4. RingFilled' = RingFilled - 1
  <2>1. BuffStart \in 0 .. DMARXBUFFS - 1 /\ BuffEnd \in 0 .. DMARXBUFFS - 1
        /\ 1 \in 0 .. CircBuffFilled(BuffStart, BuffEnd, DMARXBUFFS)
    BY <1>2, <1>3 DEF Numbers, RingFilled
  <2>2. QED
    BY <1>1, <2>1, Sizes, FilledAfterConsume DEF RingFilled
<1>5. FillLevel' = FillLevel /\ InFpga' = InFpga /\ Complete' = Complete - 1
  <2>1. FillLevel' = FillLevel /\ InFpga' = InFpga
    BY <1>1 DEF FillLevel, InFpga, fpgaVars
  <2>2. QED
    BY <1>2, <1>4, <2>1 DEF Complete, Numbers
<1>6. DescriptorsInRingOrder'
  BY <1>1 DEF RxInv, RingAccounting, DescriptorsInRingOrder, Before, fpgaVars
<1>7. PassAccounting'
  <2>1. /\ RingFilled = DescActive + DescComp + skipped /\ FillLevel <= DescActive
    BY DEF RxInv, RingAccounting, PassAccounting
  <2>2. QED
    BY <1>1, <1>2, <1>4, <1>5, <2>1 DEF PassAccounting, Numbers
<1>8. BlocksInOrder'
  <2>1. 0 <= Complete' /\ produced' = taken' + Complete'
    BY <1>1, <1>2, <1>3, <1>5 DEF RxInv, BlocksInOrder, Numbers, fpgaVars
  <2>2. ASSUME NEW k \in 1 .. Complete'
        PROVE  pRxDmaBuffs'[Before(BuffEnd, InFpga + k)'] = produced' - k
    <3>1. k \in 1 .. Complete
      BY <1>2, <1>5 DEF Numbers
    <3>2. QED
      BY <1>1, <1>5, <3>1 DEF RxInv, BlocksInOrder, Before, fpgaVars
  <2>3. QED
    BY <1>1, <1>5, <2>1, <2>2 DEF BlocksInOrder, Before
<1>9. TypeOK'
  <2>1. BuffStart' \in RingIndex
    BY <1>1, <1>2, Sizes, AdvanceWraps DEF Numbers, RingIndex
  <2>2. cdev_read_buff_end' \in 0 .. CDEVBUFFSIZE - 1
    BY <1>1, <1>2, Sizes, AdvanceWraps DEF TypeOK
  <2>3. DescComp' \in 0 .. DMARXBUFFS - 1
    <3>1. DescComp > DMARXDESCDELAY
      BY <1>1 DEF RxInv, RingAccounting, PassAccounting
    <3>2. QED
      BY <1>1, <1>2, <3>1, Sizes DEF Numbers
  <2>4. taken' \in Nat
    BY <1>1, <1>2 DEF Numbers
  <2>5. QED
    BY <1>1, <1>2, <2>1, <2>2, <2>3, <2>4 DEF TypeOK, readerVars, fpgaVars
<1>10. QED
  BY <1>6, <1>7, <1>8, <1>9 DEF RxInv, RingAccounting

\* Queuing a descriptor: a free buffer becomes the newest in use.
LEMMA EnqueueKeepsRxInv ==
    ASSUME RxInv, RxEnqueue
    PROVE  RxInv'
<1>1. /\ UNCHANGED <<tpc, DescComp, BuffStart, charVars, readerVars, history, pRxDmaBuffs,
                     inflight, produced, TxRoom, stop>>
      /\ tpc = "enqueue" /\ BuffsToWrite # 0
      /\ fifo' = Append(fifo, BuffEnd) /\ BuffEnd' = Advance(BuffEnd, 1, DMARXBUFFS)
      /\ DescActive' = DescActive + 1 /\ DescLevel' = DescLevel + 1
      /\ BuffsToWrite' = BuffsToWrite - 1
  BY DEF RxEnqueue
<1>2. TypeOK /\ Numbers
  BY Counts DEF RxInv
<1>3. /\ RingFilled = DescActive + DescComp + skipped
      /\ FillLevel <= DescLevel /\ DescLevel <= DescActive
      /\ BuffsToWrite <= RingAvail /\ BuffsToWrite <= DMARXDESCS - DescLevel
  BY <1>1 DEF RxInv, RingAccounting, PassAccounting
<1>4. 1 <= RingAvail /\ BuffsToWrite >= 1
  BY <1>1, <1>2, <1>3 DEF Numbers
<1>5. RingFilled' = RingFilled + 1 /\ RingAvail' = RingAvail - 1
  <2>1. BuffStart \in 0 .. DMARXBUFFS - 1 /\ BuffEnd \in 0 .. DMARXBUFFS - 1
        /\ 1 \in 0 .. CircBuffAvail(BuffStart, BuffEnd, DMARXBUFFS)
    BY <1>2, <1>4 DEF Numbers, RingAvail
  <2>2. RingFilled' = RingFilled + 1
    BY <1>1, <2>1, Sizes, FilledAfterProduce DEF RingFilled
  <2>3. QED
    BY <1>2, <2>2, Sizes, SMTT(60) DEF RingAvail, RingFilled, CircBuffAvail, Numbers
<1>6. /\ fifo' \in Seq(RingIndex) /\ Len(fifo') = Len(fifo) + 1
      /\ \A i \in 1 .. Len(fifo) : fifo'[i] = fifo[i]
      /\ fifo'[Len(fifo) + 1] = BuffEnd
  BY <1>1, <1>2 DEF TypeOK
<1>7. FillLevel' = FillLevel + 1 /\ InFpga' = InFpga + 1 /\ Complete' = Complete
  <2>1. FillLevel' = FillLevel + 1 /\ InFpga' = InFpga + 1
    BY <1>1, <1>2, <1>6 DEF FillLevel, InFpga, Numbers
  <2>2. QED
    BY <1>2, <1>5, <2>1 DEF Complete, Numbers
<1>8. InFpga <= RingFilled /\ InFpga \in Nat
  BY <1>2, SMTT(60) DEF RxInv, BlocksInOrder, Numbers
<1>9. \A k \in 0 .. DMARXBUFFS - 1 : Before(BuffEnd', k + 1) = Before(BuffEnd, k)
  BY <1>1, <1>2, BeforeShift DEF Numbers
<1>10. DescriptorsInRingOrder'
  <2>1. ASSUME NEW i \in 1 .. Len(fifo') PROVE fifo'[i] = Before(BuffEnd', Len(fifo') - i + 1)
    <3>1. CASE i = Len(fifo) + 1
      <4>1. Before(BuffEnd', 0 + 1) = Before(BuffEnd, 0)
        BY <1>9, Sizes
      <4>2. Before(BuffEnd, 0) = BuffEnd
        BY <1>2 DEF Before, Numbers
      <4>3. Len(fifo') - i + 1 = 0 + 1
        BY <1>2, <1>6, <3>1 DEF Numbers
      <4>4. QED
        BY <1>6, <3>1, <4>1, <4>2, <4>3
    <3>2. CASE i \in 1 .. Len(fifo)
      <4>1. fifo'[i] = Before(BuffEnd, Len(fifo) - i + 1)
        BY <1>6, <3>2 DEF RxInv, RingAccounting, DescriptorsInRingOrder
      <4>2. Len(fifo) - i + 1 \in 0 .. DMARXBUFFS - 1
        BY <1>2, <1>8, <3>2, SMTT(60) DEF Numbers
      <4>3. Before(BuffEnd', (Len(fifo) - i + 1) + 1) = Before(BuffEnd, Len(fifo) - i + 1)
        BY <1>9, <4>2
      <4>4. (Len(fifo) - i + 1) + 1 = Len(fifo') - i + 1
        BY <1>2, <1>6, <3>2 DEF Numbers
      <4>5. QED
        BY <4>1, <4>3, <4>4
    <3>3. QED
      BY <1>2, <1>6, <3>1, <3>2, SMTT(60) DEF Numbers
  <2>2. ASSUME NEW i \in 1 .. Len(inflight)
        PROVE  inflight[i] = Before(BuffEnd', Len(fifo') + Len(inflight) - i + 1)
    <3>1. inflight[i] = Before(BuffEnd, Len(fifo) + Len(inflight) - i + 1)
      BY DEF RxInv, RingAccounting, DescriptorsInRingOrder
    <3>2. Len(fifo) + Len(inflight) - i + 1 \in 0 .. DMARXBUFFS - 1
      BY <1>2, <1>8, SMTT(60) DEF Numbers
    <3>3. Before(BuffEnd', (Len(fifo) + Len(inflight) - i + 1) + 1) =
          Before(BuffEnd, Len(fifo) + Len(inflight) - i + 1)
      BY <1>9, <3>2
    <3>4. (Len(fifo) + Len(inflight) - i + 1) + 1 = Len(fifo') + Len(inflight) - i + 1
      BY <1>2, <1>6 DEF Numbers
    <3>5. QED
      BY <3>1, <3>3, <3>4
  <2>3. QED
    BY <1>1, <2>1, <2>2 DEF DescriptorsInRingOrder, Before
<1>11. PassAccounting'
  <2>1. /\ RingFilled' = DescActive' + DescComp' + skipped' /\ FillLevel' <= DescActive'
        /\ FillLevel' <= DescLevel' /\ DescLevel' <= DescActive'
    BY <1>1, <1>2, <1>3, <1>5, <1>7 DEF Numbers, history
  <2>2. BuffsToWrite' <= RingAvail' /\ BuffsToWrite' <= DMARXDESCS - DescLevel'
    BY <1>1, <1>2, <1>3, <1>5, Sizes DEF Numbers
  <2>3. tpc' = "enqueue"
    BY <1>1
  <2>4. QED
    BY <2>1, <2>2, <2>3 DEF PassAccounting
<1>12. BlocksInOrder'
  <2>1. 0 <= Complete' /\ produced' = taken' + Complete'
    BY <1>1, <1>7 DEF RxInv, BlocksInOrder, history
  <2>2. ASSUME NEW k \in 1 .. Complete
        PROVE  pRxDmaBuffs[Before(BuffEnd', InFpga' + k)] = produced - k
    <3>1. InFpga + k \in 0 .. DMARXBUFFS - 1 /\ InFpga' + k = (InFpga + k) + 1
      BY <1>2, <1>7, <1>8, SMTT(60) DEF Numbers
    <3>2. Before(BuffEnd', InFpga' + k) = Before(BuffEnd, InFpga + k)
      BY <1>9, <3>1
    <3>3. QED
      BY <3>2 DEF RxInv, BlocksInOrder
  <2>3. QED
    BY <1>1, <1>7, <2>1, <2>2 DEF BlocksInOrder, Before
<1>13. TypeOK'
  <2>1. BuffEnd' \in RingIndex
    BY <1>1, <1>2, Sizes, AdvanceWraps DEF RingIndex, Numbers
  <2>2. Len(fifo') <= DMARXDESCS
    BY <1>2, <1>3, <1>4, <1>6, Sizes DEF Numbers
  <2>3. /\ DescLevel' \in 0 .. DMARXBUFFS - 1 /\ DescActive' \in 0 .. DMARXBUFFS - 1
        /\ BuffsToWrite' \in 0 .. DMARXBUFFS - 1
    BY <1>1, <1>2, <1>3, <1>4, SMTT(60) DEF Numbers
  <2>4. QED
    BY <1>1, <1>2, <1>6, <2>1, <2>2, <2>3 DEF TypeOK, charVars, readerVars, history
<1>14. QED
  BY <1>10, <1>11, <1>12, <1>13 DEF RxInv, RingAccounting

\* The FPGA takes the oldest queued descriptor: its place in the ring order stays.
LEMMA FpgaStartKeepsRxInv ==
    ASSUME RxInv, FpgaStart
    PROVE  RxInv'
<1>1. /\ fifo # <<>> /\ Len(inflight) < InFlightMax
      /\ inflight' = Append(inflight, Head(fifo)) /\ fifo' = Tail(fifo)
      /\ UNCHANGED <<charVars, readerVars, tpc, localVars, history, pRxDmaBuffs, produced,
                     TxRoom, stop>>
  BY DEF FpgaStart
<1>2. TypeOK /\ Numbers
  BY Counts DEF RxInv
<1>3. fifo \in Seq(RingIndex) /\ inflight \in Seq(RingIndex)
  BY <1>2 DEF TypeOK
<1>4. /\ fifo' \in Seq(RingIndex) /\ Len(fifo') = Len(fifo) - 1
      /\ \A i \in 1 .. Len(fifo') : fifo'[i] = fifo[i + 1]
  BY <1>1, <1>3
<1>5. Head(fifo) = fifo[1] /\ Head(fifo) \in RingIndex /\ Len(fifo) >= 1
  BY <1>1, <1>3
<1>6. /\ inflight' \in Seq(RingIndex) /\ Len(inflight') = Len(inflight) + 1
      /\ \A i \in 1 .. Len(inflight) : inflight'[i] = inflight[i]
      /\ inflight'[Len(inflight) + 1] = fifo[1]
  BY <1>1, <1>3, <1>5
<1>7. /\ InFpga' = InFpga /\ RingFilled' = RingFilled /\ Complete' = Complete
      /\ FillLevel' = FillLevel - 1
  <2>1. FillLevel' = FillLevel - 1 /\ InFpga' = InFpga
    BY <1>2, <1>4, <1>6 DEF FillLevel, InFpga, Numbers
  <2>2. RingFilled' = RingFilled
    BY <1>1 DEF RingFilled, localVars
  <2>3. QED
    BY <2>1, <2>2 DEF Complete
<1>8. DescriptorsInRingOrder'
  <2>1. ASSUME NEW i \in 1 .. Len(fifo') PROVE fifo'[i] = Before(BuffEnd, Len(fifo') - i + 1)
    <3>1. i + 1 \in 1 .. Len(fifo) /\ Len(fifo) - (i + 1) + 1 = Len(fifo') - i + 1
      BY <1>2, <1>4 DEF Numbers
    <3>2. fifo[i + 1] = Before(BuffEnd, Len(fifo) - (i + 1) + 1)
      BY <3>1 DEF RxInv, RingAccounting, DescriptorsInRingOrder
    <3>3. QED
      BY <1>4, <3>1, <3>2
  <2>2. ASSUME NEW i \in 1 .. Len(inflight')
        PROVE  inflight'[i] = Before(BuffEnd, Len(fifo') + Len(inflight') - i + 1)
    <3>1. Len(fifo') + Len(inflight') = Len(fifo) + Len(inflight)
      BY <1>2, <1>4, <1>6 DEF Numbers
    <3>2. CASE i = Len(inflight) + 1
      <4>1. fifo[1] = Before(BuffEnd, Len(fifo) - 1 + 1)
        BY <1>2, <1>5, SMTT(60) DEF RxInv, RingAccounting, DescriptorsInRingOrder, Numbers
      <4>2. Len(fifo) - 1 + 1 = Len(fifo) + Len(inflight) - i + 1
        BY <1>2, <3>2 DEF Numbers
      <4>3. QED
        BY <1>6, <3>1, <3>2, <4>1, <4>2
    <3>3. CASE i \in 1 .. Len(inflight)
      <4>1. inflight[i] = Before(BuffEnd, Len(fifo) + Len(inflight) - i + 1)
        BY <3>3 DEF RxInv, RingAccounting, DescriptorsInRingOrder
      <4>2. inflight'[i] = inflight[i]
        BY <1>6, <3>3
      <4>3. QED
        BY <3>1, <4>1, <4>2
    <3>4. QED
      BY <1>2, <1>6, <3>2, <3>3, SMTT(60) DEF Numbers
  <2>3. QED
    BY <1>1, <2>1, <2>2 DEF DescriptorsInRingOrder, Before, localVars
<1>9. PassAccounting'
  <2>1. FillLevel' <= FillLevel /\ FillLevel' \in Int
    BY <1>2, <1>7 DEF Numbers
  <2>2. RingAvail' = RingAvail
    BY <1>1 DEF RingAvail, localVars
  <2>3. PassAccounting
    BY DEF RxInv, RingAccounting
  <2>4. QED
    <3>1. /\ UNCHANGED <<tpc, DescLevel, DescActive, DescComp, BuffsToWrite, skipped>>
          /\ RingFilled' = RingFilled /\ RingAvail' = RingAvail
      BY <1>1, <1>7, <2>2 DEF localVars, history
    <3>2. FillLevel \in Int /\ DescActive \in Int /\ DescLevel \in Int
      BY <1>2, Sizes DEF Numbers
    <3>3. FillLevel' <= DescActive /\ (tpc = "enqueue" => FillLevel' <= DescLevel)
      BY <2>1, <2>3, <3>2 DEF PassAccounting
    <3>4. QED
      BY <2>3, <3>1, <3>3 DEF PassAccounting
<1>10. BlocksInOrder'
  BY <1>1, <1>7 DEF RxInv, BlocksInOrder, Before, localVars, history
<1>11. TypeOK'
  <2>1. Len(fifo') <= DMARXDESCS
    BY <1>2, <1>4, Sizes DEF Numbers
  <2>2. Len(inflight') <= InFlightMax
    BY <1>1, <1>2, <1>6, Sizes DEF Numbers
  <2>3. QED
    BY <1>1, <1>2, <1>4, <1>6, <2>1, <2>2 DEF TypeOK, charVars, readerVars, localVars, history
<1>12. QED
  BY <1>8, <1>9, <1>10, <1>11 DEF RxInv, RingAccounting

\* It completes the oldest buffer it works on, the one before the complete ones.
LEMMA FpgaCompleteKeepsRxInv ==
    ASSUME RxInv, FpgaComplete
    PROVE  RxInv'
<1>1. /\ inflight # <<>> /\ inflight' = Tail(inflight) /\ fifo' = fifo
      /\ pRxDmaBuffs' = [pRxDmaBuffs EXCEPT ![Head(inflight)] = produced]
      /\ produced' = produced + 1
      /\ UNCHANGED <<charVars, readerVars, tpc, localVars, history, TxRoom, stop>>
  BY DEF FpgaComplete
<1>2. TypeOK /\ Numbers
  BY Counts DEF RxInv
<1>3. inflight \in Seq(RingIndex)
  BY <1>2 DEF TypeOK
<1>4. /\ inflight' \in Seq(RingIndex) /\ Len(inflight') = Len(inflight) - 1
      /\ \A i \in 1 .. Len(inflight') : inflight'[i] = inflight[i + 1]
      /\ Head(inflight) = inflight[1] /\ Head(inflight) \in RingIndex /\ Len(inflight) >= 1
  BY <1>1, <1>3
<1>5. /\ InFpga' = InFpga - 1 /\ RingFilled' = RingFilled /\ Complete' = Complete + 1
      /\ FillLevel' = FillLevel
  <2>1. FillLevel' = FillLevel /\ InFpga' = InFpga - 1
    BY <1>1, <1>2, <1>4 DEF FillLevel, InFpga, Numbers
  <2>2. RingFilled' = RingFilled
    BY <1>1 DEF RingFilled, localVars
  <2>3. QED
    BY <1>2, <2>1, <2>2 DEF Complete, Numbers
<1>6. Head(inflight) = Before(BuffEnd, InFpga)
  <2>1. inflight[1] = Before(BuffEnd, Len(fifo) + Len(inflight) - 1 + 1)
    BY <1>2, <1>4 DEF RxInv, RingAccounting, DescriptorsInRingOrder, Numbers
  <2>2. Len(fifo) + Len(inflight) - 1 + 1 = InFpga
    BY <1>2 DEF Numbers
  <2>3. QED
    BY <1>4, <2>1, <2>2
<1>7. DescriptorsInRingOrder'
  <2>1. ASSUME NEW i \in 1 .. Len(inflight')
        PROVE  inflight'[i] = Before(BuffEnd, Len(fifo) + Len(inflight') - i + 1)
    <3>1. /\ i + 1 \in 1 .. Len(inflight)
          /\ Len(fifo) + Len(inflight) - (i + 1) + 1 = Len(fifo) + Len(inflight') - i + 1
      BY <1>2, <1>4 DEF Numbers
    <3>2. inflight[i + 1] = Before(BuffEnd, Len(fifo) + Len(inflight) - (i + 1) + 1)
      BY <3>1 DEF RxInv, RingAccounting, DescriptorsInRingOrder
    <3>3. QED
      BY <1>4, <3>1, <3>2
  <2>2. QED
    BY <1>1, <2>1 DEF RxInv, RingAccounting, DescriptorsInRingOrder, Before, localVars
<1>8. PassAccounting'
  BY <1>1, <1>5 DEF RxInv, RingAccounting, PassAccounting, RingAvail, localVars, history
<1>9. BlocksInOrder'
  <2>1. 0 <= Complete /\ produced = taken + Complete
    BY DEF RxInv, BlocksInOrder
  <2>2. 0 <= Complete' /\ produced' = taken' + Complete'
    BY <1>1, <1>2, <1>5, <2>1 DEF Numbers, history
  <2>3. /\ InFpga \in 1 .. DMARXBUFFS /\ Complete \in Nat /\ produced \in Nat
        /\ InFpga + Complete <= DMARXBUFFS
    <3>1. Len(inflight) >= 1
      BY <1>4
    <3>2. QED
      BY <1>2, <2>1, <3>1, Sizes DEF Numbers
  <2>4. ASSUME NEW k \in 1 .. Complete'
        PROVE  pRxDmaBuffs'[Before(BuffEnd, InFpga' + k)] = produced' - k
    <3>1. CASE k = 1
      <4>1. InFpga' + k = InFpga /\ produced' - k = produced
        BY <1>1, <1>2, <1>5, <3>1 DEF Numbers
      <4>2. Head(inflight) \in RingIndex /\ pRxDmaBuffs \in [RingIndex -> Nat \cup {Unset}]
        BY <1>2, <1>4 DEF TypeOK
      <4>3. QED
        BY <1>1, <1>6, <4>1, <4>2
    <3>2. CASE k # 1
      <4>1. /\ k - 1 \in 1 .. Complete /\ InFpga' + k = InFpga + (k - 1)
            /\ produced' - k = produced - (k - 1)
            /\ InFpga + (k - 1) \in 1 .. DMARXBUFFS /\ InFpga + (k - 1) # InFpga
        <5>1. Complete' = Complete + 1 /\ InFpga' = InFpga - 1 /\ produced' = produced + 1
          BY <1>1, <1>5
        <5>2. QED
          BY <2>3, <3>2, <5>1, Sizes
      <4>2. pRxDmaBuffs[Before(BuffEnd, InFpga + (k - 1))] = produced - (k - 1)
        BY <4>1 DEF RxInv, BlocksInOrder
      <4>3. Before(BuffEnd, InFpga + (k - 1)) # Before(BuffEnd, InFpga)
        BY <1>2, <2>3, <4>1, BeforeInjective DEF Numbers
      <4>4. Before(BuffEnd, InFpga + (k - 1)) \in RingIndex
        <5>1. BuffEnd \in 0 .. DMARXBUFFS - 1
          BY <1>2 DEF Numbers
        <5>2. InFpga + (k - 1) \in 0 .. DMARXBUFFS
          BY <4>1, Sizes
        <5>3. QED
          BY <5>1, <5>2, BeforeInRing DEF RingIndex
      <4>5. pRxDmaBuffs'[Before(BuffEnd, InFpga + (k - 1))]
              = pRxDmaBuffs[Before(BuffEnd, InFpga + (k - 1))]
        BY <1>1, <1>2, <1>6, <4>3, <4>4 DEF TypeOK
      <4>6. QED
        BY <4>1, <4>2, <4>5
    <3>3. QED
      BY <3>1, <3>2
  <2>5. QED
    BY <1>1, <2>2, <2>4 DEF BlocksInOrder, Before, localVars
<1>10. TypeOK'
  <2>1. Len(inflight') <= InFlightMax
    BY <1>2, <1>4, Sizes DEF Numbers
  <2>2. produced' \in Nat /\ pRxDmaBuffs' \in [RingIndex -> Nat \cup {Unset}]
    BY <1>1, <1>2 DEF TypeOK
  <2>3. QED
    BY <1>1, <1>2, <1>4, <2>1, <2>2 DEF TypeOK, charVars, readerVars, localVars, history
<1>11. QED
  BY <1>7, <1>8, <1>9, <1>10 DEF RxInv, RingAccounting

LEMMA NextRxInv ==
    ASSUME RxInv, [Next]_vars
    PROVE  RxInv'
<1>1. ASSUME NEW r \in Readers, ReaderStep(r) \/ \E n \in ReadLens : ReadCall(r, n)
      PROVE  RxInv'
  BY <1>1, ReaderKeepsRxInv
<1>2. CASE RxThread
  BY <1>2, CountingKeepsRxInv, CopyKeepsRxInv, AdvanceKeepsRxInv, EnqueueKeepsRxInv
     DEF RxThread
<1>3. CASE Fpga
  BY <1>3, FpgaStartKeepsRxInv, FpgaCompleteKeepsRxInv DEF Fpga
<1>4. CASE TxRoomChanges \/ StopThread \/ UNCHANGED vars
  <2>1. /\ UNCHANGED <<charVars, readerVars, tpc, localVars, history, fpgaVars>>
        /\ TxRoom' \in BOOLEAN /\ stop' \in BOOLEAN
    BY <1>4 DEF TxRoomChanges, StopThread, vars, RxInv, TypeOK
  <2>2. DescriptorsInRingOrder' /\ BlocksInOrder'
    BY <2>1, RingFrame DEF localVars, history, fpgaVars
  <2>3. PassAccounting'
    BY <2>1 DEF RxInv, RingAccounting, PassAccounting, RingFilled, RingAvail, FillLevel,
                localVars, history, fpgaVars
  <2>4. TypeOK'
    BY <2>1 DEF RxInv, TypeOK, charVars, readerVars, localVars, history, fpgaVars
  <2>5. QED
    BY <2>2, <2>3, <2>4 DEF RxInv, RingAccounting
<1>5. QED
  BY <1>1, <1>2, <1>3, <1>4 DEF Next

LEMMA RxInvariance == Spec => []RxInv
<1>1. RxInv /\ [Next]_vars => RxInv'
  BY NextRxInv
<1>2. QED
  BY <1>1, InitRxInv, PTL DEF Spec

\* Types hold throughout, with any number of readers.
THEOREM RxTypeCorrect == Spec => []TypeOK
<1>1. RxInv => TypeOK
  BY DEF RxInv
<1>2. QED
  BY <1>1, RxInvariance, PTL

\* dev_read_task's counters account for every buffer in use, whatever the transmit
\* path, the readers and the FPGA do.
THEOREM RxAccountingHolds == Spec => []RingAccounting
<1>1. RxInv => RingAccounting
  BY DEF RxInv
<1>2. QED
  BY <1>1, RxInvariance, PTL

\* The thread copies no buffer a descriptor in the FPGA names, and takes the blocks
\* in the order they were received.
THEOREM BlocksTakenInOrder == Spec => []TakesBlocksInOrder
<1>1. ASSUME RxInv, tpc = "copy"
      PROVE  BuffStart \notin Owned /\ pRxDmaBuffs[BuffStart] = taken
  <2>1. Numbers /\ 1 <= Complete
    BY <1>1, Counts, CopyFindsBlock DEF RxInv
  <2>2. BuffStart = Before(BuffEnd, RingFilled)
    BY <1>1, StartIsOldest DEF RxInv
  <2>3. ASSUME NEW k \in 1 .. InFpga
        PROVE  Before(BuffEnd, k) # BuffStart
    <3>1. k \in 1 .. DMARXBUFFS /\ RingFilled \in 1 .. DMARXBUFFS /\ k # RingFilled
      BY <2>1, Sizes DEF Numbers
    <3>2. QED
      BY <2>1, <2>2, <3>1, BeforeInjective DEF Numbers
  <2>4. ASSUME NEW i \in 1 .. Len(fifo)
        PROVE  fifo[i] # BuffStart
    <3>1. Len(fifo) - i + 1 \in 1 .. InFpga
      BY <2>1 DEF Numbers
    <3>2. QED
      BY <1>1, <2>3, <3>1 DEF RxInv, RingAccounting, DescriptorsInRingOrder
  <2>5. ASSUME NEW i \in 1 .. Len(inflight)
        PROVE  inflight[i] # BuffStart
    <3>1. Len(fifo) + Len(inflight) - i + 1 \in 1 .. InFpga
      BY <2>1, SMTT(60) DEF Numbers
    <3>2. QED
      BY <1>1, <2>3, <3>1 DEF RxInv, RingAccounting, DescriptorsInRingOrder
  <2>6. QED
    BY <1>1, <2>4, <2>5, CopyFindsBlock DEF Owned
<1>2. RxInv => TakesBlocksInOrder
  BY <1>1 DEF TakesBlocksInOrder
<1>3. QED
  BY <1>2, RxInvariance, PTL
-------------------------------------------------------------------------------
(* The byte ring, with one reader *)

OneReader == \A q, r \in Readers : q = r

\* The fill and the room of the byte ring.
ReadNumbers ==
    /\ cdev_read_buff_start \in 0 .. CDEVBUFFSIZE - 1
    /\ cdev_read_buff_end \in 0 .. CDEVBUFFSIZE - 1
    /\ ReadFilled \in 0 .. CDEVBUFFSIZE - 1 /\ ReadAvail \in 0 .. CDEVBUFFSIZE - 1
    /\ ReadFilled + ReadAvail = CDEVBUFFSIZE - 1
    /\ Returned = taken * DMABUFFSIZE - ReadFilled
    /\ taken * DMABUFFSIZE \in Int /\ Returned \in Int

LEMMA ReadCounts == TypeOK => ReadNumbers
<1> SUFFICES ASSUME TypeOK PROVE ReadNumbers
  OBVIOUS
<1>1. /\ cdev_read_buff_start \in 0 .. CDEVBUFFSIZE - 1
      /\ cdev_read_buff_end \in 0 .. CDEVBUFFSIZE - 1 /\ taken \in Nat
  BY DEF TypeOK
<1>2. /\ ReadFilled \in 0 .. CDEVBUFFSIZE - 1 /\ ReadAvail \in 0 .. CDEVBUFFSIZE - 1
      /\ ReadFilled + ReadAvail = CDEVBUFFSIZE - 1
  BY <1>1, Sizes, FilledBounds DEF ReadFilled, ReadAvail
<1>3. taken * DMABUFFSIZE \in Int
  BY <1>1, Sizes
<1>4. QED
  BY <1>1, <1>2, <1>3, Sizes DEF ReadNumbers, Returned

\* What is appended comes after what is there.
LEMMA Concatenation ==
    ASSUME NEW s \in Seq(Int), NEW t \in Seq(Int)
    PROVE  /\ Len(s \o t) = Len(s) + Len(t)
           /\ \A i \in 1 .. Len(s) : (s \o t)[i] = s[i]
           /\ \A i \in Len(s) + 1 .. Len(s) + Len(t) : (s \o t)[i] = t[i - Len(s)]
  OBVIOUS

\* Steps that leave both indices, the bytes and the readers alone.
LEMMA StreamFrame ==
    ASSUME StreamInOrder, UNCHANGED <<charVars, readerVars, taken, overrun>>,
           tpc' = tpc \/ tpc' # "advance"
    PROVE  StreamInOrder'
<1>1. ReadFilled' = ReadFilled /\ ReadAvail' = ReadAvail /\ Returned' = Returned
  BY DEF ReadFilled, ReadAvail, Returned, charVars
<1>2. QED
  BY <1>1 DEF StreamInOrder, charVars, readerVars

\* The parts of StreamInOrder.
Unread(i) == cdev_read_buff[Advance(cdev_read_buff_start, i, CDEVBUFFSIZE)] = Returned + i
NewBlock(i) ==
    cdev_read_buff[Advance(cdev_read_buff_end, i, CDEVBUFFSIZE)] = taken * DMABUFFSIZE + i

\* The steps of the one reader.
LEMMA ReaderKeepsStream ==
    ASSUME RxInv, OneReader, StreamInOrder, NEW r \in Readers,
           ReaderStep(r) \/ \E n \in ReadLens : ReadCall(r, n)
    PROVE  StreamInOrder'
<1> SUFFICES ASSUME ~overrun' PROVE StreamInOrder'
  BY DEF StreamInOrder
<1>1. /\ UNCHANGED <<tpc, taken, overrun, cdev_read_buff, cdev_read_buff_end>>
      /\ TypeOK /\ len[r] \in Nat
  BY LenIsNat DEF ReaderStep, ReadCall, ReadHasData, ReadCopy, ReadReturn, charVars, history,
                  RxInv
<1>2. ReadNumbers /\ \A q \in Readers : q = r
  BY <1>1, ReadCounts DEF OneReader
<1>3. /\ \A i \in 1 .. Len(got) : got[i] = i - 1
      /\ \A i \in 0 .. ReadFilled - 1 : Unread(i)
      /\ tpc = "advance" => DMABUFFSIZE <= ReadAvail /\ \A i \in 0 .. DMABUFFSIZE - 1 : NewBlock(i)
      /\ rpc[r] \in {"copy", "advance"} => len[r] <= ReadFilled
      /\ rpc[r] = "advance" => Len(got) = Returned + len[r]
      /\ rpc[r] # "advance" => Len(got) = Returned
  BY <1>1, <1>2 DEF StreamInOrder, Unread, NewBlock
<1>4. ASSUME UNCHANGED <<cdev_read_buff_start, got>>, rpc[r] # "advance", rpc'[r] # "advance",
             rpc'[r] = "copy" => len'[r] <= ReadFilled
      PROVE  StreamInOrder'
  <2>1. ReadFilled' = ReadFilled /\ ReadAvail' = ReadAvail /\ Returned' = Returned
    BY <1>1, <1>4 DEF ReadFilled, ReadAvail, Returned
  <2>2. QED
    BY <1>1, <1>2, <1>3, <1>4, <2>1 DEF StreamInOrder, Unread, NewBlock
<1>5. ASSUME NEW n \in ReadLens, ReadCall(r, n) PROVE StreamInOrder'
  BY <1>1, <1>4, <1>5 DEF ReadCall, TypeOK, charVars
<1>6. CASE ReadHasData(r)
  BY <1>1, <1>4, <1>6 DEF ReadHasData, TypeOK, charVars, ReadFilled
<1>7. CASE ReadCopy(r)
  <2> DEFINE sent == [i \in 1 .. len[r] |->
                        cdev_read_buff[Advance(cdev_read_buff_start, i - 1, CDEVBUFFSIZE)]]
  <2>1. /\ UNCHANGED <<cdev_read_buff_start, len>> /\ got' = got \o sent
        /\ rpc[r] = "copy" /\ rpc'[r] = "advance"
    BY <1>1, <1>7 DEF ReadCopy, charVars, TypeOK
  <2>2. ReadFilled' = ReadFilled /\ ReadAvail' = ReadAvail /\ Returned' = Returned
    BY <1>1, <2>1 DEF ReadFilled, ReadAvail, Returned
  <2>3. ASSUME NEW i \in 1 .. len[r]
        PROVE  /\ cdev_read_buff[Advance(cdev_read_buff_start, i - 1, CDEVBUFFSIZE)]
                    = Returned + (i - 1)
               /\ Returned + (i - 1) \in Int
    <3>1. i - 1 \in 0 .. ReadFilled - 1
      <4>1. len[r] <= ReadFilled
        BY <1>3, <2>1
      <4>2. QED
        BY <1>1, <1>2, <4>1 DEF ReadNumbers
    <3>2. QED
      BY <1>2, <1>3, <3>1 DEF Unread, ReadNumbers
  <2>4. /\ sent \in Seq(Int) /\ Len(sent) = len[r]
        /\ \A i \in 1 .. len[r] : sent[i] = Returned + (i - 1)
    <3>1. \A i \in 1 .. len[r] : sent[i] = Returned + (i - 1)
      BY <2>3
    <3>2. sent \in [1 .. len[r] -> Int]
      BY <2>3
    <3> HIDE DEF sent
    <3>3. QED
      BY <1>1, <3>1, <3>2
  <2> HIDE DEF sent
  <2>5. got \in Seq(Int) /\ Len(got) = Returned
    BY <1>1, <1>3, <2>1 DEF TypeOK
  <2>6. Len(got') = Returned + len[r]
    <3>1. Len(got \o sent) = Len(got) + Len(sent)
      BY <2>4, <2>5, Concatenation
    <3>2. QED
      BY <2>1, <2>4, <2>5, <3>1
  <2>7. ASSUME NEW i \in 1 .. Len(got') PROVE got'[i] = i - 1
    <3>1. CASE i <= Len(got)
      <4>1. got'[i] = got[i]
        BY <2>1, <2>4, <2>5, <3>1, Concatenation
      <4>2. QED
        BY <1>3, <2>5, <3>1, <4>1
    <3>2. CASE i > Len(got)
      <4>1. i - Len(got) \in 1 .. len[r] /\ got'[i] = sent[i - Len(got)]
        <5>1. i \in Len(got) + 1 .. Len(got) + len[r] /\ Len(got) \in Nat
          BY <1>1, <2>5, <2>6, <3>2
        <5>2. (got \o sent)[i] = sent[i - Len(got)]
          BY <2>4, <2>5, <5>1, Concatenation
        <5>3. QED
          BY <1>1, <2>1, <5>1, <5>2
      <4>2. sent[i - Len(got)] = Returned + (i - Len(got) - 1)
        BY <2>4, <4>1
      <4>3. QED
        BY <2>5, <4>1, <4>2
    <3>3. QED
      BY <2>5, <3>1, <3>2
  <2>8. QED
    BY <1>1, <1>2, <1>3, <2>1, <2>2, <2>6, <2>7 DEF StreamInOrder, Unread, NewBlock
<1>8. CASE ReadReturn(r)
  <2>1. /\ UNCHANGED <<len, got>> /\ rpc[r] = "advance" /\ rpc'[r] = "idle"
        /\ cdev_read_buff_start' = Advance(cdev_read_buff_start, len[r], CDEVBUFFSIZE)
    BY <1>1, <1>8 DEF ReadReturn, TypeOK
  <2>2. len[r] \in 0 .. ReadFilled
    BY <1>1, <1>2, <1>3, <2>1 DEF ReadNumbers
  <2>3. ReadFilled' = ReadFilled - len[r]
    <3>1. len[r] \in 0 .. CircBuffFilled(cdev_read_buff_start, cdev_read_buff_end, CDEVBUFFSIZE)
      BY <2>2 DEF ReadFilled
    <3>2. QED
      BY <1>1, <1>2, <2>1, <3>1, Sizes, FilledAfterConsume DEF ReadFilled, ReadNumbers
  <2>4. ReadAvail' = ReadAvail + len[r]
    BY <1>1, <1>2, <2>3, Sizes DEF ReadAvail, ReadFilled, CircBuffAvail, ReadNumbers
  <2>5. Returned' = Returned + len[r]
    BY <1>1, <1>2, <2>3 DEF Returned, ReadNumbers
  <2>6. ASSUME NEW i \in 0 .. ReadFilled' - 1 PROVE Unread(i)'
    <3>1. len[r] + i \in 0 .. ReadFilled - 1
      BY <1>1, <1>2, <2>2, <2>3 DEF ReadNumbers
    <3>2. Advance(cdev_read_buff_start', i, CDEVBUFFSIZE)
            = Advance(cdev_read_buff_start, len[r] + i, CDEVBUFFSIZE)
      <4>1. len[r] \in 0 .. CDEVBUFFSIZE /\ i \in 0 .. CDEVBUFFSIZE - len[r]
        BY <1>1, <1>2, <2>2, <2>3, Sizes DEF ReadNumbers
      <4>2. QED
        BY <1>2, <2>1, <4>1, Sizes, AdvanceAdds DEF ReadNumbers
    <3>3. Unread(len[r] + i)
      BY <1>3, <3>1
    <3>4. Returned + (len[r] + i) = Returned' + i
      BY <1>1, <1>2, <2>3, <2>5 DEF ReadNumbers
    <3>5. QED
      BY <1>1, <3>2, <3>3, <3>4 DEF Unread
  <2>7. tpc = "advance" => DMABUFFSIZE <= ReadAvail'
    BY <1>1, <1>2, <1>3, <2>4, Sizes DEF ReadNumbers
  <2>8. QED
    BY <1>1, <1>2, <1>3, <2>1, <2>5, <2>6, <2>7 DEF StreamInOrder, Unread, NewBlock
<1>9. QED
  BY <1>5, <1>6, <1>7, <1>8 DEF ReaderStep

\* The copy writes the free cells behind the end index, or overruns.
LEMMA RxCopyKeepsStream ==
    ASSUME RxInv, StreamInOrder, RxCopy
    PROVE  StreamInOrder'
<1> SUFFICES ASSUME ~overrun' PROVE StreamInOrder'
  BY DEF StreamInOrder
<1>1. /\ TypeOK /\ ReadNumbers /\ pRxDmaBuffs[BuffStart] = taken
      /\ UNCHANGED <<cdev_read_buff_start, cdev_read_buff_end, rpc, len, got, taken>>
      /\ tpc' = "advance"
  BY ReadCounts, CopyFindsBlock DEF RxInv, RxCopy, readerVars
<1>2. ~overrun /\ DMABUFFSIZE <= ReadAvail
  <2>1. ~overrun /\ ~(ReadAvail < DMABUFFSIZE)
    BY <1>1 DEF RxCopy, TypeOK
  <2>2. QED
    BY <1>1, <2>1, Sizes DEF ReadNumbers
<1>3. ReadFilled' = ReadFilled /\ ReadAvail' = ReadAvail /\ Returned' = Returned
  BY <1>1 DEF ReadFilled, ReadAvail, Returned
<1>4. \A c \in 0 .. CDEVBUFFSIZE - 1 :
        LET i == CircBuffFilled(cdev_read_buff_end, c, CDEVBUFFSIZE)
        IN  /\ i < DMABUFFSIZE => cdev_read_buff'[c] = taken * DMABUFFSIZE + i
            /\ ~(i < DMABUFFSIZE) => cdev_read_buff'[c] = cdev_read_buff[c]
  BY <1>1 DEF RxCopy
<1>5. ASSUME NEW i \in 0 .. ReadFilled' - 1 PROVE Unread(i)'
  <2> DEFINE c == Advance(cdev_read_buff_start, i, CDEVBUFFSIZE)
             d == CircBuffFilled(cdev_read_buff_end, c, CDEVBUFFSIZE)
  <2>1. d > ReadAvail /\ c \in 0 .. CDEVBUFFSIZE - 1
    BY <1>1, <1>3, Sizes, UsedCellsBehindFree DEF ReadNumbers, ReadFilled, ReadAvail
  <2>2. d \in Int
    BY <1>1, <2>1, Sizes, FilledBounds DEF ReadNumbers
  <2>3. ~(d < DMABUFFSIZE)
    <3> HIDE DEF c, d
    <3>1. QED
      BY <1>1, <1>2, <2>1, <2>2, Sizes DEF ReadNumbers
  <2>4. cdev_read_buff'[c] = cdev_read_buff[c]
    BY <1>4, <2>1, <2>3
  <2>5. Unread(i)
    BY <1>2, <1>3 DEF StreamInOrder, Unread
  <2>6. QED
    BY <1>1, <1>3, <2>4, <2>5 DEF Unread
<1>6. ASSUME NEW i \in 0 .. DMABUFFSIZE - 1 PROVE NewBlock(i)'
  <2> DEFINE c == Advance(cdev_read_buff_end, i, CDEVBUFFSIZE)
  <2>1. i \in 0 .. CDEVBUFFSIZE - 1 /\ i < DMABUFFSIZE
    BY Sizes
  <2>2. CircBuffFilled(cdev_read_buff_end, c, CDEVBUFFSIZE) = i
    BY <1>1, <2>1, Sizes, FilledUpTo DEF ReadNumbers
  <2>3. c \in 0 .. CDEVBUFFSIZE - 1
    <3>1. i \in 0 .. CDEVBUFFSIZE
      BY <2>1, Sizes
    <3>2. QED
      BY <1>1, <3>1, Sizes, AdvanceWraps DEF ReadNumbers
  <2>4. cdev_read_buff'[c] = taken * DMABUFFSIZE + i
    BY <1>4, <2>1, <2>2, <2>3
  <2>5. QED
    BY <1>1, <2>4 DEF NewBlock
<1>7. /\ \A i \in 1 .. Len(got) : got[i] = i - 1
      /\ \A q \in Readers :
           /\ rpc[q] \in {"copy", "advance"} => len[q] <= ReadFilled
           /\ rpc[q] = "advance" => Len(got) = Returned + len[q]
      /\ (\A q \in Readers : rpc[q] # "advance") => Len(got) = Returned
  BY <1>2 DEF StreamInOrder
<1>8. QED
  BY <1>1, <1>2, <1>3, <1>5, <1>6, <1>7 DEF StreamInOrder, Unread, NewBlock

\* Then the end index passes the block.
LEMMA RxAdvanceKeepsStream ==
    ASSUME RxInv, StreamInOrder, RxAdvance
    PROVE  StreamInOrder'
<1> SUFFICES ASSUME ~overrun' PROVE StreamInOrder'
  BY DEF StreamInOrder
<1>1. /\ TypeOK /\ ReadNumbers /\ ~overrun
      /\ UNCHANGED <<cdev_read_buff, cdev_read_buff_start, rpc, len, got>>
      /\ cdev_read_buff_end' = Advance(cdev_read_buff_end, DMABUFFSIZE, CDEVBUFFSIZE)
      /\ taken' = taken + 1 /\ tpc = "advance" /\ tpc' = "check"
  BY ReadCounts DEF RxInv, RxAdvance, readerVars
<1>2. /\ DMABUFFSIZE <= ReadAvail
      /\ \A i \in 0 .. DMABUFFSIZE - 1 : NewBlock(i)
      /\ \A i \in 0 .. ReadFilled - 1 : Unread(i)
  BY <1>1 DEF StreamInOrder, Unread, NewBlock
<1>3. ReadFilled' = ReadFilled + DMABUFFSIZE
  <2>1. DMABUFFSIZE \in 0 .. CircBuffAvail(cdev_read_buff_start, cdev_read_buff_end, CDEVBUFFSIZE)
    BY <1>1, <1>2, Sizes DEF ReadNumbers, ReadAvail
  <2>2. QED
    BY <1>1, <2>1, Sizes, FilledAfterProduce DEF ReadNumbers, ReadFilled
<1>4. Returned' = Returned
  <2>1. taken \in Nat
    BY <1>1 DEF TypeOK
  <2>2. (taken + 1) * DMABUFFSIZE = taken * DMABUFFSIZE + DMABUFFSIZE
    BY <2>1, Sizes
  <2>3. taken' * DMABUFFSIZE = taken * DMABUFFSIZE + DMABUFFSIZE
    BY <1>1, <2>2
  <2>4. Returned' = taken' * DMABUFFSIZE - ReadFilled'
    BY DEF Returned
  <2>5. QED
    BY <1>1, <1>3, <2>3, <2>4, Sizes DEF ReadNumbers
<1>5. ASSUME NEW i \in 0 .. ReadFilled' - 1 PROVE Unread(i)'
  <2>1. CASE i < ReadFilled
    <3>1. i \in 0 .. ReadFilled - 1
      BY <1>1, <1>3, <2>1, Sizes DEF ReadNumbers
    <3>2. QED
      BY <1>1, <1>2, <1>4, <3>1 DEF Unread
  <2>2. CASE i >= ReadFilled
    <3> DEFINE j == i - ReadFilled
    <3>1. j \in 0 .. DMABUFFSIZE - 1 /\ ReadFilled + j = i
      BY <1>1, <1>3, <2>2, Sizes DEF ReadNumbers
    <3>2. Advance(cdev_read_buff_start, ReadFilled, CDEVBUFFSIZE) = cdev_read_buff_end
      BY <1>1, Sizes, UsedCellsReachEnd DEF ReadNumbers, ReadFilled
    <3> HIDE DEF j
    <3>3. ReadFilled \in 0 .. CDEVBUFFSIZE /\ j \in 0 .. CDEVBUFFSIZE - ReadFilled
      BY <1>1, <1>2, <3>1, Sizes DEF ReadNumbers
    <3>4. Advance(cdev_read_buff_end, j, CDEVBUFFSIZE)
            = Advance(cdev_read_buff_start, i, CDEVBUFFSIZE)
      BY <1>1, <3>1, <3>2, <3>3, Sizes, AdvanceAdds DEF ReadNumbers
    <3>5. NewBlock(j)
      BY <1>2, <3>1
    <3>6. taken * DMABUFFSIZE + j = Returned + i
      BY <1>1, <3>1 DEF ReadNumbers
    <3>7. QED
      BY <1>1, <1>4, <3>4, <3>5, <3>6 DEF Unread, NewBlock
  <2>3. QED
    BY <1>1, <2>1, <2>2 DEF ReadNumbers
<1>6. /\ \A i \in 1 .. Len(got) : got[i] = i - 1
      /\ \A q \in Readers :
           /\ rpc[q] \in {"copy", "advance"} => len[q] <= ReadFilled
           /\ rpc[q] = "advance" => Len(got) = Returned + len[q]
      /\ (\A q \in Readers : rpc[q] # "advance") => Len(got) = Returned
  BY <1>1 DEF StreamInOrder
<1>7. ASSUME NEW q \in Readers, rpc[q] \in {"copy", "advance"} PROVE len[q] <= ReadFilled'
  BY <1>1, <1>3, <1>6, <1>7, LenIsNat, Sizes DEF ReadNumbers
<1>8. QED
  BY <1>1, <1>4, <1>5, <1>6, <1>7 DEF StreamInOrder, Unread

LEMMA NextStreamInOrder ==
    ASSUME OneReader, RxInv, StreamInOrder, [Next]_vars
    PROVE  StreamInOrder'
<1>1. ASSUME NEW r \in Readers, ReaderStep(r) \/ \E n \in ReadLens : ReadCall(r, n)
      PROVE  StreamInOrder'
  BY <1>1, ReaderKeepsStream
<1>2. CASE RxCopy \/ RxAdvance
  BY <1>2, RxCopyKeepsStream, RxAdvanceKeepsStream
<1>3. CASE Fpga \/ TxRoomChanges \/ StopThread \/ UNCHANGED vars
  <2>1. UNCHANGED <<charVars, readerVars, taken, overrun>> /\ tpc' = tpc
    BY <1>3 DEF Fpga, FpgaStart, FpgaComplete, TxRoomChanges, StopThread, vars, history
  <2>2. QED
    BY <2>1, StreamFrame
<1>4. CASE \/ RxExitAtTop \/ RxSeesRoom \/ RxReadLevel \/ RxEnqueue \/ RxCountCompleted
           \/ RxFindsRoom \/ RxFindsNoRoom \/ RxBottom \/ RxDrain \/ RxExitDrained
  <2>1. /\ UNCHANGED <<charVars, readerVars, taken, overrun>>
        /\ tpc' = tpc \/ tpc' # "advance"
    BY <1>4 DEF RxExitAtTop, RxSeesRoom, RxReadLevel, RxEnqueue, RxCountCompleted,
                RxFindsRoom, RxFindsNoRoom, RxBottom, RxDrain, RxExitDrained, history
  <2>2. QED
    BY <2>1, StreamFrame
<1>5. QED
  BY <1>1, <1>2, <1>3, <1>4 DEF Next, RxThread

LEMMA InitStreamInOrder == Init => StreamInOrder
<1> SUFFICES ASSUME Init PROVE StreamInOrder
  OBVIOUS
<1>1. /\ got = <<>> /\ taken = 0 /\ tpc = "poll" /\ rpc = [r \in Readers |-> "idle"]
  BY DEF Init
<1>2. ReadFilled = 0
  BY DEF Init, ReadFilled, CircBuffFilled
<1>3. Returned = 0
  BY <1>1, <1>2, Sizes DEF Returned
<1>4. QED
  BY <1>1, <1>2, <1>3 DEF StreamInOrder

\* A single reader gets the samples from the first one on, in order, as long as no
\* copy overran bytes it had not read.
THEOREM ReaderGetsStream ==
    ASSUME OneReader
    PROVE  Spec => []ReadsContinueStream
<1>1. RxInv /\ StreamInOrder /\ [Next]_vars => StreamInOrder'
  BY NextStreamInOrder
<1>2. StreamInOrder => ReadsContinueStream
  BY DEF StreamInOrder, ReadsContinueStream
<1>3. QED
  BY <1>1, <1>2, RxInvariance, InitStreamInOrder, PTL DEF Spec
===============================================================================
