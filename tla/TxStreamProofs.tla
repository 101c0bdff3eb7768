---------------------------- MODULE TxStreamProofs ----------------------------
(***************************************************************************)
(* Theorems about TxStream, for every size of the buffers, every number of *)
(* DMA buffers and any stream: its invariants, and that it implements      *)
(* ByteStream.                                                             *)
(***************************************************************************)
EXTENDS TxStream, CircBuffProofs

\* The two ring sizes as positive naturals, the form the lemmas of CircBuffProofs ask for.
LEMMA Sizes ==
    /\ CDEVBUFFSIZE \in Nat \ {0} /\ DMATXBUFFS \in Nat \ {0}
    /\ DMABUFFSIZE \in Nat \ {0} /\ DMABUFFSIZE \in 0 .. CDEVBUFFSIZE
    /\ DMARXBUFFS = DMATXBUFFS /\ DMATXBUFFS <= DMATXDESCS /\ DMATXDESCS \in Nat
    /\ DMATXDESCDELAY \in 1 .. DMATXBUFFS - 1
    /\ InFlightMax \in 1 .. DMATXDESCDELAY
    /\ 1 \in 0 .. DMATXBUFFS
  BY SizeAssumption, RingAssumption, HardwareAssumption

\* Ring accounting reads nothing but the thread's locals and the descriptors.
LEMMA AccountingFrame ==
    ASSUME RingAccounting, UNCHANGED <<threadVars, fifo, inflight>>
    PROVE  RingAccounting'
  BY DEF RingAccounting, DescriptorsInRingOrder, PassAccounting, threadVars,
         RingFilled, FillLevel, Before

\* A writer's length is a natural number.
LEMMA LenIsNat ==
    ASSUME TypeOK, NEW w \in Writers
    PROVE  len[w] \in Nat
<1>1. len[w] \in WriteLens \cup {0}
  BY DEF TypeOK
<1>2. \A n \in WriteLens : n \in Nat
  BY SizeAssumption
<1>3. QED
  BY <1>1, <1>2

\* The initial state has the types and the accounting.
LEMMA InitAccounting == Init => TypeOK /\ RingAccounting
<1> SUFFICES ASSUME Init PROVE TypeOK /\ RingAccounting
  OBVIOUS
<1> USE DEF Init
<1>1. TypeOK
  <2>1. pTxDmaBuffs \in [RingIndex -> [0 .. DMABUFFSIZE - 1 -> Positions \cup {Unset}]]
    BY DEF RingIndex
  <2>2. fifo \in Seq(RingIndex) /\ inflight \in Seq(RingIndex)
        /\ out \in Seq(Positions \cup {Unset})
    OBVIOUS
  <2>3. Len(fifo) <= DMATXDESCS /\ Len(inflight) <= InFlightMax
    BY Sizes
  <2>4. cdev_write_buff_start \in 0 .. CDEVBUFFSIZE - 1
        /\ cdev_write_buff_end \in 0 .. CDEVBUFFSIZE - 1
        /\ BuffStart \in RingIndex /\ BuffEnd \in RingIndex
    BY Sizes DEF RingIndex
  <2>5. DescLevel \in 0 .. DMATXBUFFS /\ DescComp \in 0 .. DMATXBUFFS
        /\ BuffsToWrite \in 0 .. DMATXBUFFS
    BY Sizes
  <2>6. QED
    BY <2>1, <2>2, <2>3, <2>4, <2>5 DEF TypeOK
<1>2. RingAccounting
  BY Sizes DEF RingAccounting, DescriptorsInRingOrder, PassAccounting, RingFilled,
               FillLevel, CircBuffFilled
<1>3. QED
  BY <1>1, <1>2

\* The steps of a writer keep both.
LEMMA WriterKeepsAccounting ==
    ASSUME TypeOK, RingAccounting, NEW w \in Writers,
           WriterStep(w) \/ \E n \in WriteLens : WriteCall(w, n)
    PROVE  TypeOK' /\ RingAccounting'
<1>1. UNCHANGED <<threadVars, fifo, inflight>>
  BY DEF WriterStep, WriteCall, WriteHasRoom, WriteCopy, WriteReturn, fpgaVars
<1>2. RingAccounting'
  BY <1>1, AccountingFrame
<1>3. TypeOK'
  <2>1. ASSUME NEW n \in WriteLens, WriteCall(w, n) PROVE TypeOK'
    BY <2>1 DEF WriteCall, TypeOK, threadVars, charVars, fpgaVars
  <2>2. CASE WriteHasRoom(w)
    BY <2>2 DEF WriteHasRoom, TypeOK, threadVars, charVars, fpgaVars
  <2>3. CASE WriteCopy(w)
    <3>1. cdev_write_buff_end \in 0 .. CDEVBUFFSIZE - 1 /\ accepted \in Nat
          /\ cdev_write_buff \in [0 .. CDEVBUFFSIZE - 1 -> Positions \cup {Unset}]
      BY DEF TypeOK
    <3>2. ASSUME NEW c \in 0 .. CDEVBUFFSIZE - 1
          PROVE  CircBuffFilled(cdev_write_buff_end, c, CDEVBUFFSIZE) \in Nat
      BY <3>1, Sizes DEF CircBuffFilled
    <3>3. cdev_write_buff' \in [0 .. CDEVBUFFSIZE - 1 -> Positions \cup {Unset}]
      BY <2>3, <3>1, <3>2 DEF WriteCopy, Positions
    <3>4. QED
      BY <2>3, <3>3 DEF WriteCopy, TypeOK, threadVars, fpgaVars
  <2>4. CASE WriteReturn(w)
    <3>1. len[w] \in Nat /\ cdev_write_buff_end \in Nat /\ accepted \in Nat
      BY LenIsNat DEF TypeOK
    <3>2. cdev_write_buff_end' \in 0 .. CDEVBUFFSIZE - 1
      BY <2>4, <3>1, Sizes DEF WriteReturn, Advance
    <3>3. accepted' \in Nat
      BY <2>4, <3>1 DEF WriteReturn
    <3>4. QED
      BY <2>4, <3>2, <3>3 DEF WriteReturn, TypeOK, threadVars, fpgaVars
  <2>5. QED
    BY <2>1, <2>2, <2>3, <2>4 DEF WriterStep
<1>4. QED
  BY <1>2, <1>3

\* The descriptors stay in ring order as long as none is queued or taken.
LEMMA OrderFrame ==
    ASSUME DescriptorsInRingOrder, UNCHANGED <<fifo, inflight, BuffStart>>
    PROVE  DescriptorsInRingOrder'
  BY DEF DescriptorsInRingOrder, Before

\* The numbers the accounting is about are naturals.
LEMMA Counts ==
    ASSUME TypeOK
    PROVE  /\ FillLevel \in Nat /\ Len(fifo) \in Nat /\ Len(inflight) \in Nat
           /\ BuffStart \in 0 .. DMATXBUFFS - 1 /\ BuffEnd \in 0 .. DMATXBUFFS - 1
           /\ RingFilled \in 0 .. DMATXBUFFS - 1
           /\ (RingFilled = 0 <=> BuffStart = BuffEnd)
           /\ DescLevel \in Nat /\ DescComp \in Nat /\ BuffsToWrite \in Nat
           /\ Len(inflight) <= InFlightMax
<1>1. BuffStart \in 0 .. DMATXBUFFS - 1 /\ BuffEnd \in 0 .. DMATXBUFFS - 1
  BY DEF TypeOK, RingIndex
<1>2. Len(fifo) \in Nat /\ Len(inflight) \in Nat
  BY DEF TypeOK
<1>3. RingFilled \in 0 .. DMATXBUFFS - 1 /\ (RingFilled = 0 <=> BuffStart = BuffEnd)
  BY <1>1, Sizes, FilledBounds DEF RingFilled
<1>4. QED
  BY <1>1, <1>2, <1>3, Sizes DEF TypeOK, FillLevel

\* The steps of dev_write_task that only move its pc and its counters.
LEMMA CountingKeepsAccounting ==
    ASSUME TypeOK, RingAccounting,
           \/ TxExitAtTop \/ TxSeesRoom \/ TxReadLevel \/ TxFindsData
           \/ TxFindsNoData \/ TxCountDescriptors \/ TxBottom \/ TxDrain
           \/ TxExitDrained
    PROVE  TypeOK' /\ RingAccounting'
<1> USE Sizes, Counts
<1>1. UNCHANGED <<fifo, inflight, BuffStart, BuffEnd, charVars, writerVars, pTxDmaBuffs,
                  out, stop>>
  BY DEF TxExitAtTop, TxSeesRoom, TxReadLevel, TxFindsData, TxFindsNoData,
         TxCountDescriptors, TxBottom, TxDrain, TxExitDrained, fpgaVars
<1>2. DescriptorsInRingOrder'
  BY <1>1, OrderFrame DEF RingAccounting
<1>3. RingFilled' = RingFilled /\ FillLevel' = FillLevel
  BY <1>1 DEF RingFilled, FillLevel
<1>4. SUFFICES /\ PassAccounting'
               /\ tpc' \in {"poll", "level", "check", "copy", "advance", "enqueue",
                            "drain", "exited"}
               /\ DescLevel' \in 0 .. DMATXBUFFS /\ DescComp' \in 0 .. DMATXBUFFS
               /\ BuffsToWrite' \in 0 .. DMATXBUFFS
  BY <1>1, <1>2 DEF TypeOK, RingAccounting, charVars, writerVars
<1>5. /\ DescLevel \in 0 .. DMATXBUFFS /\ DescComp \in 0 .. DMATXBUFFS
      /\ BuffsToWrite \in 0 .. DMATXBUFFS
  BY DEF TypeOK
<1>6. PassAccounting
  BY DEF RingAccounting
<1>7. CASE TxExitAtTop
  BY <1>1, <1>3, <1>5, <1>6, <1>7 DEF TxExitAtTop, PassAccounting
<1>8. CASE TxSeesRoom
  BY <1>1, <1>3, <1>5, <1>6, <1>8 DEF TxSeesRoom, PassAccounting
<1>9. CASE TxReadLevel
  BY <1>1, <1>3, <1>5, <1>6, <1>9 DEF TxReadLevel, PassAccounting
<1>10. CASE TxFindsData
  BY <1>1, <1>3, <1>5, <1>6, <1>10 DEF TxFindsData, PassAccounting
<1>11. CASE TxFindsNoData
  BY <1>1, <1>3, <1>5, <1>6, <1>11, SMTT(60) DEF TxFindsNoData, PassAccounting
<1>12. CASE TxCountDescriptors
  <2>1. FillLevel <= DescLevel /\ RingFilled + DescLevel <= DMATXBUFFS - DMATXDESCDELAY
    BY <1>6, <1>12, SMTT(60) DEF TxCountDescriptors, PassAccounting
  <2>2. BuffsToWrite' = RingFilled
    BY <1>12, <2>1, SMTT(60) DEF TxCountDescriptors, MinOf
  <2>3. QED
    BY <1>1, <1>3, <1>5, <1>12, <2>1, <2>2 DEF TxCountDescriptors, PassAccounting
<1>13. CASE TxBottom
  BY <1>1, <1>3, <1>5, <1>6, <1>13 DEF TxBottom, PassAccounting
<1>14. CASE TxDrain
  BY <1>1, <1>3, <1>5, <1>6, <1>14 DEF TxDrain, PassAccounting
<1>15. CASE TxExitDrained
  BY <1>1, <1>3, <1>5, <1>6, <1>15 DEF TxExitDrained, PassAccounting
<1>16. QED
  BY <1>7, <1>8, <1>9, <1>10, <1>11, <1>12, <1>13, <1>14, <1>15

\* The steps of dev_write_task that fill a DMA buffer and count it.
LEMMA CopyingKeepsAccounting ==
    ASSUME TypeOK, RingAccounting, TxCopy \/ TxAdvance
    PROVE  TypeOK' /\ RingAccounting'
<1> USE Sizes, Counts
<1>1. UNCHANGED <<fifo, inflight, BuffStart>>
  BY DEF TxCopy, TxAdvance, fpgaVars
<1>2. DescriptorsInRingOrder'
  BY <1>1, OrderFrame DEF RingAccounting
<1>3. PassAccounting
  BY DEF RingAccounting
<1>4. CASE TxCopy
  <2>1. PassAccounting'
    BY <1>1, <1>3, <1>4 DEF TxCopy, PassAccounting, RingFilled, FillLevel
  <2>2. ASSUME NEW i \in 0 .. DMABUFFSIZE - 1
        PROVE  cdev_write_buff[Advance(cdev_write_buff_start, i, CDEVBUFFSIZE)]
                 \in Positions \cup {Unset}
    <3>1. i \in 0 .. CDEVBUFFSIZE /\ cdev_write_buff_start \in 0 .. CDEVBUFFSIZE - 1
      BY DEF TypeOK
    <3>2. Advance(cdev_write_buff_start, i, CDEVBUFFSIZE) \in 0 .. CDEVBUFFSIZE - 1
      BY <3>1, AdvanceWraps
    <3>3. QED
      BY <3>2 DEF TypeOK
  <2>3. pTxDmaBuffs' \in [RingIndex -> [0 .. DMABUFFSIZE - 1 -> Positions \cup {Unset}]]
    BY <1>4, <2>2 DEF TxCopy, TypeOK
  <2>4. TypeOK'
    BY <1>4, <2>3 DEF TxCopy, TypeOK, charVars, writerVars, fpgaVars
  <2>5. QED
    BY <1>2, <2>1, <2>4 DEF RingAccounting
<1>5. CASE TxAdvance
  <2>1. RingFilled + DescLevel + DescComp <= DMATXBUFFS /\ DescComp > DMATXDESCDELAY
        /\ FillLevel <= DescLevel
    BY <1>3, <1>5 DEF TxAdvance, PassAccounting
  <2>2. 1 \in 0 .. CircBuffAvail(BuffStart, BuffEnd, DMATXBUFFS)
    BY <2>1, SMTT(60) DEF RingFilled, CircBuffAvail
  <2>3. BuffEnd' = Advance(BuffEnd, 1, DMATXBUFFS)
    BY <1>5 DEF TxAdvance
  <2>4. RingFilled' = RingFilled + 1
    BY <1>1, <2>2, <2>3, FilledAfterProduce DEF RingFilled
  <2>5. BuffEnd' \in RingIndex
    BY <2>3, AdvanceWraps DEF RingIndex
  <2>6. cdev_write_buff_start' \in 0 .. CDEVBUFFSIZE - 1
    <3>1. cdev_write_buff_start \in 0 .. CDEVBUFFSIZE - 1
      BY DEF TypeOK
    <3>2. QED
      BY <1>5, <3>1, AdvanceWraps DEF TxAdvance
  <2>7. PassAccounting'
    <3>1. tpc' = "check" /\ DescLevel' = DescLevel /\ DescComp' = DescComp - 1
          /\ FillLevel' = FillLevel
      BY <1>1, <1>5 DEF TxAdvance, FillLevel
    <3>2. RingFilled' + DescLevel' + DescComp' <= DMATXBUFFS /\ FillLevel' <= DescLevel'
          /\ DescComp' >= DMATXDESCDELAY
      BY <2>1, <2>4, <3>1, SMTT(60)
    <3>3. QED
      BY <3>1, <3>2 DEF PassAccounting
  <2>8. DescComp' \in 0 .. DMATXBUFFS
    BY <1>5, <2>1, SMTT(60) DEF TxAdvance
  <2>9. TypeOK'
    BY <1>1, <1>5, <2>5, <2>6, <2>8 DEF TxAdvance, TypeOK, writerVars, fpgaVars
  <2>10. QED
    BY <1>2, <2>7, <2>9 DEF RingAccounting
<1>6. QED
  BY <1>4, <1>5

\* Moving BuffStart on by one puts every buffer before it one place further back.
LEMMA BeforeShift ==
    ASSUME NEW b \in 0 .. DMATXBUFFS - 1, NEW k \in 0 .. DMATXBUFFS - 1
    PROVE  Before(Advance(b, 1, DMATXBUFFS), k + 1) = Before(b, k)
<1>1. Advance(b, 1, DMATXBUFFS) = IF b + 1 < DMATXBUFFS THEN b + 1 ELSE b + 1 - DMATXBUFFS
  BY Sizes, AdvanceWraps
<1>2. QED
  BY <1>1, Sizes DEF Before

\* Queuing a descriptor moves one buffer from the filled ones to the FPGA.
LEMMA EnqueueKeepsAccounting ==
    ASSUME TypeOK, RingAccounting, TxEnqueue
    PROVE  TypeOK' /\ RingAccounting'
<1> USE Sizes, Counts
<1>1. /\ fifo' = Append(fifo, BuffStart) /\ inflight' = inflight
      /\ BuffStart' = Advance(BuffStart, 1, DMATXBUFFS) /\ BuffEnd' = BuffEnd
      /\ DescLevel' = DescLevel + 1 /\ BuffsToWrite' = BuffsToWrite - 1
      /\ tpc = "enqueue" /\ tpc' = "enqueue" /\ BuffsToWrite # 0
  BY DEF TxEnqueue
<1>2. /\ FillLevel <= DescLevel /\ RingFilled = BuffsToWrite
      /\ DescLevel + RingFilled <= DMATXBUFFS - DMATXDESCDELAY
  BY <1>1 DEF RingAccounting, PassAccounting
<1>3. fifo \in Seq(RingIndex) /\ BuffStart \in RingIndex
  BY DEF TypeOK
<1>4. /\ fifo' \in Seq(RingIndex) /\ Len(fifo') = Len(fifo) + 1
      /\ \A i \in 1 .. Len(fifo) : fifo'[i] = fifo[i]
      /\ fifo'[Len(fifo) + 1] = BuffStart
  BY <1>1, <1>3
<1>5. Len(fifo) + Len(inflight) <= DMATXBUFFS - 1
  BY <1>1, <1>2, SMTT(60) DEF FillLevel
<1>6. \A k \in 0 .. DMATXBUFFS - 1 : Before(BuffStart', k + 1) = Before(BuffStart, k)
  BY <1>1, BeforeShift
<1>7. DescriptorsInRingOrder'
  <2>1. ASSUME NEW i \in 1 .. Len(fifo') PROVE fifo'[i] = Before(BuffStart', Len(fifo') - i + 1)
    <3>1. CASE i = Len(fifo) + 1
      <4>1. Before(BuffStart', 0 + 1) = Before(BuffStart, 0)
        BY <1>6
      <4>2. Before(BuffStart, 0) = BuffStart
        BY DEF Before
      <4>3. QED
        BY <1>4, <3>1, <4>1, <4>2
    <3>2. CASE i \in 1 .. Len(fifo)
      <4>1. fifo'[i] = Before(BuffStart, Len(fifo) - i + 1)
        BY <1>4, <3>2 DEF RingAccounting, DescriptorsInRingOrder
      <4>2. Len(fifo) - i + 1 \in 0 .. DMATXBUFFS - 1
        BY <1>5, <3>2
      <4>3. Before(BuffStart', (Len(fifo) - i + 1) + 1) = Before(BuffStart, Len(fifo) - i + 1)
        BY <1>6, <4>2
      <4>4. (Len(fifo) - i + 1) + 1 = Len(fifo') - i + 1
        BY <1>4
      <4>5. QED
        BY <4>1, <4>3, <4>4
    <3>3. QED
      BY <1>4, <3>1, <3>2, SMTT(60)
  <2>2. ASSUME NEW i \in 1 .. Len(inflight)
        PROVE  inflight'[i] = Before(BuffStart', Len(fifo') + Len(inflight) - i + 1)
    <3>1. inflight[i] = Before(BuffStart, Len(fifo) + Len(inflight) - i + 1)
      BY DEF RingAccounting, DescriptorsInRingOrder
    <3>2. Len(fifo) + Len(inflight) - i + 1 \in 0 .. DMATXBUFFS - 1
      BY <1>5
    <3>3. Before(BuffStart', (Len(fifo) + Len(inflight) - i + 1) + 1) =
          Before(BuffStart, Len(fifo) + Len(inflight) - i + 1)
      BY <1>6, <3>2
    <3>4. (Len(fifo) + Len(inflight) - i + 1) + 1 = Len(fifo') + Len(inflight) - i + 1
      BY <1>4
    <3>5. QED
      BY <1>1, <3>1, <3>3, <3>4
  <2>3. QED
    BY <1>1, <2>1, <2>2 DEF DescriptorsInRingOrder, Before
<1>8. RingFilled' = RingFilled - 1
  <2>1. 1 \in 0 .. CircBuffFilled(BuffStart, BuffEnd, DMATXBUFFS)
    BY <1>1, <1>2, SMTT(60) DEF RingFilled
  <2>2. QED
    BY <1>1, <2>1, FilledAfterConsume DEF RingFilled
<1>9. PassAccounting'
  BY <1>1, <1>2, <1>4, <1>8, SMTT(60) DEF PassAccounting, FillLevel
<1>10. TypeOK'
  <2>1. BuffStart' \in RingIndex
    BY <1>1, AdvanceWraps DEF RingIndex
  <2>2. Len(fifo') <= DMATXDESCS
    BY <1>1, <1>2, <1>4, SMTT(60) DEF FillLevel
  <2>3. DescLevel' \in 0 .. DMATXBUFFS /\ BuffsToWrite' \in 0 .. DMATXBUFFS
    BY <1>1, <1>2, SMTT(60)
  <2>4. QED
    BY <1>1, <1>4, <2>1, <2>2, <2>3 DEF TxEnqueue, TypeOK, charVars, writerVars
<1>11. QED
  BY <1>7, <1>9, <1>10 DEF RingAccounting

\* The FPGA takes the oldest queued descriptor: its place in the ring order stays.
LEMMA FpgaStartKeepsAccounting ==
    ASSUME TypeOK, RingAccounting, FpgaStart
    PROVE  TypeOK' /\ RingAccounting'
<1> USE Sizes, Counts
<1>1. /\ fifo # <<>> /\ Len(inflight) < InFlightMax
      /\ inflight' = Append(inflight, Head(fifo)) /\ fifo' = Tail(fifo)
  BY DEF FpgaStart
<1>2. fifo \in Seq(RingIndex) /\ inflight \in Seq(RingIndex)
  BY DEF TypeOK
<1>3. /\ fifo' \in Seq(RingIndex) /\ Len(fifo') = Len(fifo) - 1
      /\ \A i \in 1 .. Len(fifo') : fifo'[i] = fifo[i + 1]
  BY <1>1, <1>2
<1>4. Head(fifo) = fifo[1] /\ Head(fifo) \in RingIndex /\ Len(fifo) >= 1
  BY <1>1, <1>2
<1>5. /\ inflight' \in Seq(RingIndex) /\ Len(inflight') = Len(inflight) + 1
      /\ \A i \in 1 .. Len(inflight) : inflight'[i] = inflight[i]
      /\ inflight'[Len(inflight) + 1] = fifo[1]
  BY <1>1, <1>2, <1>4
<1>6. UNCHANGED <<threadVars, BuffStart>>
  BY DEF FpgaStart, threadVars
<1>7. DescriptorsInRingOrder'
  <2>1. ASSUME NEW i \in 1 .. Len(fifo') PROVE fifo'[i] = Before(BuffStart, Len(fifo') - i + 1)
    <3>1. i + 1 \in 1 .. Len(fifo) /\ Len(fifo) - (i + 1) + 1 = Len(fifo') - i + 1
      BY <1>3, SMTT(60)
    <3>2. fifo[i + 1] = Before(BuffStart, Len(fifo) - (i + 1) + 1)
      BY <3>1 DEF RingAccounting, DescriptorsInRingOrder
    <3>3. QED
      BY <1>3, <3>1, <3>2
  <2>2. ASSUME NEW i \in 1 .. Len(inflight')
        PROVE  inflight'[i] = Before(BuffStart, Len(fifo') + Len(inflight') - i + 1)
    <3>1. Len(fifo') + Len(inflight') = Len(fifo) + Len(inflight)
      BY <1>3, <1>5
    <3>2. CASE i = Len(inflight) + 1
      <4>1. fifo[1] = Before(BuffStart, Len(fifo) - 1 + 1)
        BY <1>4 DEF RingAccounting, DescriptorsInRingOrder
      <4>2. Len(fifo) - 1 + 1 = Len(fifo) + Len(inflight) - i + 1
        BY <3>2
      <4>3. QED
        BY <1>5, <3>1, <3>2, <4>1, <4>2, SMTT(60)
    <3>3. CASE i \in 1 .. Len(inflight)
      <4>1. inflight[i] = Before(BuffStart, Len(fifo) + Len(inflight) - i + 1)
        BY <3>3 DEF RingAccounting, DescriptorsInRingOrder
      <4>2. inflight'[i] = inflight[i]
        BY <1>5, <3>3
      <4>3. Len(fifo) + Len(inflight) - i + 1 = Len(fifo') + Len(inflight') - i + 1
        BY <3>1, SMTT(60)
      <4>4. QED
        BY <4>1, <4>2, <4>3
    <3>4. QED
      BY <1>5, <3>2, <3>3, SMTT(60)
  <2>3. QED
    BY <1>6, <2>1, <2>2 DEF DescriptorsInRingOrder, Before
<1>8. PassAccounting'
  <2>1. FillLevel' <= FillLevel /\ FillLevel' \in Nat /\ RingFilled' = RingFilled
    BY <1>3, <1>6, SMTT(60) DEF FillLevel, RingFilled, threadVars
  <2>2. QED
    BY <1>6, <2>1 DEF RingAccounting, PassAccounting, threadVars
<1>9. TypeOK'
  <2>1. Len(fifo') <= DMATXDESCS /\ Len(inflight') <= InFlightMax
    <3>1. Len(fifo) <= DMATXDESCS
      BY DEF TypeOK
    <3>2. Len(inflight) + 1 <= InFlightMax
      BY <1>1
    <3>3. QED
      BY <1>3, <1>5, <3>1, <3>2
  <2>2. QED
    BY <1>3, <1>5, <2>1 DEF FpgaStart, TypeOK, charVars, writerVars, threadVars
<1>10. QED
  BY <1>7, <1>8, <1>9 DEF RingAccounting

\* The FPGA finishes with the oldest buffer it works on.
LEMMA FpgaCompleteKeepsAccounting ==
    ASSUME TypeOK, RingAccounting, FpgaComplete
    PROVE  TypeOK' /\ RingAccounting'
<1> USE Sizes, Counts
<1>1. inflight # <<>> /\ inflight' = Tail(inflight) /\ fifo' = fifo
  BY DEF FpgaComplete
<1>2. inflight \in Seq(RingIndex)
  BY DEF TypeOK
<1>3. /\ inflight' \in Seq(RingIndex) /\ Len(inflight') = Len(inflight) - 1
      /\ \A i \in 1 .. Len(inflight') : inflight'[i] = inflight[i + 1]
      /\ Head(inflight) \in RingIndex
  BY <1>1, <1>2
<1>4. UNCHANGED threadVars
  BY DEF FpgaComplete
<1>5. DescriptorsInRingOrder'
  <2>1. ASSUME NEW i \in 1 .. Len(inflight')
        PROVE  inflight'[i] = Before(BuffStart, Len(fifo) + Len(inflight') - i + 1)
    <3>1. /\ i + 1 \in 1 .. Len(inflight)
          /\ Len(fifo) + Len(inflight) - (i + 1) + 1 = Len(fifo) + Len(inflight') - i + 1
      BY <1>3, SMTT(60)
    <3>2. inflight[i + 1] = Before(BuffStart, Len(fifo) + Len(inflight) - (i + 1) + 1)
      BY <3>1 DEF RingAccounting, DescriptorsInRingOrder
    <3>3. QED
      BY <1>3, <3>1, <3>2
  <2>2. QED
    BY <1>1, <1>4, <2>1 DEF RingAccounting, DescriptorsInRingOrder, Before, threadVars
<1>6. PassAccounting'
  BY <1>1, <1>4 DEF RingAccounting, PassAccounting, RingFilled, FillLevel, threadVars
<1>7. out' \in Seq(Positions \cup {Unset})
  <2>1. [i \in 1 .. DMABUFFSIZE |-> pTxDmaBuffs[Head(inflight)][i - 1]]
          \in Seq(Positions \cup {Unset})
    <3>1. ASSUME NEW i \in 1 .. DMABUFFSIZE
          PROVE  pTxDmaBuffs[Head(inflight)][i - 1] \in Positions \cup {Unset}
      <4>1. i - 1 \in 0 .. DMABUFFSIZE - 1
        OBVIOUS
      <4>2. pTxDmaBuffs[Head(inflight)] \in [0 .. DMABUFFSIZE - 1 -> Positions \cup {Unset}]
        BY <1>3 DEF TypeOK
      <4>3. QED
        BY <4>1, <4>2
    <3>2. DMABUFFSIZE \in Nat
      OBVIOUS
    <3>3. QED
      BY <3>1, <3>2
  <2>2. out \in Seq(Positions \cup {Unset})
    BY DEF TypeOK
  <2>3. QED
    BY <2>1, <2>2 DEF FpgaComplete
<1>8. TypeOK'
  <2>1. Len(inflight') <= InFlightMax
    BY <1>3
  <2>2. QED
    BY <1>1, <1>3, <1>7, <2>1 DEF FpgaComplete, TypeOK, charVars, writerVars, threadVars
<1>9. QED
  BY <1>5, <1>6, <1>8 DEF RingAccounting

-------------------------------------------------------------------------------
(* The invariant and what follows from it *)

\* Every step keeps the types and the accounting.
LEMMA StepKeepsAccounting ==
    ASSUME TypeOK, RingAccounting, [Next]_vars
    PROVE  TypeOK' /\ RingAccounting'
<1>1. ASSUME NEW w \in Writers, WriterStep(w) \/ \E n \in WriteLens : WriteCall(w, n)
      PROVE  TypeOK' /\ RingAccounting'
  BY <1>1, WriterKeepsAccounting
<1>2. CASE TxThread
  BY <1>2, CountingKeepsAccounting, CopyingKeepsAccounting, EnqueueKeepsAccounting
     DEF TxThread
<1>3. CASE Fpga
  BY <1>3, FpgaStartKeepsAccounting, FpgaCompleteKeepsAccounting DEF Fpga
<1>4. CASE StopThread
  <2>1. RingAccounting'
    BY <1>4, AccountingFrame DEF StopThread, fpgaVars
  <2>2. TypeOK'
    BY <1>4 DEF StopThread, TypeOK, charVars, writerVars, threadVars, fpgaVars
  <2>3. QED
    BY <2>1, <2>2
<1>5. CASE UNCHANGED vars
  <2>1. RingAccounting'
    BY <1>5, AccountingFrame DEF vars, fpgaVars
  <2>2. TypeOK'
    BY <1>5 DEF vars, TypeOK, charVars, writerVars, threadVars, fpgaVars
  <2>3. QED
    BY <2>1, <2>2
<1>6. QED
  BY <1>1, <1>2, <1>3, <1>4, <1>5 DEF Next

\* Types hold throughout, with any number of writers.
THEOREM TypeCorrect == Spec => []TypeOK
<1>1. Init => TypeOK /\ RingAccounting
  BY InitAccounting
<1>2. TypeOK /\ RingAccounting /\ [Next]_vars => (TypeOK /\ RingAccounting)'
  BY StepKeepsAccounting
<1>3. QED
  BY <1>1, <1>2, PTL DEF Spec

\* dev_write_task's bookkeeping never loses track of a DMA buffer, whatever the
\* writers do and however slowly the FPGA works.
THEOREM AccountingHolds == Spec => []RingAccounting
<1>1. Init => TypeOK /\ RingAccounting
  BY InitAccounting
<1>2. TypeOK /\ RingAccounting /\ [Next]_vars => (TypeOK /\ RingAccounting)'
  BY StepKeepsAccounting
<1>3. QED
  BY <1>1, <1>2, PTL DEF Spec

\* Going back over the buffers the FPGA holds never reaches BuffEnd while those and
\* the filled ones are fewer than the ring.
LEMMA BeforeMissesEnd ==
    ASSUME NEW b \in 0 .. DMATXBUFFS - 1, NEW e \in 0 .. DMATXBUFFS - 1,
           NEW k \in 1 .. DMATXBUFFS - 1 - CircBuffFilled(b, e, DMATXBUFFS)
    PROVE  Before(b, k) # e
  BY Sizes DEF Before, CircBuffFilled

\* The thread never writes a DMA buffer that a descriptor in the FPGA names.
THEOREM BufferStable == Spec => []DmaBufferStable
<1>1. TypeOK /\ RingAccounting => DmaBufferStable
  <2> SUFFICES ASSUME TypeOK, RingAccounting, tpc \in {"copy", "advance"}
               PROVE  BuffEnd \notin Owned
    BY DEF DmaBufferStable
  <2> USE Sizes, Counts
  <2>1. /\ FillLevel <= DescLevel /\ DescComp > DMATXDESCDELAY
        /\ RingFilled + DescLevel + DescComp <= DMATXBUFFS
    BY DEF RingAccounting, PassAccounting
  <2>2. Len(fifo) + Len(inflight) + RingFilled <= DMATXBUFFS - 1
    BY <2>1 DEF FillLevel
  <2>3. ASSUME NEW i \in 1 .. Len(fifo) PROVE fifo[i] # BuffEnd
    <3>1. Len(fifo) - i + 1 \in 1 .. DMATXBUFFS - 1 - RingFilled
      BY <2>2
    <3>2. QED
      BY <3>1, BeforeMissesEnd DEF RingAccounting, DescriptorsInRingOrder, RingFilled
  <2>4. ASSUME NEW i \in 1 .. Len(inflight) PROVE inflight[i] # BuffEnd
    <3>1. Len(fifo) + Len(inflight) - i + 1 \in 1 .. DMATXBUFFS - 1 - RingFilled
      BY <2>2
    <3>2. QED
      BY <3>1, BeforeMissesEnd DEF RingAccounting, DescriptorsInRingOrder, RingFilled
  <2>5. QED
    BY <2>3, <2>4 DEF Owned
<1>2. QED
  BY <1>1, TypeCorrect, AccountingHolds, PTL

-------------------------------------------------------------------------------
(* One writer: the byte ring *)

OneWriter == \A v, w \in Writers : v = w

\* What the two wait loops have established still holds when the copy they
\* guard runs, although the mutex was released in between.
WriteAccounting ==
    /\ tpc \in {"copy", "advance"} => WriteFilled > DMABUFFSIZE
    /\ \A w \in Writers : wpc[w] \in {"copy", "advance"} => len[w] <= WriteAvail

\* The fill and the room of the byte ring are naturals that add up to its size less one.
LEMMA WriteCounts ==
    ASSUME TypeOK
    PROVE  /\ WriteFilled \in 0 .. CDEVBUFFSIZE - 1 /\ WriteAvail \in 0 .. CDEVBUFFSIZE - 1
           /\ WriteFilled + WriteAvail = CDEVBUFFSIZE - 1
           /\ cdev_write_buff_start \in 0 .. CDEVBUFFSIZE - 1
           /\ cdev_write_buff_end \in 0 .. CDEVBUFFSIZE - 1
<1>1. /\ cdev_write_buff_start \in 0 .. CDEVBUFFSIZE - 1
      /\ cdev_write_buff_end \in 0 .. CDEVBUFFSIZE - 1
  BY DEF TypeOK
<1>2. QED
  BY <1>1, Sizes, FilledBounds DEF WriteFilled, WriteAvail

\* The only steps that move an index of the byte ring are WriteReturn, which adds
\* what the writer had room for, and TxAdvance, which takes what the thread had found.
LEMMA StepKeepsWriteAccounting ==
    ASSUME OneWriter, TypeOK, WriteAccounting, [Next]_vars
    PROVE  WriteAccounting'
<1> USE Sizes, WriteCounts
<1>1. ASSUME UNCHANGED <<cdev_write_buff_start, cdev_write_buff_end>>
      PROVE  WriteFilled' = WriteFilled /\ WriteAvail' = WriteAvail
  BY <1>1 DEF WriteFilled, WriteAvail
<1>2. ASSUME NEW w \in Writers PROVE len[w] \in Nat
  BY LenIsNat
<1>3. ASSUME NEW w \in Writers, WriterStep(w) \/ \E n \in WriteLens : WriteCall(w, n)
      PROVE  WriteAccounting'
  <2>1. tpc' = tpc /\ cdev_write_buff_start' = cdev_write_buff_start
    BY <1>3 DEF WriterStep, WriteCall, WriteHasRoom, WriteCopy, WriteReturn, charVars,
                threadVars
  <2>2. \A v \in Writers : v = w
    BY DEF OneWriter
  <2>3. ASSUME NEW n \in WriteLens, WriteCall(w, n) PROVE WriteAccounting'
    <3>1. wpc'[w] = "wait" /\ UNCHANGED charVars
      BY <2>3 DEF WriteCall, TypeOK
    <3>2. QED
      BY <1>1, <2>1, <2>2, <3>1 DEF WriteAccounting, charVars
  <2>4. CASE WriteHasRoom(w)
    <3>1. UNCHANGED <<charVars, len>> /\ len[w] <= WriteAvail
      BY <1>2, <2>4 DEF WriteHasRoom
    <3>2. QED
      BY <1>1, <2>1, <2>2, <3>1 DEF WriteAccounting, charVars
  <2>5. CASE WriteCopy(w)
    <3>1. UNCHANGED <<cdev_write_buff_start, cdev_write_buff_end, len>> /\ wpc[w] = "copy"
      BY <2>5 DEF WriteCopy
    <3>2. QED
      BY <1>1, <2>1, <2>2, <3>1 DEF WriteAccounting
  <2>6. CASE WriteReturn(w)
    <3>1. len[w] \in 0 .. WriteAvail /\ wpc'[w] = "idle"
      BY <1>2, <2>6 DEF WriteReturn, WriteAccounting, TypeOK
    <3>2. cdev_write_buff_end' = Advance(cdev_write_buff_end, len[w], CDEVBUFFSIZE)
      BY <2>6 DEF WriteReturn
    <3>3. WriteFilled' = WriteFilled + len[w]
      BY <2>1, <3>1, <3>2, FilledAfterProduce DEF WriteFilled, WriteAvail
    <3>4. tpc' \in {"copy", "advance"} => WriteFilled' > DMABUFFSIZE
      BY <1>2, <2>1, <3>1, <3>3 DEF WriteAccounting
    <3>5. QED
      BY <2>2, <3>1, <3>4 DEF WriteAccounting
  <2>7. QED
    BY <1>3, <2>3, <2>4, <2>5, <2>6 DEF WriterStep
<1>4. CASE TxThread
  <2>1. wpc' = wpc /\ len' = len /\ cdev_write_buff_end' = cdev_write_buff_end
    BY <1>4 DEF TxThread, TxExitAtTop, TxSeesRoom, TxReadLevel, TxFindsData,
                TxFindsNoData, TxCopy, TxAdvance, TxCountDescriptors, TxEnqueue,
                TxBottom, TxDrain, TxExitDrained, writerVars, charVars
  <2>2. CASE TxAdvance
    <3>1. DMABUFFSIZE \in 0 .. WriteFilled /\ tpc' = "check"
      BY <2>2 DEF TxAdvance, WriteAccounting
    <3>2. WriteFilled' = WriteFilled - DMABUFFSIZE
      BY <2>1, <2>2, <3>1, FilledAfterConsume DEF TxAdvance, WriteFilled
    <3>3. WriteAvail' >= WriteAvail
      BY <3>2 DEF WriteAvail, WriteFilled, CircBuffAvail
    <3>4. WriteAvail' \in Int
      BY <3>2 DEF WriteAvail, WriteFilled, CircBuffAvail
    <3>5. ASSUME NEW w \in Writers, wpc'[w] \in {"copy", "advance"}
          PROVE  len'[w] <= WriteAvail'
      <4>1. len[w] <= WriteAvail /\ len[w] \in Nat
        BY <1>2, <2>1, <3>5 DEF WriteAccounting
      <4>2. QED
        BY <2>1, <3>3, <3>4, <4>1
    <3>6. QED
      BY <3>1, <3>5 DEF WriteAccounting
  <2>3. CASE TxFindsData
    <3>1. WriteFilled > DMABUFFSIZE
          /\ UNCHANGED <<cdev_write_buff_start, cdev_write_buff_end>>
      BY <2>3 DEF TxFindsData, charVars
    <3>2. QED
      BY <1>1, <2>1, <3>1 DEF WriteAccounting
  <2>4. CASE TxCopy
    <3>1. tpc = "copy" /\ UNCHANGED <<cdev_write_buff_start, cdev_write_buff_end>>
      BY <2>4 DEF TxCopy, charVars
    <3>2. QED
      BY <1>1, <2>1, <3>1 DEF WriteAccounting
  <2>5. CASE \/ TxExitAtTop \/ TxSeesRoom \/ TxReadLevel \/ TxFindsNoData
             \/ TxCountDescriptors \/ TxEnqueue \/ TxBottom \/ TxDrain \/ TxExitDrained
    <3>1. UNCHANGED <<cdev_write_buff_start, cdev_write_buff_end>>
          /\ tpc' \notin {"copy", "advance"}
      BY <2>5 DEF TxExitAtTop, TxSeesRoom, TxReadLevel, TxFindsNoData,
                  TxCountDescriptors, TxEnqueue, TxBottom, TxDrain, TxExitDrained, charVars
    <3>2. QED
      BY <1>1, <2>1, <3>1 DEF WriteAccounting
  <2>6. QED
    BY <1>4, <2>2, <2>3, <2>4, <2>5 DEF TxThread
<1>5. CASE Fpga \/ StopThread \/ UNCHANGED vars
  <2>1. UNCHANGED <<cdev_write_buff_start, cdev_write_buff_end, tpc, wpc, len>>
    BY <1>5 DEF Fpga, FpgaStart, FpgaComplete, StopThread, vars, charVars, writerVars,
                threadVars
  <2>2. QED
    BY <1>1, <2>1 DEF WriteAccounting
<1>6. QED
  BY <1>3, <1>4, <1>5 DEF Next

\* With one writer, each side of cdev_write_buff keeps to its own bytes while it
\* copies with the mutex released.
THEOREM OneWriterKeepsToItsSide ==
    ASSUME OneWriter
    PROVE  Spec => []CopiesKeepToTheirSide
<1>1. Init => WriteAccounting
  BY DEF Init, WriteAccounting
<1>2. TypeOK /\ WriteAccounting /\ [Next]_vars => WriteAccounting'
  BY StepKeepsWriteAccounting
<1>3. TypeOK /\ WriteAccounting => CopiesKeepToTheirSide
  <2> SUFFICES ASSUME TypeOK, WriteAccounting PROVE CopiesKeepToTheirSide
    OBVIOUS
  <2> USE Sizes, WriteCounts
  <2>1. ASSUME NEW w \in Writers, wpc[w] = "copy"
        PROVE  WriterRegion(w) \cap UnreadRegion = {}
    <3>1. len[w] \in 0 .. WriteAvail
      BY <2>1, LenIsNat DEF WriteAccounting
    <3>2. QED
      BY <3>1, FreeAndUsedDisjoint
         DEF WriterRegion, UnreadRegion, WriteAvail, WriteFilled
  <2>2. ASSUME tpc = "copy" PROVE ThreadRegion \subseteq UnreadRegion
    <3>1. DMABUFFSIZE \in 0 .. WriteFilled /\ WriteFilled \in Nat
      BY <2>2 DEF WriteAccounting
    <3>2. QED
      BY <3>1, RegionMonotone DEF ThreadRegion, UnreadRegion
  <2>3. QED
    BY <2>1, <2>2 DEF CopiesKeepToTheirSide
<1>4. QED
  BY <1>1, <1>2, <1>3, TypeCorrect, PTL DEF Spec
-------------------------------------------------------------------------------
(***************************************************************************)
(* TxStream with one writer implements ByteStream: what the driver's two   *)
(* rings, its thread and the FPGA do between them is to accept bytes up to *)
(* a capacity and to deliver them in order.                                *)
(*                                                                         *)
(* A byte that was accepted and not delivered is in one of the Held DMA    *)
(* buffers behind BuffEnd, those in the FPGA and those filled for it, or   *)
(* in the byte ring; StreamInOrder says which byte is where.               *)
(***************************************************************************)
Held == Len(fifo) + Len(inflight) + RingFilled

\* The position of the oldest byte in the byte ring, and DMABUFFSIZE bytes of the
\* stream from p onwards.
Oldest == accepted - WriteFilled
Block(p) == [i \in 0 .. DMABUFFSIZE - 1 |-> p + i]

\* A cell in use, and a cell a writer has filled and not yet handed over.
Unread(i) == cdev_write_buff[Advance(cdev_write_buff_start, i, CDEVBUFFSIZE)] = Oldest + i
Written(i) == cdev_write_buff[Advance(cdev_write_buff_end, i, CDEVBUFFSIZE)] = accepted + i

StreamInOrder ==
    /\ Oldest = Len(out) + Held * DMABUFFSIZE
    /\ \A i \in 0 .. WriteFilled - 1 : Unread(i)
    /\ \A w \in Writers : wpc[w] = "advance" => \A i \in 0 .. len[w] - 1 : Written(i)
    /\ \A k \in 1 .. Held : pTxDmaBuffs[Before(BuffEnd, k)] = Block(Oldest - k * DMABUFFSIZE)
    /\ tpc = "advance" => pTxDmaBuffs[BuffEnd] = Block(Oldest)

ByteInv == TypeOK /\ RingAccounting /\ WriteAccounting /\ StreamInOrder
HeldFits == Held <= DMATXBUFFS /\ (tpc \in {"copy", "advance"} => Held < DMATXBUFFS)
-------------------------------------------------------------------------------
(* The numbers the stream is about *)

ByteNumbers ==
    /\ cdev_write_buff_start \in 0 .. CDEVBUFFSIZE - 1
    /\ cdev_write_buff_end \in 0 .. CDEVBUFFSIZE - 1
    /\ WriteFilled \in 0 .. CDEVBUFFSIZE - 1 /\ WriteAvail \in 0 .. CDEVBUFFSIZE - 1
    /\ WriteFilled + WriteAvail = CDEVBUFFSIZE - 1
    /\ accepted \in Nat /\ Oldest \in Int /\ Oldest = accepted - WriteFilled
    /\ BuffStart \in 0 .. DMATXBUFFS - 1 /\ BuffEnd \in 0 .. DMATXBUFFS - 1
    /\ RingFilled \in 0 .. DMATXBUFFS - 1
    /\ Len(fifo) \in Nat /\ Len(inflight) \in 0 .. InFlightMax /\ Len(out) \in Nat
    /\ Held = Len(fifo) + Len(inflight) + RingFilled /\ Held \in Nat

LEMMA ByteCounts == TypeOK => ByteNumbers
<1> SUFFICES ASSUME TypeOK PROVE ByteNumbers
  OBVIOUS
<1>1. /\ WriteFilled \in 0 .. CDEVBUFFSIZE - 1 /\ WriteAvail \in 0 .. CDEVBUFFSIZE - 1
      /\ WriteFilled + WriteAvail = CDEVBUFFSIZE - 1
      /\ cdev_write_buff_start \in 0 .. CDEVBUFFSIZE - 1
      /\ cdev_write_buff_end \in 0 .. CDEVBUFFSIZE - 1
  BY WriteCounts
<1>2. /\ BuffStart \in 0 .. DMATXBUFFS - 1 /\ BuffEnd \in 0 .. DMATXBUFFS - 1
      /\ RingFilled \in 0 .. DMATXBUFFS - 1 /\ Len(fifo) \in Nat
      /\ Len(inflight) \in 0 .. InFlightMax
  <2>1. /\ BuffStart \in 0 .. DMATXBUFFS - 1 /\ BuffEnd \in 0 .. DMATXBUFFS - 1
        /\ RingFilled \in 0 .. DMATXBUFFS - 1 /\ Len(fifo) \in Nat /\ Len(inflight) \in Nat
        /\ Len(inflight) <= InFlightMax
    BY Counts
  <2>2. QED
    BY <2>1, Sizes
<1>3. accepted \in Nat /\ Len(out) \in Nat
  BY DEF TypeOK
<1>4. Held \in Nat
  BY <1>2, Sizes DEF Held
<1>5. Oldest \in Int
  BY <1>1, <1>3, Sizes DEF Oldest
<1>6. QED
  BY <1>1, <1>2, <1>3, <1>4, <1>5 DEF ByteNumbers, Held, Oldest

\* The buffers that hold the stream are never more than the ring, and leave one
\* free while dev_write_task fills BuffEnd: DMATXDESCDELAY covers those in the FPGA.
LEMMA RingHoldsAll ==
    ASSUME TypeOK, RingAccounting
    PROVE  HeldFits
<1>1. /\ ByteNumbers /\ PassAccounting
      /\ DescLevel \in Nat /\ DescComp \in Nat /\ BuffsToWrite \in Nat
      /\ FillLevel = Len(fifo)
  BY ByteCounts, Counts DEF RingAccounting, FillLevel
<1>2. RingFilled = 0 <=> BuffStart = BuffEnd
  BY Counts
<1>3. CASE tpc \in {"poll", "level", "drain", "exited"}
  <2>1. RingFilled = 0 /\ Len(fifo) <= DMATXBUFFS - DMATXDESCDELAY
    BY <1>1, <1>2, <1>3 DEF PassAccounting
  <2>2. QED
    BY <1>1, <1>3, <2>1, Sizes DEF HeldFits, ByteNumbers
<1>4. CASE tpc \in {"check", "copy", "advance"}
  <2>1. /\ Len(fifo) <= DescLevel /\ RingFilled + DescLevel + DescComp <= DMATXBUFFS
        /\ DescComp >= DMATXDESCDELAY
        /\ tpc \in {"copy", "advance"} => DescComp > DMATXDESCDELAY
    BY <1>1, <1>4 DEF PassAccounting
  <2>2. QED
    BY <1>1, <2>1, Sizes, SMTT(60) DEF HeldFits, ByteNumbers
<1>5. CASE tpc = "enqueue"
  <2>1. Len(fifo) <= DescLevel /\ DescLevel + RingFilled <= DMATXBUFFS - DMATXDESCDELAY
    BY <1>1, <1>5 DEF PassAccounting
  <2>2. QED
    BY <1>1, <1>5, <2>1, Sizes, SMTT(60) DEF HeldFits, ByteNumbers
<1>6. QED
  BY <1>3, <1>4, <1>5 DEF TypeOK

\* Going back from BuffEnd over fewer buffers than the ring has reaches others only.
LEMMA BeforeIsAnother ==
    ASSUME NEW e \in 0 .. DMATXBUFFS - 1, NEW k \in 1 .. DMATXBUFFS - 1
    PROVE  Before(e, k) # e /\ Before(e, k) \in 0 .. DMATXBUFFS - 1
  BY Sizes DEF Before

\* Seen from BuffEnd, the buffers in the FPGA come after the filled ones.
LEMMA BeforeFromEnd ==
    ASSUME TypeOK, NEW k \in Nat, RingFilled + k <= DMATXBUFFS
    PROVE  Before(BuffStart, k) = Before(BuffEnd, RingFilled + k)
<1>1. BuffStart \in 0 .. DMATXBUFFS - 1 /\ BuffEnd \in 0 .. DMATXBUFFS - 1
  BY Counts
<1>2. QED
  BY <1>1, Sizes DEF Before, RingFilled, CircBuffFilled
-------------------------------------------------------------------------------
(* Every step keeps the stream in order. *)

\* Steps that move no byte of the stream from one place to another.
LEMMA ByteFrame ==
    ASSUME StreamInOrder, UNCHANGED <<charVars, accepted, BuffEnd, pTxDmaBuffs, out>>,
           Held' = Held, tpc' = tpc \/ tpc' # "advance",
           \A w \in Writers : wpc'[w] = "advance" => wpc[w] = "advance" /\ len'[w] = len[w]
    PROVE  StreamInOrder'
<1>1. WriteFilled' = WriteFilled /\ Oldest' = Oldest
  BY DEF WriteFilled, Oldest, charVars
<1>2. QED
  BY <1>1 DEF StreamInOrder, charVars, Unread, Written, Before, Block

\* A write's bytes go into the free cells behind the end index.
LEMMA WriteCopyKeepsStream ==
    ASSUME OneWriter, ByteInv, NEW w \in Writers, WriteCopy(w)
    PROVE  StreamInOrder'
<1>1. /\ TypeOK /\ ByteNumbers /\ len[w] \in Nat /\ wpc[w] = "copy" /\ wpc'[w] = "advance"
      /\ UNCHANGED <<cdev_write_buff_start, cdev_write_buff_end, len, accepted, tpc, BuffEnd,
                     pTxDmaBuffs, out>>
      /\ \A v \in Writers : v = w
  BY ByteCounts, LenIsNat DEF ByteInv, WriteCopy, TypeOK, threadVars, fpgaVars, OneWriter
<1>2. len[w] <= WriteAvail
  BY <1>1 DEF ByteInv, WriteAccounting
<1>3. WriteFilled' = WriteFilled /\ Oldest' = Oldest /\ Held' = Held
  BY <1>1 DEF WriteCopy, WriteFilled, Oldest, Held, RingFilled, fpgaVars, threadVars
<1>4. \A c \in 0 .. CDEVBUFFSIZE - 1 :
        LET i == CircBuffFilled(cdev_write_buff_end, c, CDEVBUFFSIZE)
        IN  /\ i < len[w] => cdev_write_buff'[c] = accepted + i
            /\ ~(i < len[w]) => cdev_write_buff'[c] = cdev_write_buff[c]
  BY DEF WriteCopy
<1>5. ASSUME NEW i \in 0 .. WriteFilled' - 1 PROVE Unread(i)'
  <2> DEFINE c == Advance(cdev_write_buff_start, i, CDEVBUFFSIZE)
             d == CircBuffFilled(cdev_write_buff_end, c, CDEVBUFFSIZE)
  <2>1. d > WriteAvail /\ c \in 0 .. CDEVBUFFSIZE - 1
    BY <1>1, <1>3, Sizes, UsedCellsBehindFree DEF ByteNumbers, WriteFilled, WriteAvail
  <2>2. d \in Int
    BY <1>1, <2>1, Sizes, FilledBounds, SMTT(60) DEF ByteNumbers
  <2>3. ~(d < len[w])
    <3> HIDE DEF c, d
    <3>1. QED
      BY <1>1, <1>2, <2>1, <2>2, Sizes DEF ByteNumbers
  <2>4. cdev_write_buff'[c] = cdev_write_buff[c]
    BY <1>4, <2>1, <2>3
  <2>5. Unread(i)
    BY <1>3 DEF ByteInv, StreamInOrder
  <2>6. QED
    BY <1>1, <1>3, <2>4, <2>5 DEF Unread
<1>6. ASSUME NEW i \in 0 .. len[w] - 1 PROVE Written(i)'
  <2> DEFINE c == Advance(cdev_write_buff_end, i, CDEVBUFFSIZE)
  <2>1. i \in 0 .. CDEVBUFFSIZE - 1 /\ i < len[w]
    <3>1. len[w] \in Nat /\ WriteAvail \in 0 .. CDEVBUFFSIZE - 1
      BY <1>1 DEF ByteNumbers
    <3>2. QED
      BY <1>2, <3>1, Sizes
  <2>2. CircBuffFilled(cdev_write_buff_end, c, CDEVBUFFSIZE) = i
    BY <1>1, <2>1, Sizes, FilledUpTo DEF ByteNumbers
  <2>3. c \in 0 .. CDEVBUFFSIZE - 1
    <3>1. i \in 0 .. CDEVBUFFSIZE
      BY <2>1, Sizes
    <3>2. QED
      BY <1>1, <3>1, Sizes, AdvanceWraps DEF ByteNumbers
  <2>4. cdev_write_buff'[c] = accepted + i
    BY <1>4, <2>1, <2>2, <2>3
  <2>5. QED
    BY <1>1, <2>4 DEF Written
<1>7. QED
  BY <1>1, <1>3, <1>5, <1>6 DEF ByteInv, StreamInOrder, Before, Block

\* When the call returns they are the newest bytes of the stream.
LEMMA WriteReturnKeepsStream ==
    ASSUME OneWriter, ByteInv, NEW w \in Writers, WriteReturn(w)
    PROVE  /\ StreamInOrder'
           /\ len[w] \in 0 .. WriteAvail /\ accepted' = accepted + len[w] /\ out' = out
<1>1. /\ TypeOK /\ ByteNumbers /\ len[w] \in Nat /\ wpc[w] = "advance" /\ wpc'[w] = "idle"
      /\ UNCHANGED <<cdev_write_buff, cdev_write_buff_start, len, tpc, BuffEnd, pTxDmaBuffs, out>>
      /\ cdev_write_buff_end' = Advance(cdev_write_buff_end, len[w], CDEVBUFFSIZE)
      /\ accepted' = accepted + len[w]
      /\ \A v \in Writers : v = w
  BY ByteCounts, LenIsNat DEF ByteInv, WriteReturn, TypeOK, threadVars, fpgaVars, OneWriter
<1>2. len[w] \in 0 .. WriteAvail
  BY <1>1, SMTT(60) DEF ByteInv, WriteAccounting, ByteNumbers
<1>3. Held' = Held
  BY <1>1 DEF WriteReturn, Held, RingFilled, fpgaVars, threadVars
<1>4. WriteFilled' = WriteFilled + len[w]
  <2>1. len[w] \in 0 .. CircBuffAvail(cdev_write_buff_start, cdev_write_buff_end, CDEVBUFFSIZE)
    BY <1>2 DEF WriteAvail
  <2>2. QED
    BY <1>1, <2>1, Sizes, FilledAfterProduce DEF ByteNumbers, WriteFilled
<1>5. Oldest' = Oldest
  <2>1. accepted \in Nat /\ WriteFilled \in Nat /\ len[w] \in Nat
    BY <1>1, Sizes DEF ByteNumbers
  <2>2. accepted' = accepted + len[w]
    BY <1>1
  <2>3. QED
    BY <1>4, <2>1, <2>2 DEF Oldest
<1>6. /\ \A i \in 0 .. WriteFilled - 1 : Unread(i)
      /\ \A i \in 0 .. len[w] - 1 : Written(i)
  BY <1>1 DEF ByteInv, StreamInOrder
<1>7. ASSUME NEW i \in 0 .. WriteFilled' - 1 PROVE Unread(i)'
  <2>1. CASE i < WriteFilled
    <3>1. i \in 0 .. WriteFilled - 1
      BY <1>1, <1>4, <2>1, Sizes DEF ByteNumbers
    <3>2. QED
      BY <1>1, <1>5, <1>6, <3>1 DEF Unread
  <2>2. CASE i >= WriteFilled
    <3> DEFINE j == i - WriteFilled
    <3>1. j \in 0 .. len[w] - 1 /\ WriteFilled + j = i
      <4>1. WriteFilled \in Nat /\ len[w] \in Nat /\ WriteFilled' \in Nat
        BY <1>1, <1>4, Sizes, SMTT(60) DEF ByteNumbers
      <4>2. QED
        BY <1>4, <2>2, <4>1
    <3>2. Advance(cdev_write_buff_start, WriteFilled, CDEVBUFFSIZE) = cdev_write_buff_end
      BY <1>1, Sizes, UsedCellsReachEnd DEF ByteNumbers, WriteFilled
    <3> HIDE DEF j
    <3>3. WriteFilled \in 0 .. CDEVBUFFSIZE /\ j \in 0 .. CDEVBUFFSIZE - WriteFilled
      <4>1. /\ WriteFilled \in Nat /\ WriteAvail \in Nat /\ len[w] \in Nat
            /\ WriteFilled + WriteAvail = CDEVBUFFSIZE - 1
        BY <1>1, Sizes DEF ByteNumbers
      <4>2. QED
        BY <1>2, <3>1, <4>1, Sizes
    <3>4. Advance(cdev_write_buff_end, j, CDEVBUFFSIZE)
            = Advance(cdev_write_buff_start, i, CDEVBUFFSIZE)
      BY <1>1, <3>1, <3>2, <3>3, Sizes, AdvanceAdds DEF ByteNumbers
    <3>5. Written(j)
      BY <1>6, <3>1
    <3>6. accepted + j = Oldest + i
      <4>1. accepted \in Nat /\ WriteFilled \in Nat /\ Oldest = accepted - WriteFilled
        BY <1>1, Sizes DEF ByteNumbers
      <4>2. QED
        BY <3>1, <4>1
    <3>7. QED
      BY <1>1, <1>5, <3>4, <3>5, <3>6 DEF Unread, Written
  <2>3. QED
    BY <1>1, <1>4, <2>1, <2>2, Sizes DEF ByteNumbers
<1>8. StreamInOrder'
  BY <1>1, <1>3, <1>5, <1>7 DEF ByteInv, StreamInOrder, Before, Block
<1>9. QED
  BY <1>1, <1>2, <1>8

\* dev_write_task copies the oldest bytes into the free buffer at BuffEnd.
LEMMA TxCopyKeepsStream ==
    ASSUME ByteInv, TxCopy
    PROVE  StreamInOrder'
<1>1. /\ TypeOK /\ ByteNumbers /\ HeldFits /\ tpc = "copy" /\ tpc' = "advance"
      /\ UNCHANGED <<charVars, wpc, len, accepted, BuffStart, BuffEnd, fifo, inflight, out>>
  BY ByteCounts, RingHoldsAll DEF ByteInv, TxCopy, writerVars, fpgaVars
<1>2. WriteFilled' = WriteFilled /\ Oldest' = Oldest /\ Held' = Held
  BY <1>1 DEF WriteFilled, Oldest, Held, RingFilled, charVars
<1>3. WriteFilled > DMABUFFSIZE /\ Held \in 0 .. DMATXBUFFS - 1
  <2>1. WriteFilled > DMABUFFSIZE /\ Held < DMATXBUFFS /\ Held \in Nat
    BY <1>1 DEF ByteInv, WriteAccounting, HeldFits, ByteNumbers
  <2>2. QED
    BY <2>1, Sizes
<1>4. ASSUME NEW k \in 1 .. Held'
      PROVE  pTxDmaBuffs'[Before(BuffEnd', k)] = Block(Oldest' - k * DMABUFFSIZE)
  <2>1. k \in 1 .. Held /\ k \in 1 .. DMATXBUFFS - 1
    BY <1>2, <1>3, Sizes
  <2>2. Before(BuffEnd, k) # BuffEnd /\ Before(BuffEnd, k) \in 0 .. DMATXBUFFS - 1
    BY <1>1, <2>1, BeforeIsAnother DEF ByteNumbers
  <2>3. pTxDmaBuffs'[Before(BuffEnd, k)] = pTxDmaBuffs[Before(BuffEnd, k)]
    BY <1>1, <2>2 DEF TxCopy, TypeOK, RingIndex
  <2>4. pTxDmaBuffs[Before(BuffEnd, k)] = Block(Oldest - k * DMABUFFSIZE)
    BY <2>1 DEF ByteInv, StreamInOrder
  <2>5. QED
    BY <1>1, <1>2, <2>3, <2>4
<1>5. pTxDmaBuffs'[BuffEnd] = Block(Oldest)
  <2>1. ASSUME NEW i \in 0 .. DMABUFFSIZE - 1
        PROVE  cdev_write_buff[Advance(cdev_write_buff_start, i, CDEVBUFFSIZE)] = Oldest + i
    <3>1. i \in 0 .. WriteFilled - 1
      <4>1. WriteFilled \in Nat
        BY <1>1, Sizes DEF ByteNumbers
      <4>2. QED
        BY <1>3, <4>1, Sizes
    <3>2. QED
      BY <3>1 DEF ByteInv, StreamInOrder, Unread
  <2>2. pTxDmaBuffs'[BuffEnd] =
          [i \in 0 .. DMABUFFSIZE - 1 |->
             cdev_write_buff[Advance(cdev_write_buff_start, i, CDEVBUFFSIZE)]]
    BY <1>1 DEF TxCopy, TypeOK
  <2>3. QED
    BY <2>1, <2>2 DEF Block
<1>6. /\ Oldest = Len(out) + Held * DMABUFFSIZE
      /\ \A i \in 0 .. WriteFilled - 1 : Unread(i)
      /\ \A w \in Writers : wpc[w] = "advance" => \A i \in 0 .. len[w] - 1 : Written(i)
  BY DEF ByteInv, StreamInOrder
<1>7. QED
  BY <1>1, <1>2, <1>4, <1>5, <1>6 DEF StreamInOrder, Unread, Written, charVars, Block

\* Moving both indices on hands those bytes from the byte ring to the DMA buffer.
LEMMA TxAdvanceKeepsStream ==
    ASSUME ByteInv, TxAdvance
    PROVE  StreamInOrder'
<1>1. /\ TypeOK /\ ByteNumbers /\ tpc = "advance" /\ tpc' = "check"
      /\ UNCHANGED <<cdev_write_buff, cdev_write_buff_end, wpc, len, accepted, BuffStart,
                     pTxDmaBuffs, fifo, inflight, out>>
      /\ cdev_write_buff_start' = Advance(cdev_write_buff_start, DMABUFFSIZE, CDEVBUFFSIZE)
      /\ BuffEnd' = Advance(BuffEnd, 1, DMATXBUFFS)
  BY ByteCounts, Sizes DEF ByteInv, TxAdvance, writerVars, fpgaVars
<1>2. DMABUFFSIZE \in 0 .. WriteFilled
  <2>1. WriteFilled > DMABUFFSIZE /\ WriteFilled \in Nat
    BY <1>1, Sizes DEF ByteInv, WriteAccounting, ByteNumbers
  <2>2. QED
    BY <2>1, Sizes
<1>3. WriteFilled' = WriteFilled - DMABUFFSIZE
  <2>1. DMABUFFSIZE \in
          0 .. CircBuffFilled(cdev_write_buff_start, cdev_write_buff_end, CDEVBUFFSIZE)
    BY <1>2 DEF WriteFilled
  <2>2. QED
    BY <1>1, <2>1, Sizes, FilledAfterConsume DEF ByteNumbers, WriteFilled
<1>4. Oldest' = Oldest + DMABUFFSIZE
  <2>1. accepted \in Nat /\ WriteFilled \in Nat /\ accepted' = accepted
    BY <1>1, Sizes DEF ByteNumbers
  <2>2. QED
    BY <1>3, <2>1, Sizes DEF Oldest
<1>5. RingFilled' = RingFilled + 1 /\ Held \in 0 .. DMATXBUFFS - 1
  <2>1. /\ RingFilled + DescLevel + DescComp <= DMATXBUFFS /\ DescComp > DMATXDESCDELAY
        /\ DescLevel \in Nat /\ DescComp \in Nat /\ RingFilled \in Nat
        /\ Held < DMATXBUFFS /\ Held \in Nat
    BY <1>1, Counts, RingHoldsAll, Sizes
       DEF ByteInv, RingAccounting, PassAccounting, HeldFits, ByteNumbers
  <2>2. 1 \in 0 .. CircBuffAvail(BuffStart, BuffEnd, DMATXBUFFS)
    BY <2>1, Sizes, SMTT(60) DEF RingFilled, CircBuffAvail
  <2>3. RingFilled' = RingFilled + 1
    BY <1>1, <2>2, Sizes, FilledAfterProduce DEF ByteNumbers, RingFilled
  <2>4. QED
    BY <2>1, <2>3, Sizes
<1>6. Held' = Held + 1
  BY <1>1, <1>5, Sizes DEF Held, ByteNumbers
<1>7. Oldest' = Len(out') + Held' * DMABUFFSIZE
  <2>1. (Held + 1) * DMABUFFSIZE = Held * DMABUFFSIZE + DMABUFFSIZE
    BY <1>5, Sizes
  <2>2. Oldest = Len(out) + Held * DMABUFFSIZE /\ Len(out) \in Nat
    BY <1>1 DEF ByteInv, StreamInOrder, ByteNumbers
  <2>3. Held * DMABUFFSIZE \in Nat
    BY <1>5, Sizes
  <2>4. QED
    BY <1>1, <1>4, <1>6, <2>1, <2>2, <2>3, Sizes
<1>8. ASSUME NEW i \in 0 .. WriteFilled' - 1 PROVE Unread(i)'
  <2>1. /\ DMABUFFSIZE + i \in 0 .. WriteFilled - 1 /\ i \in Nat
        /\ DMABUFFSIZE + i <= CDEVBUFFSIZE
    <3>1. WriteFilled \in 0 .. CDEVBUFFSIZE - 1
      BY <1>1 DEF ByteNumbers
    <3>2. QED
      BY <1>3, <3>1, Sizes
  <2>2. Advance(cdev_write_buff_start', i, CDEVBUFFSIZE)
          = Advance(cdev_write_buff_start, DMABUFFSIZE + i, CDEVBUFFSIZE)
    <3>1. DMABUFFSIZE \in 0 .. CDEVBUFFSIZE /\ i \in 0 .. CDEVBUFFSIZE - DMABUFFSIZE
      BY <2>1, Sizes
    <3>2. QED
      BY <1>1, <3>1, Sizes, AdvanceAdds DEF ByteNumbers
  <2>3. Unread(DMABUFFSIZE + i)
    BY <2>1 DEF ByteInv, StreamInOrder
  <2>4. Oldest + (DMABUFFSIZE + i) = Oldest' + i
    <3>1. Oldest \in Int
      BY <1>1 DEF ByteNumbers
    <3>2. QED
      BY <1>4, <3>1, Sizes
  <2>5. QED
    BY <1>1, <2>2, <2>3, <2>4 DEF Unread
<1>9. ASSUME NEW k \in 1 .. Held'
      PROVE  pTxDmaBuffs'[Before(BuffEnd', k)] = Block(Oldest' - k * DMABUFFSIZE)
  <2> DEFINE j == k - 1
  <2>1. j \in 0 .. Held /\ j \in 0 .. DMATXBUFFS - 1 /\ k = j + 1
    BY <1>5, <1>6, Sizes
  <2> HIDE DEF j
  <2>2. Before(BuffEnd', k) = Before(BuffEnd, j)
    BY <1>1, <2>1, BeforeShift DEF ByteNumbers
  <2>3. Oldest' - k * DMABUFFSIZE = Oldest - j * DMABUFFSIZE
    <3>1. (j + 1) * DMABUFFSIZE = j * DMABUFFSIZE + DMABUFFSIZE /\ j * DMABUFFSIZE \in Nat
      BY <2>1, Sizes
    <3>2. Oldest \in Int
      BY <1>1 DEF ByteNumbers
    <3>3. QED
      BY <1>4, <2>1, <3>1, <3>2, Sizes
  <2>4. pTxDmaBuffs[Before(BuffEnd, j)] = Block(Oldest - j * DMABUFFSIZE)
    <3>1. CASE j = 0
      <4>1. Before(BuffEnd, 0) = BuffEnd
        BY <1>1 DEF Before, ByteNumbers
      <4>2. Oldest - 0 * DMABUFFSIZE = Oldest
        <5>1. Oldest \in Int
          BY <1>1 DEF ByteNumbers
        <5>2. QED
          BY <5>1, Sizes
      <4>3. pTxDmaBuffs[BuffEnd] = Block(Oldest)
        BY <1>1 DEF ByteInv, StreamInOrder
      <4>4. QED
        BY <3>1, <4>1, <4>2, <4>3
    <3>2. CASE j # 0
      <4>1. j \in 1 .. Held
        BY <1>5, <2>1, <3>2
      <4>2. QED
        BY <4>1 DEF ByteInv, StreamInOrder
    <3>3. QED
      BY <3>1, <3>2
  <2>5. QED
    BY <1>1, <2>2, <2>3, <2>4
<1>10. \A w \in Writers : wpc[w] = "advance" => \A i \in 0 .. len[w] - 1 : Written(i)
  BY DEF ByteInv, StreamInOrder
<1>11. QED
  BY <1>1, <1>7, <1>8, <1>9, <1>10 DEF StreamInOrder, Written, Block

\* The oldest descriptor in the FPGA names the oldest block, the next to go out.
LEMMA OldestIsNext ==
    ASSUME ByteInv, inflight # <<>>
    PROVE  /\ Held \in 1 .. DMATXBUFFS
           /\ pTxDmaBuffs[Head(inflight)] = Block(Len(out))
<1>1. TypeOK /\ ByteNumbers /\ HeldFits
  BY ByteCounts, RingHoldsAll DEF ByteInv
<1>2. inflight \in Seq(RingIndex) /\ Len(inflight) \in Nat \ {0} /\ Head(inflight) = inflight[1]
  BY <1>1 DEF TypeOK
<1>3. Held \in 1 .. DMATXBUFFS
  <2>1. /\ Held = Len(fifo) + Len(inflight) + RingFilled /\ Held <= DMATXBUFFS
        /\ Len(fifo) \in Nat /\ RingFilled \in Nat
    BY <1>1, Sizes DEF ByteNumbers, HeldFits
  <2>2. QED
    BY <1>2, <2>1, Sizes
<1>4. inflight[1] = Before(BuffEnd, Held)
  <2>1. inflight[1] = Before(BuffStart, Len(fifo) + Len(inflight) - 1 + 1)
    BY <1>2 DEF ByteInv, RingAccounting, DescriptorsInRingOrder
  <2> DEFINE q == Len(fifo) + Len(inflight)
  <2>2. /\ q \in Nat /\ RingFilled + q = Held /\ RingFilled + q <= DMATXBUFFS
        /\ Len(fifo) + Len(inflight) - 1 + 1 = q
    BY <1>1, <1>2, <1>3, Sizes DEF ByteNumbers
  <2> HIDE DEF q
  <2>3. Before(BuffStart, q) = Before(BuffEnd, RingFilled + q)
    BY <1>1, <2>2, BeforeFromEnd
  <2>4. QED
    BY <2>1, <2>2, <2>3
<1>5. Oldest - Held * DMABUFFSIZE = Len(out)
  <2>1. Held * DMABUFFSIZE \in Nat
    BY <1>3, Sizes
  <2>2. Oldest = Len(out) + Held * DMABUFFSIZE /\ Len(out) \in Nat
    BY <1>1 DEF ByteInv, StreamInOrder, ByteNumbers
  <2>3. QED
    BY <2>1, <2>2
<1>6. pTxDmaBuffs[Before(BuffEnd, Held)] = Block(Oldest - Held * DMABUFFSIZE)
  <2>1. Held \in 1 .. Held
    BY <1>3, Sizes
  <2>2. QED
    BY <2>1 DEF ByteInv, StreamInOrder
<1>7. QED
  BY <1>2, <1>3, <1>4, <1>5, <1>6

\* What is appended to a sequence adds its length.
LEMMA ConcatLength ==
    ASSUME NEW S, NEW s \in Seq(S), NEW t \in Seq(S)
    PROVE  Len(s \o t) = Len(s) + Len(t)
  OBVIOUS

\* The radio gets the DMABUFFSIZE bytes that follow those it has.
LEMMA FpgaCompleteKeepsStream ==
    ASSUME ByteInv, FpgaComplete
    PROVE  /\ StreamInOrder' /\ accepted' = accepted
           /\ out' = out \o [i \in 1 .. DMABUFFSIZE |-> Len(out) + i - 1]
           /\ Len(out) + DMABUFFSIZE <= accepted
<1> DEFINE sent == [i \in 1 .. DMABUFFSIZE |-> Len(out) + i - 1]
<1>1. /\ TypeOK /\ ByteNumbers /\ inflight # <<>> /\ inflight' = Tail(inflight)
      /\ UNCHANGED <<charVars, wpc, len, accepted, tpc, BuffStart, BuffEnd, pTxDmaBuffs, fifo>>
      /\ Held \in 1 .. DMATXBUFFS /\ pTxDmaBuffs[Head(inflight)] = Block(Len(out))
  BY ByteCounts, OldestIsNext DEF ByteInv, FpgaComplete, writerVars, threadVars
<1>2. out' = out \o sent
  <2>1. ASSUME NEW i \in 1 .. DMABUFFSIZE
        PROVE  pTxDmaBuffs[Head(inflight)][i - 1] = Len(out) + i - 1
    <3>1. i - 1 \in 0 .. DMABUFFSIZE - 1 /\ Len(out) \in Nat
      BY <1>1, Sizes DEF ByteNumbers
    <3>2. Block(Len(out))[i - 1] = Len(out) + (i - 1)
      BY <3>1 DEF Block
    <3>3. QED
      BY <1>1, <3>1, <3>2
  <2>2. QED
    BY <2>1 DEF FpgaComplete
<1>3. Len(out') = Len(out) + DMABUFFSIZE
  <2>1. Len(out) \in Nat
    BY <1>1 DEF ByteNumbers
  <2>2. sent \in Seq(Positions \cup {Unset}) /\ Len(sent) = DMABUFFSIZE
    <3>1. ASSUME NEW i \in 1 .. DMABUFFSIZE PROVE Len(out) + i - 1 \in Positions \cup {Unset}
      BY <2>1, Sizes DEF Positions
    <3>2. sent \in [1 .. DMABUFFSIZE -> Positions \cup {Unset}]
      BY <3>1
    <3> HIDE DEF sent
    <3>3. DMABUFFSIZE \in Nat
      BY Sizes
    <3>4. QED
      BY <3>2, <3>3
  <2> HIDE DEF sent
  <2>3. out \in Seq(Positions \cup {Unset})
    BY <1>1 DEF TypeOK
  <2>4. QED
    BY <1>2, <2>2, <2>3, ConcatLength
<1> HIDE DEF sent
<1>4. Len(inflight') = Len(inflight) - 1
  BY <1>1 DEF TypeOK
<1>5. /\ Held' = Held - 1 /\ WriteFilled' = WriteFilled /\ Oldest' = Oldest
  <2>1. RingFilled' = RingFilled /\ Len(fifo') = Len(fifo)
    BY <1>1 DEF RingFilled
  <2>2. Held' = Held - 1
    BY <1>1, <1>4, <2>1, Sizes DEF Held, ByteNumbers
  <2>3. QED
    BY <1>1, <2>2 DEF WriteFilled, Oldest, charVars
<1>6. /\ Oldest = Len(out) + Held * DMABUFFSIZE
      /\ \A i \in 0 .. WriteFilled - 1 : Unread(i)
      /\ \A w \in Writers : wpc[w] = "advance" => \A i \in 0 .. len[w] - 1 : Written(i)
      /\ \A k \in 1 .. Held : pTxDmaBuffs[Before(BuffEnd, k)] = Block(Oldest - k * DMABUFFSIZE)
      /\ tpc = "advance" => pTxDmaBuffs[BuffEnd] = Block(Oldest)
  BY DEF ByteInv, StreamInOrder
<1>7. Held * DMABUFFSIZE = (Held - 1) * DMABUFFSIZE + DMABUFFSIZE
      /\ (Held - 1) * DMABUFFSIZE \in Nat
  <2> DEFINE h == Held - 1
  <2>1. h \in Nat /\ Held = h + 1
    BY <1>1, Sizes
  <2> HIDE DEF h
  <2>2. (h + 1) * DMABUFFSIZE = h * DMABUFFSIZE + DMABUFFSIZE /\ h * DMABUFFSIZE \in Nat
    BY <2>1, Sizes
  <2>3. QED
    BY <2>1, <2>2 DEF h
<1>8. Oldest' = Len(out') + Held' * DMABUFFSIZE
  <2>1. Len(out) \in Nat
    BY <1>1 DEF ByteNumbers
  <2>2. QED
    BY <1>3, <1>5, <1>6, <1>7, <2>1, Sizes
<1>9. Len(out) + DMABUFFSIZE <= accepted
  <2>1. /\ Len(out) \in Nat /\ Oldest = accepted - WriteFilled /\ WriteFilled \in Nat
        /\ accepted \in Nat
    BY <1>1, Sizes DEF ByteNumbers
  <2>2. QED
    BY <1>6, <1>7, <2>1, Sizes
<1>10. \A k \in 1 .. Held' : k \in 1 .. Held
  BY <1>1, <1>5, Sizes
<1>11. StreamInOrder'
  BY <1>1, <1>5, <1>6, <1>8, <1>10 DEF StreamInOrder, Unread, Written, Before, Block, charVars
<1>12. QED
  BY <1>1, <1>2, <1>9, <1>11 DEF sent
-------------------------------------------------------------------------------
(* The other steps, which leave the stream alone *)

Silent ==
    \/ \E w \in Writers : WriteHasRoom(w) \/ \E n \in WriteLens : WriteCall(w, n)
    \/ TxExitAtTop \/ TxSeesRoom \/ TxReadLevel \/ TxFindsData \/ TxFindsNoData
    \/ TxCountDescriptors \/ TxEnqueue \/ TxBottom \/ TxDrain \/ TxExitDrained
    \/ FpgaStart \/ StopThread \/ UNCHANGED vars

LEMMA EnqueueKeepsHeld ==
    ASSUME TypeOK, RingAccounting, TxEnqueue
    PROVE  Held' = Held
<1>1. ByteNumbers /\ BuffsToWrite \in Nat
  BY ByteCounts, Counts
<1>2. /\ RingFilled = BuffsToWrite /\ BuffsToWrite # 0 /\ BuffEnd' = BuffEnd
      /\ BuffStart' = Advance(BuffStart, 1, DMATXBUFFS) /\ fifo' = Append(fifo, BuffStart)
      /\ inflight' = inflight
  BY DEF TxEnqueue, RingAccounting, PassAccounting
<1>3. RingFilled' = RingFilled - 1
  <2>1. 1 \in 0 .. CircBuffFilled(BuffStart, BuffEnd, DMATXBUFFS)
    <3>1. RingFilled >= 1 /\ RingFilled \in Nat
      BY <1>1, <1>2
    <3>2. QED
      BY <3>1 DEF RingFilled
  <2>2. QED
    BY <1>1, <1>2, <2>1, Sizes, FilledAfterConsume DEF RingFilled, ByteNumbers
<1>4. Len(fifo') = Len(fifo) + 1
  BY <1>2 DEF TypeOK
<1>5. QED
  BY <1>1, <1>2, <1>3, <1>4, Sizes DEF Held, ByteNumbers

LEMMA FpgaStartKeepsHeld ==
    ASSUME TypeOK, FpgaStart
    PROVE  Held' = Held
<1>1. ByteNumbers
  BY ByteCounts
<1>2. /\ fifo # <<>> /\ inflight' = Append(inflight, Head(fifo)) /\ fifo' = Tail(fifo)
      /\ RingFilled' = RingFilled
  BY DEF FpgaStart, threadVars, RingFilled
<1>3. Len(fifo') = Len(fifo) - 1 /\ Len(inflight') = Len(inflight) + 1
  BY <1>2 DEF TypeOK
<1>4. QED
  BY <1>1, <1>2, <1>3, Sizes DEF Held, ByteNumbers

LEMMA SilentKeepsStream ==
    ASSUME ByteInv, Silent
    PROVE  StreamInOrder' /\ UNCHANGED <<accepted, out>>
<1>1. TypeOK /\ RingAccounting /\ StreamInOrder
  BY DEF ByteInv
<1>2. ASSUME NEW w \in Writers, WriteHasRoom(w) \/ \E n \in WriteLens : WriteCall(w, n)
      PROVE  StreamInOrder' /\ UNCHANGED <<accepted, out>>
  <2>1. /\ UNCHANGED <<charVars, accepted, BuffEnd, pTxDmaBuffs, out, tpc>> /\ Held' = Held
    BY <1>2 DEF WriteHasRoom, WriteCall, threadVars, fpgaVars, Held, RingFilled
  <2>2. ASSUME NEW v \in Writers, wpc'[v] = "advance"
        PROVE  wpc[v] = "advance" /\ len'[v] = len[v]
    BY <1>1, <1>2, <2>2 DEF WriteHasRoom, WriteCall, TypeOK
  <2>3. QED
    BY <1>1, <2>1, <2>2, ByteFrame
<1>3. ASSUME UNCHANGED <<charVars, wpc, len, accepted, BuffEnd, pTxDmaBuffs, out>>,
             Held' = Held, tpc' = tpc \/ tpc' # "advance"
      PROVE  StreamInOrder' /\ UNCHANGED <<accepted, out>>
  BY <1>1, <1>3, ByteFrame
<1>4. CASE \/ TxExitAtTop \/ TxSeesRoom \/ TxReadLevel \/ TxFindsData \/ TxFindsNoData
           \/ TxCountDescriptors \/ TxBottom \/ TxDrain \/ TxExitDrained
  <2>1. /\ UNCHANGED <<charVars, wpc, len, accepted, BuffStart, BuffEnd, pTxDmaBuffs, fifo,
                       inflight, out>>
        /\ tpc' = tpc \/ tpc' # "advance"
    BY <1>4 DEF TxExitAtTop, TxSeesRoom, TxReadLevel, TxFindsData, TxFindsNoData,
                TxCountDescriptors, TxBottom, TxDrain, TxExitDrained, writerVars, fpgaVars
  <2>2. Held' = Held
    BY <2>1 DEF Held, RingFilled
  <2>3. QED
    BY <1>3, <2>1, <2>2
<1>5. CASE TxEnqueue
  <2>1. UNCHANGED <<charVars, wpc, len, accepted, BuffEnd, pTxDmaBuffs, out, tpc>>
    BY <1>5 DEF TxEnqueue, writerVars
  <2>2. QED
    BY <1>1, <1>3, <1>5, <2>1, EnqueueKeepsHeld
<1>6. CASE FpgaStart
  <2>1. UNCHANGED <<charVars, wpc, len, accepted, BuffEnd, pTxDmaBuffs, out, tpc>>
    BY <1>6 DEF FpgaStart, writerVars, threadVars
  <2>2. QED
    BY <1>1, <1>3, <1>6, <2>1, FpgaStartKeepsHeld
<1>7. CASE StopThread \/ UNCHANGED vars
  <2>1. UNCHANGED <<charVars, wpc, len, accepted, BuffStart, BuffEnd, pTxDmaBuffs, fifo,
                    inflight, out, tpc>>
    BY <1>7 DEF StopThread, vars, writerVars, threadVars, fpgaVars
  <2>2. Held' = Held
    BY <2>1 DEF Held, RingFilled
  <2>3. QED
    BY <1>3, <2>1, <2>2
<1>8. QED
  BY <1>2, <1>4, <1>5, <1>6, <1>7 DEF Silent
-------------------------------------------------------------------------------
(* The refinement *)

\* A returning write is accepted, within the capacity of the two rings together.
LEMMA ReturnIsAccept ==
    ASSUME OneWriter, ByteInv, NEW w \in Writers, WriteReturn(w)
    PROVE  [Stream!Next]_<<accepted, out>>
<1>1. /\ len[w] \in 0 .. WriteAvail /\ accepted' = accepted + len[w] /\ out' = out
      /\ TypeOK /\ ByteNumbers /\ HeldFits
  BY WriteReturnKeepsStream, ByteCounts, RingHoldsAll DEF ByteInv
<1>2. /\ WriteFilled \in Nat /\ WriteAvail \in Nat /\ accepted \in Nat /\ Len(out) \in Nat
      /\ WriteFilled + WriteAvail = CDEVBUFFSIZE - 1 /\ len[w] \in Nat
      /\ accepted = Len(out) + Held * DMABUFFSIZE + WriteFilled
  <2>1. /\ WriteFilled \in Nat /\ WriteAvail \in Nat /\ accepted \in Nat /\ Len(out) \in Nat
        /\ WriteFilled + WriteAvail = CDEVBUFFSIZE - 1 /\ Oldest = accepted - WriteFilled
        /\ Held \in Nat
    BY <1>1, Sizes DEF ByteNumbers
  <2>2. Oldest = Len(out) + Held * DMABUFFSIZE
    BY DEF ByteInv, StreamInOrder
  <2>3. Held * DMABUFFSIZE \in Nat
    BY <2>1, Sizes
  <2>4. QED
    BY <1>1, <2>1, <2>2, <2>3
<1>3. /\ Held * DMABUFFSIZE <= DMATXBUFFS * DMABUFFSIZE
      /\ Held * DMABUFFSIZE \in Nat /\ DMATXBUFFS * DMABUFFSIZE \in Nat
  <2> DEFINE m == DMATXBUFFS - Held
  <2>1. Held \in Nat /\ m \in Nat /\ DMATXBUFFS = Held + m
    BY <1>1, Sizes DEF HeldFits, ByteNumbers
  <2> HIDE DEF m
  <2>2. (Held + m) * DMABUFFSIZE = Held * DMABUFFSIZE + m * DMABUFFSIZE
        /\ Held * DMABUFFSIZE \in Nat /\ m * DMABUFFSIZE \in Nat
    BY <2>1, Sizes
  <2>3. QED
    BY <2>1, <2>2
<1>4. CASE len[w] = 0
  BY <1>1, <1>2, <1>4
<1>5. CASE len[w] # 0
  <2>1. /\ len[w] \in 1 .. CDEVBUFFSIZE - 1 + DMATXBUFFS * DMABUFFSIZE
        /\ accepted + len[w] - Len(out) <= CDEVBUFFSIZE - 1 + DMATXBUFFS * DMABUFFSIZE
    BY <1>1, <1>2, <1>3, <1>5, Sizes, SMTT(60)
  <2>2. Stream!Accept(len[w])
    BY <1>1, <2>1 DEF Stream!Accept
  <2>3. QED
    BY <2>1, <2>2 DEF Stream!Next
<1>6. QED
  BY <1>4, <1>5

\* A completed descriptor is a delivery.
LEMMA CompleteIsDeliver ==
    ASSUME ByteInv, FpgaComplete
    PROVE  Stream!Next
<1>1. DMABUFFSIZE \in 1 .. CDEVBUFFSIZE - 1 + DMATXBUFFS * DMABUFFSIZE
  <2>1. DMATXBUFFS * DMABUFFSIZE \in Nat
    BY Sizes
  <2>2. QED
    BY <2>1, SizeAssumption
<1>2. Stream!Deliver(DMABUFFSIZE)
  BY FpgaCompleteKeepsStream DEF Stream!Deliver
<1>3. QED
  BY <1>1, <1>2 DEF Stream!Next

LEMMA StepImplements ==
    ASSUME OneWriter, ByteInv, [Next]_vars
    PROVE  StreamInOrder' /\ [Stream!Next]_<<accepted, out>>
<1>1. CASE Silent
  BY <1>1, SilentKeepsStream
<1>2. ASSUME NEW w \in Writers, WriteCopy(w)
      PROVE  StreamInOrder' /\ [Stream!Next]_<<accepted, out>>
  BY <1>2, WriteCopyKeepsStream DEF WriteCopy, fpgaVars
<1>3. ASSUME NEW w \in Writers, WriteReturn(w)
      PROVE  StreamInOrder' /\ [Stream!Next]_<<accepted, out>>
  BY <1>3, WriteReturnKeepsStream, ReturnIsAccept
<1>4. CASE TxCopy
  BY <1>4, TxCopyKeepsStream DEF TxCopy, writerVars, fpgaVars
<1>5. CASE TxAdvance
  BY <1>5, TxAdvanceKeepsStream DEF TxAdvance, writerVars, fpgaVars
<1>6. CASE FpgaComplete
  BY <1>6, FpgaCompleteKeepsStream, CompleteIsDeliver
<1>7. QED
  BY <1>1, <1>2, <1>3, <1>4, <1>5, <1>6 DEF Next, WriterStep, TxThread, Fpga, Silent

LEMMA InitByteInv == Init => ByteInv /\ Stream!Init
<1> SUFFICES ASSUME Init PROVE ByteInv /\ Stream!Init
  OBVIOUS
<1>1. /\ accepted = 0 /\ out = <<>> /\ tpc = "poll" /\ wpc = [w \in Writers |-> "idle"]
      /\ fifo = <<>> /\ inflight = <<>>
  BY DEF Init
<1>2. WriteFilled = 0 /\ RingFilled = 0
  BY DEF Init, WriteFilled, RingFilled, CircBuffFilled
<1>3. Held = 0 /\ Oldest = 0 /\ 0 * DMABUFFSIZE = 0
  BY <1>1, <1>2, Sizes DEF Held, Oldest
<1>4. StreamInOrder
  BY <1>1, <1>2, <1>3 DEF StreamInOrder
<1>5. WriteAccounting
  BY <1>1 DEF WriteAccounting
<1>6. QED
  BY <1>1, <1>4, <1>5, InitAccounting DEF ByteInv, Stream!Init

\* With one writer the transmit path is a bounded stream: for every size of its
\* rings, the bytes of the writes that returned reach the radio in order, none
\* lost, repeated or invented, and at most a full byte ring and a full ring of DMA
\* buffers wait.
THEOREM TxImplementsByteStream ==
    ASSUME OneWriter
    PROVE  Spec => ImplementsByteStream
<1>1. Init => ByteInv /\ Stream!Init
  BY InitByteInv
<1>2. ByteInv /\ [Next]_vars => ByteInv' /\ [Stream!Next]_<<accepted, out>>
  BY StepKeepsAccounting, StepKeepsWriteAccounting, StepImplements DEF ByteInv
<1>3. QED
  BY <1>1, <1>2, PTL DEF Spec, ImplementsByteStream, Stream!Spec
===============================================================================
