-------------------------------- MODULE WinDriver --------------------------------
(***************************************************************************)
(* The Windows driver: the device object (WinDevice), its pins (WinIo) and *)
(* its DMA requests (WinDma), with the framework around them.              *)
(***************************************************************************)
EXTENDS WinDma

\* The device object's life; what waits for the requests waits here.
Device ==
    /\ \/ AddSucceeds /\ UNCHANGED <<pinVars, table>>
       \/ AddFails /\ UNCHANGED <<pinVars, table>>
       \/ PrepareHardware
       \/ Prepared /\ UNCHANGED table
       \/ StopCard /\ UNCHANGED <<pinVars, table>>
       \/ RemoveIdle /\ UNCHANGED <<pinVars, table>>
    /\ UNCHANGED <<req, shape, trans, delivered, wrote>>

Teardown ==
    /\ \/ ReleaseHardware /\ DriverHoldsNone
       \/ CleanupSignals
       \/ CleanupWaits
    /\ UNCHANGED <<pinVars, dmaVars>>

Thread(w) == (WorkerWakes(w) \/ WorkerEnds(w)) /\ UNCHANGED <<pinVars, dmaVars>>

Framework ==
    \/ (\E r \in Requests : Submit(r)) /\ UNCHANGED <<deviceVars, pinVars>>
    \/ Purge /\ UNCHANGED <<deviceVars, pinVars>>

Ioctl ==
    /\ pnp = "started"
    /\ langfordEvtIoDeviceControl
    /\ UNCHANGED <<deviceVars, dmaVars>>

Next ==
    /\ pnp # "crashed"
    /\ \/ Device \/ Teardown \/ Framework \/ Ioctl
       \/ \E w \in Workers : Thread(w)
       \/ langfordEvtIoRead \/ langfordEvtIoWrite \/ langfordEvtProgramDma
       \/ ReadPollEnds \/ WritePollEnds

Spec == Init /\ [][Next]_vars

Up == pnp # "crashed"

\* The framework goes on with a removal and grants map registers, threads run, and
\* (external) the fill level registers read 0 again and again.
Fairness ==
    /\ WF_vars(Up /\ Teardown)
    /\ WF_vars(Up /\ langfordEvtProgramDma)
    /\ \A w \in Workers : WF_vars(Up /\ Thread(w))
    /\ WF_vars(Up /\ ReadPollEnds) /\ WF_vars(Up /\ WritePollEnds)

FairSpec == Spec /\ Fairness
-------------------------------------------------------------------------------
(* Correctness *)

TypeOK ==
    /\ pnp \in {"adding", "added", "resetting", "started", "stopping", "released", "removing",
                "cleanup", "cleanup_wait", "removed", "crashed"}
    /\ step \in 0 .. Len(AddSteps)
    /\ worker \in [Workers -> {"none", "wait", "poll", "ended"}]
    /\ referenced \subseteq Workers /\ signalled \subseteq Events
    /\ bar \in [{"Bar0", "Bar1"} -> {"none", "mem0", "mem1"}]
    /\ table \in [Entries -> [low : TableWords, high : TableWords]]
    /\ words \in [WinRegisters -> SUBSET Bits]
    /\ req \in [Requests -> {"idle", "queued", "driver", "ok", "failed", "cancelled"}]
    /\ shape \in [Requests -> Shapes \cup {<<>>}]
    /\ trans.st \in {"released", "executing", "transfer"} /\ trans.left \in Nat
    /\ delivered \subseteq Requests /\ wrote \in BOOLEAN

\* A transaction that is in use belongs to a request the driver still holds, whatever
\* order reads, writes, refusals and completions come in: no request is completed twice.
TransactionServesOwner ==
    trans.st # "released" => req[trans.owner[1]] = "driver"

\* A thread polls the card only while its registers are mapped, although it may find
\* its event signalled long after the request was programmed.
PollsMappedCard ==
    (\E w \in Workers : worker[w] = "poll") => bar # NoBars

\* The thread was started and its object could not be referenced.
Lost(w) ==
    step < Len(AddSteps) /\ Referenced(AddSteps[step + 1]) = {w}

\* When the cleanup returns, and the framework frees the device context, no thread that
\* uses it is left, at whichever step EvtDeviceAdd gave up; a thread whose reference
\* was the failing step is not known to the cleanup.
ThreadsEndBeforeContext ==
    pnp = "removed" => \A w \in Workers : worker[w] \in {"none", "ended"} \/ Lost(w)

\* Every field a program has set reads back the last value that was in range: no set
\* of another field, refused argument or power-down undid it.
PinsHoldLastSet ==
    \A f \in WinLayout : lastset[f.name] \in {<<>>, <<GetField(words[f.reg], f)>>}

\* The entries meant for a request: those from DMARXBUFFS on for a write, those below
\* for a read, less the one that the read's own descriptor falls into (see Described).
PagesOf(r) == IF r \in Reads THEN (0 .. Pages - 1) \ {1} ELSE Pages .. 2 * Pages - 1

\* While a transfer is under way, all the pages of its request translate to the frame it
\* was last programmed with: no request that is presented, refused or completed in
\* between, no card that is stopped, released and prepared again (which writes to
\* entry 0), and no request that a program submits has changed them.
TransfersKeepTheirPages ==
    trans.st = "transfer" =>
      LET r == trans.owner[1]
          frames == shape[r][Len(shape[r]) - trans.left]
      IN \A e \in PagesOf(r) : table[e].low = Last(frames)

\* A read the driver has taken is completed, unless a write was sent: a write releases
\* the transaction the read is using.
ReadsCompleteUnlessWritten ==
    \A r \in Reads : req[r] = "driver" ~> (req[r] # "driver" \/ wrote)

\* A removal ends with the threads gone, unless a write was sent: a write that the
\* driver took may never be completed, and the framework waits for it.
RemovalEndsUnlessWritten ==
    pnp = "removing" ~> (pnp = "removed" \/ wrote)

\* langford_io.c:61: a read is completed when its DMA transaction completes, that is
\* after its descriptors were given to the DMA controller.
CompletedReadsWereTransferred ==
    \A r \in Reads : req[r] = "ok" => r \in delivered
===============================================================================
