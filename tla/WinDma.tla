---------------------------------- MODULE WinDma ----------------------------------
(***************************************************************************)
(* The DMA requests of the Windows driver: langfordEvtIoRead and           *)
(* langfordEvtIoWrite start a transaction, langfordEvtProgramDma programs  *)
(* the card, a request processor thread polls it and completes the request *)
(* (langford_io.c, langford_isrdpc.c).  Together with WinDevice and WinIo  *)
(* this is the whole driver.                                               *)
(*                                                                         *)
(* The queues are sequential (external): the driver holds one read and one *)
(* write at a time, and one ioctl.  Reads and writes share                 *)
(* WdfReadTransaction; WdfWriteTransaction is created and never            *)
(* initialised.  What the card's fill level registers read is external.    *)
(***************************************************************************)
EXTENDS WinDevice

CONSTANTS
    Reads, Writes,   \* the requests of programs; one is used again when it has ended
    Frames,          \* page frames of the programs' buffers
    Shapes           \* scatter/gather lists of a request: per transfer, the frames of
                     \* its elements; <<>> stands for a length the driver refuses

ASSUME WinDmaAssumption ==
    /\ Reads \cap Writes = {}
    /\ Shapes \subseteq Seq(Seq(Frames))
    /\ \A s \in Shapes : \A i \in DOMAIN s : s[i] # <<>> /\ Len(s[i]) <= Pages

VARIABLES
    req,       \* per request: "idle", "queued", "driver", "ok", "failed" or "cancelled"
    shape,     \* per request: its list
    trans,     \* WdfReadTransaction: its state, the request it has, transfers left
    delivered, \* history: requests with every descriptor written to the DMA controllers
    wrote      \* history: a write was sent

dmaVars == <<req, shape, trans, table, delivered, wrote>>
vars == <<deviceVars, pinVars, dmaVars>>

Requests == Reads \cup Writes

\* What a word of the table holds.
TableWords == Frames \cup {"unset", "mask", "0", "address", "length", "go"}

Released == [st |-> "released", owner |-> <<>>, left |-> 0]
Kind(r) == IF r \in Reads THEN Reads ELSE Writes
Worker(r) == IF r \in Reads THEN "ReadRequestProcessor" ELSE "WriteRequestProcessor"

DmaInit ==
    /\ req = [r \in Requests |-> "idle"] /\ shape = [r \in Requests |-> <<>>]
    /\ trans = Released
    /\ delivered = {} /\ wrote = FALSE

Init == DeviceInit /\ PinsInit /\ DmaInit
-------------------------------------------------------------------------------
(* Queues (external) *)

Submit(r) ==
    /\ pnp \in {"started", "stopping", "resetting", "released"}
    /\ req[r] \notin {"queued", "driver"}
    /\ req' = [req EXCEPT ![r] = "queued"]
    /\ \E s \in Shapes : shape' = [shape EXCEPT ![r] = s]
    /\ delivered' = delivered \ {r}
    /\ UNCHANGED <<trans, table, wrote>>

\* The queue presents a request when the driver has none of its kind.
Presented(r) ==
    /\ pnp = "started"
    /\ req[r] = "queued"
    /\ \A q \in Kind(r) : req[q] # "driver"

\* The queue of a device that goes away cancels what it did not present.
Purge ==
    /\ pnp \in {"removing", "cleanup", "cleanup_wait", "removed"}
    /\ \E r \in Requests : req[r] = "queued"
    /\ req' = [r \in Requests |-> IF req[r] = "queued" THEN "cancelled" ELSE req[r]]
    /\ UNCHANGED <<shape, trans, table, delivered, wrote>>

DriverHoldsNone == \A r \in Requests : req[r] # "driver"
-------------------------------------------------------------------------------
(* langfordEvtIoRead, langfordEvtIoWrite *)

\* The request is completed with an error, and WdfReadTransaction released, whatever
\* it was doing.
EvtIoFails(r) ==
    /\ req' = [req EXCEPT ![r] = "failed"]
    /\ trans' = Released

\* Both handlers, with the transaction both use.  One that is in use is refused by
\* the framework; one that is free is initialised with the request, and then may
\* still fail to execute.
EvtIo(r) ==
    /\ Presented(r)
    /\ \/ /\ shape[r] = <<>> \/ trans.st # "released"
          /\ EvtIoFails(r)
       \/ /\ shape[r] # <<>> /\ trans.st = "released"
          /\ \/ EvtIoFails(r)
             \/ /\ req' = [req EXCEPT ![r] = "driver"]
                /\ trans' = [st |-> "executing", owner |-> <<r>>, left |-> Len(shape[r])]
    /\ wrote' = (wrote \/ r \in Writes)
    /\ UNCHANGED <<shape, table, delivered>>

langfordEvtIoRead == \E r \in Reads : EvtIo(r) /\ UNCHANGED <<deviceVars, pinVars>>
langfordEvtIoWrite == \E r \in Writes : EvtIo(r) /\ UNCHANGED <<deviceVars, pinVars>>
-------------------------------------------------------------------------------
(* langfordEvtProgramDma *)

\* Mutant: the entries of a write are not moved up by DMARXBUFFS.
Entry_NoOffset(r, i) == i

\* The entry at CRA_ATT + i * 8 or CRA_ATT + (i + DMARXBUFFS) * 8.
Entry(r, i) == IF r \in Reads THEN i ELSE i + Pages

\* The loop over i, which every element runs with its own frame.
Translated(t, r, frame) ==
    [e \in Entries |-> IF \E i \in 0 .. Pages - 1 : e = Entry(r, i)
                       THEN [low |-> frame, high |-> "0"] ELSE t[e]]

\* A descriptor of a read is written at 0x1004, 0x1008 and 0x100C of Bar1.  In the
\* memory Bar1 is mapped to, BAR0, these are words of the table's entries 0 and 1.  A
\* descriptor of a write, at 0x3000 and up, misses the table.
Described(t, r) ==
    IF bar["Bar1"] = "mem0" /\ r \in Reads
    THEN [t EXCEPT ![0].high = "address", ![1] = [low |-> "length", high |-> "go"]] ELSE t

\* The elements of one transfer, one after the other: each rewrites the same entries, so
\* what the last one wrote stays.
Programmed(t, r, frames) == Described(Translated(t, r, Last(frames)), r)

\* Mutant: the thread is not told of the second transfer.
Program_NoEvent(r) ==
    LET n == Len(shape[r]) - trans.left + 1
    IN /\ table' = Programmed(table, r, shape[r][n])
       /\ signalled' = IF n = 1 THEN signalled \cup {OwnEvent[Worker(r)]} ELSE signalled
       /\ trans' = [trans EXCEPT !.st = "transfer", !.left = @ - 1]
       /\ UNCHANGED delivered

\* The next transfer of the request that has the transaction.
Program(r) ==
    LET n == Len(shape[r]) - trans.left + 1
    IN /\ table' = Programmed(table, r, shape[r][n])
       /\ signalled' = signalled \cup {OwnEvent[Worker(r)]}
       /\ trans' = [trans EXCEPT !.st = "transfer", !.left = @ - 1]
       /\ delivered' = IF bar["Bar1"] = "mem1" /\ trans.left = 1
                       THEN delivered \cup {r} ELSE delivered

\* The first call, once the framework has the map registers (external).
langfordEvtProgramDma ==
    /\ trans.st = "executing"
    /\ Program(trans.owner[1])
    /\ UNCHANGED <<pnp, step, worker, referenced, bar, pinVars, req, shape, wrote>>
-------------------------------------------------------------------------------
(* The request processors *)

\* WdfDmaTransactionDmaCompleted on a transaction without a transfer, or without a
\* request to complete: refused, or the system stops (ASSERT in langfordRequestComplete).
NothingToComplete ==
    /\ pnp' \in {pnp, "crashed"}
    /\ UNCHANGED <<signalled, dmaVars>>

\* Mutant: the transaction is not released before the request is completed.
DmaCompleted_NotReleased ==
    IF trans.left > 0
    THEN Program(trans.owner[1]) /\ UNCHANGED <<pnp, req, shape, wrote>>
    ELSE /\ req' = [req EXCEPT ![trans.owner[1]] = "ok"]
         /\ UNCHANGED <<pnp, signalled, trans, table, delivered, shape, wrote>>

\* The framework programs the transfer that is left, or the request is complete:
\* langfordRequestComplete.
DmaCompleted ==
    IF trans.left > 0
    THEN Program(trans.owner[1]) /\ UNCHANGED <<pnp, req, shape, wrote>>
    ELSE /\ trans' = Released
         /\ req' = [req EXCEPT ![trans.owner[1]] = "ok"]
         /\ UNCHANGED <<pnp, signalled, table, delivered, shape, wrote>>

\* The fill level reads 0: DescComp, computed from ReadDescNumber in both threads,
\* equals ReadDescNumber.  The read processor asks WdfReadTransaction.
ReadPollEnds ==
    /\ worker["ReadRequestProcessor"] = "poll"
    /\ worker' = [worker EXCEPT !["ReadRequestProcessor"] = "wait"]
    /\ IF trans.st = "transfer" THEN DmaCompleted ELSE NothingToComplete
    /\ UNCHANGED <<step, referenced, bar, pinVars>>

\* The write processor asks WdfWriteTransaction.
WritePollEnds ==
    /\ worker["WriteRequestProcessor"] = "poll"
    /\ worker' = [worker EXCEPT !["WriteRequestProcessor"] = "wait"]
    /\ NothingToComplete
    /\ UNCHANGED <<step, referenced, bar, pinVars>>
===============================================================================
