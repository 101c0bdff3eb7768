----------------------------- MODULE WinDriverProofs -----------------------------
(***************************************************************************)
(* WinDriver for any number of requests, any scatter/gather lists and any  *)
(* resources: a transaction serves a request the driver holds, the threads *)
(* poll mapped registers only, the cleanup waits for them, the pages of a  *)
(* transfer stay as it was programmed, and the pins are as last set.       *)
(***************************************************************************)
EXTENDS WinDriver, PinsProofs

RequestStates == {"idle", "queued", "driver", "ok", "failed", "cancelled"}
Transactions ==
    [st : {"released", "executing", "transfer"},
     owner : {<<>>} \cup {<<r>> : r \in Requests},
     left : Int]

Types ==
    /\ req \in [Requests -> RequestStates]
    /\ shape \in [Requests -> Shapes \cup {<<>>}]
    /\ trans \in Transactions
    /\ worker \in [Workers -> {"none", "wait", "poll", "ended"}]
    /\ step \in 0 .. 15
    /\ pnp = "adding" => step < 15

\* The transaction in use has an owner, and the driver holds it.
OwnerHeld ==
    trans.st # "released" =>
        \E r \in Requests : trans.owner = <<r>> /\ req[r] = "driver"

Held(S) == \E r \in S : req[r] = "driver"

\* The thread polls, or will as soon as it runs.
ReadCalled == "ReadRequestEvent" \in signalled \/ worker["ReadRequestProcessor"] = "poll"
WriteCalled == "WriteRequestEvent" \in signalled \/ worker["WriteRequestProcessor"] = "poll"

\* A read the driver holds that has lost the transaction: nothing ever completes it.
Stuck(r) == req[r] = "driver" /\ ~ (trans.st # "released" /\ trans.owner = <<r>>)

\* The read processor is called for a read the driver holds, and once only; the write
\* processor for a write it holds, or there is a stuck read.
Calls ==
    /\ ReadCalled => Held(Reads)
    /\ "ReadRequestEvent" \in signalled => worker["ReadRequestProcessor"] # "poll"
    /\ trans.st = "executing" /\ trans.owner[1] \in Reads => ~ReadCalled
    /\ WriteCalled => Held(Writes) \/ \E r \in Reads : Stuck(r)

\* A card that serves requests is mapped, and is not released before they have ended.
Mapped ==
    /\ Held(Requests) => bar # NoBars /\ pnp \in {"started", "stopping", "removing", "crashed"}
    /\ pnp \in {"resetting", "started", "stopping"} => bar # NoBars

\* The cleanup knows every thread, but the one whose reference failed.
Known ==
    /\ pnp \notin {"removed", "crashed"} =>
         \A w \in Workers : worker[w] # "none" => w \in referenced \/ Lost(w)
    /\ ThreadsEndBeforeContext

IInv == Types /\ OwnerHeld /\ Calls /\ Mapped /\ Known
-------------------------------------------------------------------------------
(* Facts about the definitions *)

LEMMA LenAddSteps == Len(AddSteps) = 15
  BY DEF AddSteps

\* Each thread is referenced by the call after the one that started it.
LEMMA ReferencedNext ==
    ASSUME NEW s \in 0 .. 14, NEW w \in Started(AddSteps[s + 1])
    PROVE  s + 1 < 15 /\ Referenced(AddSteps[s + 2]) = {w}
<1>1. AddSteps[s + 1] \in {"read_thread", "write_thread"}
  BY DEF Started
<1>2. /\ AddSteps[s + 1] = "read_thread" => s + 1 = 9
      /\ AddSteps[s + 1] = "write_thread" => s + 1 = 11
  BY SMT DEF AddSteps
<1>3. AddSteps[10] = "read_reference" /\ AddSteps[12] = "write_reference"
  BY SMT DEF AddSteps
<1>4. CASE AddSteps[s + 1] = "read_thread"
  BY <1>2, <1>3, <1>4, SMT DEF Started, Referenced
<1>5. CASE AddSteps[s + 1] = "write_thread"
  BY <1>2, <1>3, <1>5, SMT DEF Started, Referenced
<1> QED
  BY <1>1, <1>4, <1>5

LEMMA WorkerOf ==
    /\ \A r \in Reads : Worker(r) = "ReadRequestProcessor"
    /\ \A r \in Writes : Worker(r) = "WriteRequestProcessor"
    /\ OwnEvent["ReadRequestProcessor"] = "ReadRequestEvent"
    /\ OwnEvent["WriteRequestProcessor"] = "WriteRequestEvent"
    /\ Workers = {"ReadRequestProcessor", "WriteRequestProcessor"}
  BY WinDmaAssumption DEF Worker, OwnEvent, Workers

LEMMA LengthsAreInt == ASSUME NEW s \in Shapes \cup {<<>>} PROVE Len(s) \in Int
  BY WinDmaAssumption
LEMMA BarsMapped ==
    ASSUME NEW res \in ResourceLists, Len(res) >= 2
    PROVE  [Bar0 |-> res[1], Bar1 |-> res[1]] # NoBars
<1>1. res \in Seq(Resources)
  BY WinDeviceAssumption
<1>2. res[1] \in Resources
  BY <1>1, SMT
<1> QED
  BY <1>2 DEF NoBars, Resources

\* What only concerns the requests and the threads is kept by steps that leave them alone.
LEMMA SameCalls ==
    ASSUME OwnerHeld, Calls, UNCHANGED <<req, trans, signalled, worker>>
    PROVE  OwnerHeld' /\ Calls'
  BY DEF OwnerHeld, Calls, ReadCalled, WriteCalled, Held, Stuck

LEMMA SameTypes ==
    ASSUME Types, UNCHANGED <<req, shape, trans, worker, step>>, pnp' = "adding" => pnp = "adding"
    PROVE  Types'
  BY DEF Types

LEMMA SameKnown ==
    ASSUME Known, UNCHANGED <<worker, referenced, step>>,
           pnp' = "removed" => pnp = "removed",
           pnp = "removed" => pnp' \in {"removed", "crashed"},
           pnp # "crashed"
    PROVE  Known'
  BY DEF Known, ThreadsEndBeforeContext, Lost
-------------------------------------------------------------------------------
(* The invariant holds at first *)

LEMMA InitIInv == Init => IInv
<1> SUFFICES ASSUME Init PROVE IInv
  OBVIOUS
<1> USE DEF Init, DeviceInit, DmaInit, Released
<1>1. Types
  BY DEF Types, RequestStates, Transactions
<1>2. OwnerHeld /\ Mapped
  BY DEF OwnerHeld, Mapped, Held, Requests
<1>3. Calls
  BY WorkerOf DEF Calls, ReadCalled, WriteCalled
<1>4. Known
  BY DEF Known, ThreadsEndBeforeContext
<1> QED
  BY <1>1, <1>2, <1>3, <1>4 DEF IInv
-------------------------------------------------------------------------------
(* The device object *)

LEMMA AddSucceedsKeeps ==
    ASSUME IInv, AddSucceeds, UNCHANGED <<req, shape, trans>>
    PROVE  IInv'
<1> USE DEF IInv
<1> DEFINE s == AddSteps[step + 1]
<1>1. /\ step \in 0 .. 14 /\ step' = step + 1 /\ pnp = "adding"
      /\ worker' = [w \in Workers |-> IF w \in Started(s) THEN "wait" ELSE worker[w]]
      /\ referenced' = referenced \cup Referenced(s)
      /\ pnp' \in {"added", "adding"} /\ (pnp' = "adding" => step + 1 # 15)
      /\ UNCHANGED <<signalled, bar>>
  BY LenAddSteps, SMT DEF AddSucceeds, Types
<1>2. Types'
  BY <1>1, SMT DEF Types
<1>3. OwnerHeld' /\ Mapped'
  BY <1>1 DEF OwnerHeld, Mapped, Held
<1>4. Calls'
  <2>1. \A w \in Workers : worker'[w] = "poll" => worker[w] = "poll"
    BY <1>1
  <2> QED
    BY <2>1, <1>1, WorkerOf DEF Calls, ReadCalled, WriteCalled, Held, Stuck
<1>5. Known'
  <2>1. ASSUME NEW w \in Workers, worker'[w] # "none"
        PROVE  w \in referenced' \/ Lost(w)'
    <3>1. CASE w \in Started(s)
      <4>1. step + 1 < 15 /\ Referenced(AddSteps[step + 2]) = {w}
        BY <1>1, <3>1, ReferencedNext
      <4>2. step' + 1 = step + 2
        BY <1>1, SMT
      <4> QED
        BY <4>1, <4>2, <1>1, LenAddSteps DEF Lost
    <3>2. CASE w \notin Started(s)
      <4>1. w \in referenced \/ Lost(w)
        BY <1>1, <2>1, <3>2 DEF Known
      <4> QED
        BY <4>1, <1>1 DEF Lost
    <3> QED
      BY <3>1, <3>2
  <2> QED
    BY <2>1, <1>1 DEF Known, ThreadsEndBeforeContext
<1> QED
  BY <1>2, <1>3, <1>4, <1>5

LEMMA DeviceKeeps ==
    ASSUME IInv, pnp # "crashed", UNCHANGED <<req, shape, trans>>,
           AddFails \/ PrepareHardware \/ Prepared \/ StopCard \/ RemoveIdle
    PROVE  IInv'
<1> USE DEF IInv
<1>1. /\ UNCHANGED <<step, worker, referenced, signalled, req, shape, trans>>
      /\ pnp' \notin {"adding", "removed"} /\ pnp # "removed"
  BY DEF AddFails, PrepareHardware, Prepared, StopCard, RemoveIdle
<1>2. Types' /\ OwnerHeld' /\ Calls' /\ Known'
  BY <1>1, SameTypes, SameCalls, SameKnown
<1>3. Mapped'
  <2>1. CASE PrepareHardware
    <3>1. PICK res \in ResourceLists :
            \/ pnp' = "removing" /\ UNCHANGED bar
            \/ /\ ~ (Len(res) < 2) /\ pnp' = "resetting"
               /\ bar' = [Bar0 |-> res[1], Bar1 |-> res[1]]
      BY <2>1, Zenon DEF PrepareHardware
    <3>5. pnp \in {"added", "released"} /\ ~Held(Requests) /\ ~Held(Requests)'
      BY <1>1, <2>1 DEF PrepareHardware, Mapped, Held
    <3>2. Len(res) \in Nat
      BY WinDeviceAssumption
    <3>3. CASE Len(res) >= 2 /\ bar' = [Bar0 |-> res[1], Bar1 |-> res[1]]
      <4>1. bar' # NoBars
        BY <3>3, BarsMapped
      <4> QED
        BY <3>5, <4>1 DEF Mapped, NoBars
    <3>4. CASE pnp' = "removing" /\ UNCHANGED bar
      BY <3>4, <3>5 DEF Mapped, NoBars
    <3> QED
      BY <3>1, <3>2, <3>3, <3>4, SMT
  <2>2. CASE AddFails \/ Prepared \/ StopCard \/ RemoveIdle
    BY <2>2, <1>1 DEF AddFails, Prepared, StopCard, RemoveIdle, Mapped, Held, NoBars
  <2> QED
    BY <2>1, <2>2
<1> QED
  BY <1>2, <1>3

LEMMA TeardownKeeps ==
    ASSUME IInv, pnp # "crashed", Teardown
    PROVE  IInv'
<1> USE DEF IInv
<1>0. UNCHANGED <<req, shape, trans>>
  BY DEF Teardown, dmaVars
<1>1. CASE ReleaseHardware /\ DriverHoldsNone
  <2>1. /\ UNCHANGED <<step, worker, referenced, signalled>> /\ bar' = NoBars
        /\ pnp' \in {"released", "cleanup"} /\ pnp # "removed" /\ ~Held(Requests)
    BY <1>1 DEF ReleaseHardware, DriverHoldsNone, Held
  <2>2. Mapped'
    BY <2>1, <1>0 DEF Mapped, Held
  <2> QED
    BY <2>1, <2>2, <1>0, SameTypes, SameCalls, SameKnown
<1>2. CASE CleanupSignals
  <2>1. /\ UNCHANGED <<step, worker, referenced, bar>>
        /\ pnp' \in {"cleanup_wait", "crashed"} /\ pnp = "cleanup"
        /\ signalled' \in {signalled, signalled \cup {"TerminatedThreadEvent"}}
    BY <1>2 DEF CleanupSignals
  <2>2. OwnerHeld' /\ Mapped'
    BY <2>1, <1>0 DEF OwnerHeld, Mapped, Held
  <2>3. Calls'
    BY <2>1, <1>0 DEF Calls, ReadCalled, WriteCalled, Held, Stuck
  <2> QED
    BY <2>1, <2>2, <2>3, <1>0, SameTypes, SameKnown
<1>3. CASE CleanupWaits
  <2>1. /\ UNCHANGED <<step, worker, signalled, bar>> /\ pnp = "cleanup_wait" /\ pnp' = "removed"
        /\ \A w \in referenced : worker[w] = "ended"
    BY <1>3 DEF CleanupWaits
  <2>2. Mapped'
    BY <2>1, <1>0 DEF Mapped, Held
  <2>3. Known'
    BY <2>1 DEF Known, ThreadsEndBeforeContext, Lost
  <2> QED
    BY <2>1, <2>2, <2>3, <1>0, SameTypes, SameCalls
<1> QED
  BY <1>1, <1>2, <1>3 DEF Teardown

\* A thread of a removed device is one whose reference failed.
LEMMA ThreadKeeps ==
    ASSUME IInv, pnp # "crashed", NEW w \in Workers, Thread(w)
    PROVE  IInv'
<1> USE DEF IInv
<1>1. /\ UNCHANGED <<pnp, step, referenced, bar, req, shape, trans>>
      /\ worker[w] = "wait"
      /\ \/ /\ worker' = [worker EXCEPT ![w] = "poll"] /\ OwnEvent[w] \in signalled
            /\ signalled' = signalled \ {OwnEvent[w]}
         \/ worker' = [worker EXCEPT ![w] = "ended"] /\ signalled' = signalled
  BY DEF Thread, WorkerWakes, WorkerEnds, dmaVars
<1>2. Types'
  BY <1>1 DEF Types
<1>3. OwnerHeld' /\ Mapped'
  BY <1>1 DEF OwnerHeld, Mapped, Held
<1>4. Calls'
  <2>1. worker \in [Workers -> {"none", "wait", "poll", "ended"}]
    BY DEF Types
  <2>2. CASE w = "ReadRequestProcessor"
    BY <1>1, <2>1, <2>2, WorkerOf DEF Calls, ReadCalled, WriteCalled, Held, Stuck
  <2>3. CASE w = "WriteRequestProcessor"
    BY <1>1, <2>1, <2>3, WorkerOf DEF Calls, ReadCalled, WriteCalled, Held, Stuck
  <2> QED
    BY <2>2, <2>3, WorkerOf
<1>5. Known'
  BY <1>1 DEF Known, ThreadsEndBeforeContext, Lost, Types
<1> QED
  BY <1>2, <1>3, <1>4, <1>5
-------------------------------------------------------------------------------
(* The requests *)

LEMMA FrameworkKeeps ==
    ASSUME IInv, pnp # "crashed", Framework
    PROVE  IInv'
<1> USE DEF IInv
<1>1. /\ UNCHANGED <<pnp, step, worker, referenced, signalled, bar, trans>>
      /\ req' \in [Requests -> RequestStates]
      /\ shape' \in [Requests -> Shapes \cup {<<>>}]
      /\ \A q \in Requests : req'[q] = "driver" <=> req[q] = "driver"
  <2>1. ASSUME NEW r \in Requests, Submit(r), UNCHANGED deviceVars
        PROVE  <1>1!:
    BY <2>1 DEF Submit, Types, RequestStates, deviceVars
  <2>2. ASSUME Purge, UNCHANGED deviceVars
        PROVE  <1>1!:
    BY <2>2 DEF Purge, Types, RequestStates, deviceVars
  <2> QED
    BY <2>1, <2>2 DEF Framework
<1>2. Types'
  BY <1>1 DEF Types
<1>3. OwnerHeld' /\ Mapped'
  BY <1>1 DEF OwnerHeld, Mapped, Held
<1>4. Calls'
  BY <1>1 DEF Calls, ReadCalled, WriteCalled, Held, Stuck, Requests
<1> QED
  BY <1>1, <1>2, <1>3, <1>4, SameKnown

LEMMA EvtIoKeeps ==
    ASSUME IInv, pnp # "crashed", NEW r \in Requests, EvtIo(r), UNCHANGED deviceVars
    PROVE  IInv'
<1> USE DEF IInv
<1>0. /\ UNCHANGED <<pnp, step, worker, referenced, signalled, bar, shape>>
      /\ req[r] = "queued" /\ pnp = "started" /\ \A q \in Kind(r) : req[q] # "driver"
  BY DEF EvtIo, Presented, deviceVars
<1>a. req \in [Requests -> RequestStates] /\ shape[r] \in Shapes \cup {<<>>}
  BY DEF Types
<1>1. CASE EvtIoFails(r)
  <2>1. req' = [req EXCEPT ![r] = "failed"] /\ trans' = Released
    BY <1>1 DEF EvtIoFails
  <2>2. \A q \in Requests : req'[q] = "driver" <=> req[q] = "driver"
    BY <2>1, <1>0, <1>a
  <2>3. Types'
    BY <2>1, <1>0 DEF Types, RequestStates, Transactions, Released
  <2>4. OwnerHeld' /\ Mapped'
    BY <2>1, <2>2, <1>0 DEF OwnerHeld, Mapped, Held, Released
  <2>5. Calls'
    BY <2>1, <2>2, <1>0 DEF Calls, ReadCalled, WriteCalled, Held, Stuck, Requests, Released
  <2> QED
    BY <2>3, <2>4, <2>5, <1>0, SameKnown
<1>2. CASE /\ req' = [req EXCEPT ![r] = "driver"] /\ trans.st = "released"
           /\ trans' = [st |-> "executing", owner |-> <<r>>, left |-> Len(shape[r])]
  <2>1. \A q \in Requests : req'[q] = "driver" <=> q = r \/ req[q] = "driver"
    BY <1>2, <1>0, <1>a
  <2>2. Types'
    <3>1. Len(shape[r]) \in Int
      BY <1>a, LengthsAreInt
    <3> QED
      BY <1>2, <1>0, <3>1 DEF Types, RequestStates, Transactions
  <2>3. OwnerHeld' /\ Mapped'
    BY <1>2, <2>1, <1>0 DEF OwnerHeld, Mapped, Held
  <2>4. Calls'
    <3>1. CASE r \in Reads
      BY <1>2, <2>1, <1>0, <3>1, WinDmaAssumption
         DEF Calls, ReadCalled, WriteCalled, Held, Stuck, Requests, Kind
    <3>2. CASE r \in Writes /\ r \notin Reads
      BY <1>2, <2>1, <1>0, <3>2, WinDmaAssumption
         DEF Calls, ReadCalled, WriteCalled, Held, Stuck, Requests
    <3> QED
      BY <3>1, <3>2 DEF Requests
  <2> QED
    BY <2>2, <2>3, <2>4, <1>0, SameKnown
<1> QED
  BY <1>1, <1>2 DEF EvtIo

\* The next transfer is programmed while the read processor neither polls nor will.
LEMMA ProgramKeeps ==
    ASSUME Types, OwnerHeld, NEW r \in Requests, trans.owner = <<r>>, req[r] = "driver",
           trans.st # "released", Program(r), UNCHANGED <<req, worker>>,
           r \in Reads => worker["ReadRequestProcessor"] # "poll",
           ReadCalled => Held(Reads),
           "ReadRequestEvent" \in signalled => worker["ReadRequestProcessor"] # "poll",
           WriteCalled => Held(Writes) \/ \E q \in Reads : Stuck(q)
    PROVE  trans' \in Transactions /\ OwnerHeld' /\ Calls'
<1>1. /\ trans' = [trans EXCEPT !.st = "transfer", !.left = @ - 1]
      /\ signalled' = signalled \cup {OwnEvent[Worker(r)]}
  BY DEF Program
<1>2. trans' \in Transactions /\ trans'.st = "transfer" /\ trans'.owner = <<r>>
  <2>1. trans \in Transactions /\ trans.left - 1 \in Int
    BY DEF Types, Transactions
  <2>2. trans' = [st |-> "transfer", owner |-> <<r>>, left |-> trans.left - 1]
    BY <1>1, <2>1 DEF Transactions
  <2> QED
    BY <2>1, <2>2 DEF Transactions
<1>3. OwnerHeld'
  BY <1>2 DEF OwnerHeld
<1>4. \A q \in Reads : Stuck(q) => Stuck(q)'
  BY <1>2 DEF Stuck
<1>5. CASE r \in Reads
  <2>1. signalled' = signalled \cup {"ReadRequestEvent"} /\ Held(Reads)
    BY <1>1, <1>5, WorkerOf DEF Held
  <2> QED
    BY <1>2, <1>3, <1>4, <1>5, <2>1 DEF Calls, ReadCalled, WriteCalled, Held
<1>6. CASE r \in Writes
  <2>1. signalled' = signalled \cup {"WriteRequestEvent"} /\ Held(Writes)
    BY <1>1, <1>6, WorkerOf DEF Held
  <2> QED
    BY <1>2, <1>3, <1>4, <1>6, <2>1 DEF Calls, ReadCalled, WriteCalled, Held
<1> QED
  BY <1>5, <1>6 DEF Requests

LEMMA ProgramDmaKeeps ==
    ASSUME IInv, pnp # "crashed", langfordEvtProgramDma
    PROVE  IInv'
<1> USE DEF IInv
<1>1. /\ UNCHANGED <<pnp, step, worker, referenced, bar, req, shape>>
      /\ trans.st = "executing" /\ Program(trans.owner[1])
  BY DEF langfordEvtProgramDma
<1>2. PICK r \in Requests : trans.owner = <<r>> /\ req[r] = "driver"
  BY <1>1 DEF OwnerHeld
<1>3. Program(r) /\ (r \in Reads => worker["ReadRequestProcessor"] # "poll")
  BY <1>1, <1>2 DEF Calls, ReadCalled
<1>4. trans' \in Transactions /\ OwnerHeld' /\ Calls'
  BY <1>1, <1>2, <1>3, ProgramKeeps DEF Calls
<1>5. Types' /\ Mapped'
  BY <1>1, <1>4 DEF Types, Mapped, Held
<1> QED
  BY <1>1, <1>4, <1>5, SameKnown
-------------------------------------------------------------------------------
(* The request processors *)

\* A thread that goes back to waiting, of a removed device or not.
LEMMA PollEndsKnown ==
    ASSUME Types, Known, pnp # "crashed", NEW w \in Workers, worker[w] = "poll",
           worker' = [worker EXCEPT ![w] = "wait"], UNCHANGED <<step, referenced>>,
           pnp' \in {pnp, "crashed"}
    PROVE  Known'
  BY DEF Types, Known, ThreadsEndBeforeContext, Lost

LEMMA PollEndsNothing ==
    ASSUME IInv, NEW w \in Workers, worker[w] = "poll",
           worker' = [worker EXCEPT ![w] = "wait"],
           NothingToComplete, UNCHANGED <<step, bar>>
    PROVE  Types' /\ OwnerHeld' /\ Calls' /\ Mapped'
<1> USE DEF IInv
<1>1. UNCHANGED <<signalled, req, shape, trans>> /\ pnp' \in {pnp, "crashed"}
  BY DEF NothingToComplete, dmaVars
<1>2. \A v \in Workers : worker'[v] = "poll" => worker[v] = "poll"
  BY DEF Types
<1>3. Types'
  BY <1>1 DEF Types
<1>4. OwnerHeld' /\ Mapped'
  BY <1>1 DEF OwnerHeld, Mapped, Held
<1>5. Calls'
  BY <1>1, <1>2, WorkerOf DEF Calls, ReadCalled, WriteCalled, Held, Stuck
<1> QED
  BY <1>3, <1>4, <1>5

LEMMA WritePollKeeps ==
    ASSUME IInv, pnp # "crashed", WritePollEnds
    PROVE  IInv'
<1>1. /\ worker["WriteRequestProcessor"] = "poll"
      /\ worker' = [worker EXCEPT !["WriteRequestProcessor"] = "wait"]
      /\ NothingToComplete /\ UNCHANGED <<step, referenced, bar>>
      /\ pnp' \in {pnp, "crashed"} /\ "WriteRequestProcessor" \in Workers
  BY WorkerOf DEF WritePollEnds, NothingToComplete
<1> QED
  BY <1>1, PollEndsNothing, PollEndsKnown DEF IInv

\* The request the transaction has is complete: the read the thread was called for, or
\* a write, and then that read is stuck.
LEMMA CompletedKeeps ==
    ASSUME IInv, NEW r \in Requests, trans.owner = <<r>>, req[r] = "driver",
           trans.st # "released", trans' = Released, req' = [req EXCEPT ![r] = "ok"],
           worker["ReadRequestProcessor"] = "poll",
           worker' = [worker EXCEPT !["ReadRequestProcessor"] = "wait"],
           UNCHANGED <<signalled, shape, step, bar, pnp>>
    PROVE  Types' /\ OwnerHeld' /\ Calls' /\ Mapped'
<1> USE DEF IInv
<1>1. Types'
  <2>1. trans' \in Transactions
    BY DEF Transactions, Released
  <2>2. req' \in [Requests -> RequestStates]
    BY DEF Types, RequestStates
  <2> QED
    BY <2>1, <2>2 DEF Types
<1>2. OwnerHeld'
  BY DEF OwnerHeld, Released
<1>3. \A q \in Requests : req'[q] = "driver" <=> q # r /\ req[q] = "driver"
  BY DEF Types
<1>4. Mapped'
  BY <1>3 DEF Mapped, Held
<1>5. Calls'
  <2>1. ~ReadCalled'
    BY WorkerOf DEF Calls, ReadCalled, Types
  <2>2. WriteCalled' => WriteCalled
    BY WorkerOf DEF WriteCalled, Types
  <2>3. \A q \in Reads : q # r /\ req[q] = "driver" => Stuck(q)'
    BY <1>3 DEF Stuck, Released, Requests
  <2>4. WriteCalled => Held(Writes)' \/ \E q \in Reads : Stuck(q)'
    <3>1. CASE r \in Reads
      BY <3>1, <1>3, <2>3, WinDmaAssumption DEF Calls, Held, Stuck, Requests
    <3>2. CASE r \in Writes
      <4>1. PICK q \in Reads : req[q] = "driver"
        BY DEF Calls, ReadCalled, Held
      <4> QED
        BY <4>1, <3>2, <2>3, WinDmaAssumption
    <3> QED
      BY <3>1, <3>2 DEF Requests
  <2> QED
    BY <2>1, <2>2, <2>4 DEF Calls, ReadCalled, Released
<1> QED
  BY <1>1, <1>2, <1>4, <1>5

LEMMA ReadPollKeeps ==
    ASSUME IInv, pnp # "crashed", ReadPollEnds
    PROVE  IInv'
<1> USE DEF IInv
<1>1. /\ worker["ReadRequestProcessor"] = "poll"
      /\ worker' = [worker EXCEPT !["ReadRequestProcessor"] = "wait"]
      /\ UNCHANGED <<step, referenced, bar>> /\ "ReadRequestProcessor" \in Workers
  BY WorkerOf DEF ReadPollEnds
<1>2. CASE trans.st # "transfer"
  <2>1. NothingToComplete /\ pnp' \in {pnp, "crashed"}
    BY <1>2 DEF ReadPollEnds, NothingToComplete
  <2> QED
    BY <1>1, <2>1, PollEndsNothing, PollEndsKnown
<1>3. CASE trans.st = "transfer"
  <2>0. DmaCompleted
    BY <1>3 DEF ReadPollEnds
  <2>1. PICK r \in Requests : trans.owner = <<r>> /\ req[r] = "driver"
    BY <1>3 DEF OwnerHeld
  <2>2. CASE trans.left > 0
    <3>1. Program(r) /\ UNCHANGED <<pnp, req, shape>>
      BY <2>0, <2>1, <2>2 DEF DmaCompleted
    <3>2. trans' \in Transactions /\ OwnerHeld' /\ Calls'
      <4>1. /\ trans' = [trans EXCEPT !.st = "transfer", !.left = @ - 1]
            /\ signalled' = signalled \cup {OwnEvent[Worker(r)]}
        BY <3>1 DEF Program
      <4>2. worker'["ReadRequestProcessor"] = "wait"
            /\ worker'["WriteRequestProcessor"] = worker["WriteRequestProcessor"]
        BY <1>1, WorkerOf DEF Types
      <4>3. Held(Reads) /\ "ReadRequestEvent" \notin signalled
        BY <1>1 DEF Calls, ReadCalled
      <4>4. trans' \in Transactions /\ trans'.st = "transfer" /\ trans'.owner = <<r>>
        <5>1. trans \in Transactions /\ trans.left - 1 \in Int
          BY DEF Types, Transactions
        <5>2. trans' = [st |-> "transfer", owner |-> <<r>>, left |-> trans.left - 1]
          BY <4>1, <5>1, <2>1 DEF Transactions
        <5> QED
          BY <5>1, <5>2 DEF Transactions
      <4>5. OwnerHeld'
        BY <4>4, <3>1, <2>1 DEF OwnerHeld
      <4>6. \A q \in Reads : Stuck(q) => Stuck(q)'
        BY <4>4, <3>1, <2>1, <1>3 DEF Stuck
      <4>7. WriteCalled' => Held(Writes)' \/ \E q \in Reads : Stuck(q)'
        <5>1. CASE r \in Reads
          BY <5>1, <4>1, <4>2, <4>6, <3>1, WorkerOf DEF Calls, WriteCalled, Held
        <5>2. CASE r \in Writes
          BY <5>2, <3>1, <2>1 DEF Held
        <5> QED
          BY <5>1, <5>2 DEF Requests
      <4> QED
        BY <4>2, <4>3, <4>4, <4>5, <4>7, <3>1 DEF Calls, ReadCalled, Held
    <3>3. Types' /\ Mapped'
      BY <1>1, <3>1, <3>2 DEF Types, Mapped, Held
    <3> QED
      BY <1>1, <3>1, <3>2, <3>3, PollEndsKnown
  <2>3. CASE ~ (trans.left > 0)
    <3>1. /\ trans' = Released /\ req' = [req EXCEPT ![r] = "ok"]
          /\ UNCHANGED <<pnp, signalled, shape>>
      BY <2>0, <2>1, <2>3 DEF DmaCompleted
    <3> QED
      BY <1>1, <1>3, <2>1, <3>1, CompletedKeeps, PollEndsKnown
  <2> QED
    BY <2>2, <2>3
<1> QED
  BY <1>2, <1>3
-------------------------------------------------------------------------------
(* The theorems *)

LEMMA NextIInv == IInv /\ [Next]_vars => IInv'
<1> SUFFICES ASSUME IInv, [Next]_vars PROVE IInv'
  OBVIOUS
<1>0. CASE UNCHANGED vars
  BY <1>0 DEF vars, deviceVars, dmaVars, IInv, Types, OwnerHeld, Calls, ReadCalled, WriteCalled,
              Held, Stuck, Mapped, Known, ThreadsEndBeforeContext, Lost
<1> SUFFICES ASSUME Next PROVE IInv'
  BY <1>0
<1>a. pnp # "crashed"
  BY DEF Next
<1>1. CASE Device
  <2>1. CASE AddSucceeds
    BY <2>1, <1>1, AddSucceedsKeeps DEF Device
  <2> QED
    BY <2>1, <1>1, <1>a, DeviceKeeps DEF Device
<1>2. CASE Ioctl
  <2>1. UNCHANGED <<deviceVars, dmaVars>>
    BY <1>2 DEF Ioctl
  <2> QED
    BY <2>1, <1>a DEF deviceVars, dmaVars, IInv, Types, OwnerHeld, Calls, ReadCalled,
             WriteCalled, Held, Stuck, Mapped, Known, ThreadsEndBeforeContext, Lost
<1>3. CASE langfordEvtIoRead \/ langfordEvtIoWrite
  BY <1>3, <1>a, EvtIoKeeps DEF langfordEvtIoRead, langfordEvtIoWrite, Requests
<1>4. CASE \E w \in Workers : Thread(w)
  BY <1>4, <1>a, ThreadKeeps
<1> QED
  BY <1>1, <1>2, <1>3, <1>4, <1>a, TeardownKeeps, FrameworkKeeps, ProgramDmaKeeps,
     ReadPollKeeps, WritePollKeeps DEF Next

LEMMA Invariance == Spec => []IInv
<1>1. Init => IInv
  BY InitIInv
<1>2. IInv /\ [Next]_vars => IInv'
  BY NextIInv
<1> QED
  BY <1>1, <1>2, PTL DEF Spec

\* A transaction in use serves a request the driver holds (langford_io.c:244-280): no
\* order of reads, writes, refusals and completions completes a request twice.
THEOREM ServesOwner == Spec => []TransactionServesOwner
<1>1. IInv => TransactionServesOwner
  BY DEF IInv, OwnerHeld, TransactionServesOwner
<1> QED
  BY <1>1, Invariance, PTL

\* The request processors read the fill level (langford_isrdpc.c:63 and 126) of a card
\* that is mapped.
THEOREM PollsMapped == Spec => []PollsMappedCard
<1>1. IInv => PollsMappedCard
  BY WorkerOf DEF IInv, Calls, ReadCalled, WriteCalled, Held, Stuck, Mapped, PollsMappedCard,
                  Requests
<1> QED
  BY <1>1, Invariance, PTL

\* When the cleanup of langford_dev.c:257-288 has returned, no thread it could know of
\* uses the context, whichever step of EvtDeviceAdd failed.
THEOREM ThreadsEnd == Spec => []ThreadsEndBeforeContext
<1>1. IInv => ThreadsEndBeforeContext
  BY DEF IInv, Known
<1> QED
  BY <1>1, Invariance, PTL
-------------------------------------------------------------------------------
(* The types of what the invariant above does not need *)

PnpStates ==
    {"adding", "added", "resetting", "started", "stopping", "released", "removing", "cleanup",
     "cleanup_wait", "removed", "crashed"}
BarMaps == [{"Bar0", "Bar1"} -> {"none", "mem0", "mem1"}]

\* A transaction that executes has a transfer left.
DriverTypes ==
    /\ pnp \in PnpStates
    /\ referenced \subseteq Workers /\ signalled \subseteq Events
    /\ bar \in BarMaps
    /\ trans.left \in Nat /\ (trans.st = "executing" => trans.left # 0)
    /\ delivered \subseteq Requests /\ wrote \in BOOLEAN

LEMMA SameDmaTypes ==
    ASSUME DriverTypes, UNCHANGED <<trans, delivered, wrote>>,
           pnp' \in PnpStates, referenced' \subseteq Workers, signalled' \subseteq Events,
           bar' \in BarMaps
    PROVE  DriverTypes'
  BY DEF DriverTypes

LEMMA DeviceTypes ==
    ASSUME DriverTypes, Device
    PROVE  DriverTypes'
<1>0. UNCHANGED <<trans, delivered, wrote>>
  BY DEF Device
<1>1. CASE AddSucceeds
  <2>1. /\ pnp' \in PnpStates /\ UNCHANGED <<signalled, bar>>
        /\ referenced' = referenced \cup Referenced(AddSteps[step + 1])
    BY <1>1 DEF AddSucceeds, PnpStates
  <2>2. Referenced(AddSteps[step + 1]) \subseteq Workers
    BY DEF Referenced, Workers
  <2> QED
    BY <2>1, <2>2, <1>0, SameDmaTypes DEF DriverTypes
<1>2. CASE PrepareHardware
  <2>1. PICK res \in ResourceLists :
          \/ pnp' = "removing" /\ UNCHANGED bar
          \/ /\ ~ (Len(res) < 2) /\ res[1] # "interrupt" /\ pnp' = "resetting"
             /\ bar' = [Bar0 |-> res[1], Bar1 |-> res[1]]
    BY <1>2, Zenon DEF PrepareHardware
  <2>2. UNCHANGED <<referenced, signalled>>
    BY <1>2 DEF PrepareHardware
  <2>3. pnp' \in PnpStates
    BY <2>1 DEF PnpStates
  <2>4. bar' \in BarMaps
    <3>1. CASE ~ (Len(res) < 2) /\ res[1] # "interrupt"
               /\ bar' = [Bar0 |-> res[1], Bar1 |-> res[1]]
      <4>1. res \in Seq(Resources) /\ Len(res) \in Nat
        BY WinDeviceAssumption
      <4>2. res[1] \in Resources
        BY <4>1, <3>1, SMT
      <4> QED
        BY <4>2, <3>1, SMT DEF Resources, BarMaps
    <3> QED
      BY <3>1, <2>1 DEF DriverTypes
  <2> QED
    BY <2>2, <2>3, <2>4, <1>0, SameDmaTypes DEF DriverTypes
<1>3. CASE AddFails \/ Prepared \/ StopCard \/ RemoveIdle
  <2>1. pnp' \in PnpStates /\ UNCHANGED <<referenced, signalled, bar>>
    BY <1>3 DEF AddFails, Prepared, StopCard, RemoveIdle, PnpStates
  <2> QED
    BY <2>1, <1>0, SameDmaTypes DEF DriverTypes
<1> QED
  BY <1>1, <1>2, <1>3 DEF Device

LEMMA TeardownTypes ==
    ASSUME DriverTypes, Teardown
    PROVE  DriverTypes'
<1>1. pnp' \in PnpStates /\ UNCHANGED <<trans, delivered, wrote>>
  BY DEF Teardown, ReleaseHardware, CleanupSignals, CleanupWaits, PnpStates, dmaVars
<1>2. referenced' \subseteq Workers /\ signalled' \subseteq Events
  BY DEF Teardown, ReleaseHardware, CleanupSignals, CleanupWaits, DriverTypes, Events
<1>3. bar' \in BarMaps
  BY DEF Teardown, ReleaseHardware, CleanupSignals, CleanupWaits, DriverTypes, BarMaps, NoBars
<1> QED
  BY <1>1, <1>2, <1>3, SameDmaTypes

LEMMA ThreadTypes ==
    ASSUME DriverTypes, NEW w \in Workers, Thread(w)
    PROVE  DriverTypes'
  BY DEF Thread, WorkerWakes, WorkerEnds, dmaVars, DriverTypes

LEMMA RequestTypes ==
    ASSUME IInv, DriverTypes, Framework \/ langfordEvtIoRead \/ langfordEvtIoWrite
    PROVE  DriverTypes'
<1>0. UNCHANGED <<pnp, referenced, signalled, bar>>
  BY DEF Framework, langfordEvtIoRead, langfordEvtIoWrite, deviceVars
<1>1. CASE Framework
  BY <1>0, <1>1 DEF Framework, Submit, Purge, DriverTypes
<1>2. ASSUME NEW r \in Requests, EvtIo(r)
      PROVE  DriverTypes'
  <2>1. delivered' = delivered /\ wrote' \in BOOLEAN
    BY <1>2, Zenon DEF EvtIo
  <2>2. \/ trans' = Released
        \/ /\ shape[r] # <<>>
           /\ trans' = [st |-> "executing", owner |-> <<r>>, left |-> Len(shape[r])]
    BY <1>2 DEF EvtIo, EvtIoFails
  <2>3. shape[r] \in Shapes \cup {<<>>}
    BY DEF IInv, Types
  <2>4. shape[r] # <<>> => Len(shape[r]) \in Nat /\ Len(shape[r]) # 0
    <3>1. Shapes \subseteq Seq(Seq(Frames))
      BY WinDmaAssumption
    <3> QED
      BY <2>3, <3>1, SMT
  <2>5. trans'.left \in Nat /\ (trans'.st = "executing" => trans'.left # 0)
    BY <2>2, <2>4 DEF Released
  <2> QED
    BY <1>0, <2>1, <2>5 DEF DriverTypes
<1> QED
  BY <1>1, <1>2 DEF langfordEvtIoRead, langfordEvtIoWrite, Requests

LEMMA ProgramTypes ==
    ASSUME IInv, DriverTypes, NEW r \in Requests, trans.left # 0, Program(r),
           UNCHANGED <<referenced, bar, wrote>>, pnp' \in PnpStates
    PROVE  DriverTypes'
<1>1. /\ trans' = [trans EXCEPT !.st = "transfer", !.left = @ - 1]
      /\ signalled' = signalled \cup {OwnEvent[Worker(r)]}
      /\ delivered' \in {delivered, delivered \cup {r}}
  BY DEF Program
<1>2. trans'.left \in Nat /\ trans'.st # "executing"
  BY <1>1 DEF IInv, Types, Transactions, DriverTypes
<1>3. OwnEvent[Worker(r)] \in Events
  BY DEF Worker, OwnEvent, Events
<1> QED
  BY <1>1, <1>2, <1>3 DEF DriverTypes

LEMMA PollTypes ==
    ASSUME IInv, DriverTypes, ReadPollEnds \/ WritePollEnds \/ langfordEvtProgramDma
    PROVE  DriverTypes'
<1>1. UNCHANGED <<referenced, bar>>
  BY DEF ReadPollEnds, WritePollEnds, langfordEvtProgramDma
<1>2. CASE NothingToComplete
  BY <1>1, <1>2 DEF NothingToComplete, dmaVars, DriverTypes, PnpStates
<1>3. CASE langfordEvtProgramDma
  <2>1. PICK r \in Requests : trans.owner = <<r>>
    BY <1>3 DEF IInv, OwnerHeld, langfordEvtProgramDma
  <2>2. trans.left # 0 /\ Program(r) /\ wrote' = wrote /\ pnp' \in PnpStates
    BY <1>3, <2>1 DEF langfordEvtProgramDma, DriverTypes
  <2> QED
    BY <1>1, <2>2, ProgramTypes
<1>4. CASE trans.st = "transfer" /\ DmaCompleted
  <2>1. PICK r \in Requests : trans.owner = <<r>>
    BY <1>4 DEF IInv, OwnerHeld
  <2>2. CASE trans.left > 0
    <3>1. trans.left # 0 /\ Program(r) /\ wrote' = wrote /\ pnp' \in PnpStates
      BY <1>4, <2>1, <2>2 DEF DmaCompleted, DriverTypes
    <3> QED
      BY <1>1, <3>1, ProgramTypes
  <2>3. CASE ~ (trans.left > 0)
    BY <1>1, <1>4, <2>3 DEF DmaCompleted, DriverTypes, Released
  <2> QED
    BY <2>2, <2>3
<1> QED
  BY <1>2, <1>3, <1>4 DEF ReadPollEnds, WritePollEnds
-------------------------------------------------------------------------------
(* The pins *)

WordTypes ==
    /\ words \in [WinRegisters -> SUBSET Bits]
    /\ lastset \in [WinNames -> {<<>>} \cup {<<arg>> : arg \in SUBSET Bits}]

\* What PowerDown sets, and every field that a program or a power-down may set.
PowerNames == {"ADCAPD", "ADCBPD", "DACReset", "DACSClk", "DACSDIO", "DACCSB", "DACSDO",
               "RxDspEn", "TxDspEn", "RxIsSigned", "TxIsSigned"}
CtlNames == {c.name : c \in CtlCalls}
SetNames == PowerNames \cup CtlNames

PinsInv ==
    /\ WordTypes /\ PinsHoldLastSet
    /\ \A n \in WinNames : lastset[n] # <<>> => n \in SetNames

LEMMA WinLayoutFields ==
    /\ WinLayout \subseteq Layout
    /\ \A f \in WinLayout : f.reg \in WinRegisters /\ f.name \in WinNames
    /\ \A n \in WinNames : \E f \in WinLayout : f.name = n
  BY DEF WinLayout, WinRegisters, WinNames

\* The range check of langfordIo is the one InRange states.
LEMMA AcceptedInRange ==
    ASSUME NEW f \in WinLayout, NEW arg \in SUBSET Bits
    PROVE  /\ InRange(f.name, arg) <=> Settable(f) /\ WinAccepted(f, arg)
           /\ WinAccepted(f, arg) => Fits(f, arg)
<1>1. InWord(f) /\ f.width > 0
  BY LayoutInWord, WinLayoutFields
<1>2. \A b \in arg : b \in 0 .. 31
  BY DEF Bits, WordBits
<1>3. WinAccepted(f, arg) <=> \A b \in arg : b < f.width
  BY <1>1, <1>2 DEF WinAccepted, InWord, WordBits
<1>4. InRange(f.name, arg) <=> Settable(f) /\ \A b \in arg : b < f.width
  BY NamesUnique, WinLayoutFields DEF InRange
<1>5. WinAccepted(f, arg) => Fits(f, arg)
  BY <1>1, <1>2, <1>3 DEF Fits, InWord
<1> QED
  BY <1>3, <1>4, <1>5

\* langfordIo of a command that is in range sets the field it names; any other command
\* changes nothing.
LEMMA IoSets ==
    ASSUME NEW f \in WinLayout, NEW arg \in SUBSET Bits, NEW ws
    PROVE  langfordIo(ws, f.name, arg) =
             IF InRange(f.name, arg)
             THEN [ws EXCEPT ![f.reg] = SetField(ws[f.reg], f, arg)] ELSE ws
<1>1. Field(f.name) = f
  BY FieldOfName, WinLayoutFields
<1>2. langfordIo(ws, f.name, arg) =
        IF Settable(Field(f.name)) /\ WinAccepted(Field(f.name), arg)
        THEN [ws EXCEPT ![Field(f.name).reg] = SetField(@, Field(f.name), arg)] ELSE ws
  BY DEF langfordIo
<1>3. langfordIo(ws, f.name, arg) =
        IF Settable(f) /\ WinAccepted(f, arg)
        THEN [ws EXCEPT ![f.reg] = SetField(ws[f.reg], f, arg)] ELSE ws
  BY <1>1, <1>2
<1> QED
  BY <1>3, AcceptedInRange

LEMMA IoTypes ==
    ASSUME NEW f \in WinLayout, NEW arg \in SUBSET Bits,
           NEW ws \in [WinRegisters -> SUBSET Bits]
    PROVE  langfordIo(ws, f.name, arg) \in [WinRegisters -> SUBSET Bits]
<1>1. ws[f.reg] \in SUBSET Bits
  BY WinLayoutFields
<1>2. SetField(ws[f.reg], f, arg) \in SUBSET Bits
  BY <1>1, SetIsWord
<1>3. langfordIo(ws, f.name, arg) \in {ws, [ws EXCEPT ![f.reg] = SetField(ws[f.reg], f, arg)]}
  BY IoSets, ZenonT(60)
<1> QED
  BY <1>2, <1>3

\* A field that shares no bit with the one that is set keeps its value.
LEMMA IoGets ==
    ASSUME NEW f \in WinLayout, NEW g \in WinLayout, NEW arg \in SUBSET Bits,
           NEW ws \in [WinRegisters -> SUBSET Bits], InRange(f.name, arg), ~Share(f, g)
    PROVE  GetField(langfordIo(ws, f.name, arg)[g.reg], g) =
             IF g = f THEN arg ELSE GetField(ws[g.reg], g)
<1>1. f.reg \in WinRegisters /\ ws[f.reg] \in SUBSET Bits
  BY WinLayoutFields
<1>2. langfordIo(ws, f.name, arg) = [ws EXCEPT ![f.reg] = SetField(ws[f.reg], f, arg)]
  BY IoSets
<1>3. CASE g.reg = f.reg
  <2>1. langfordIo(ws, f.name, arg)[g.reg] = SetField(ws[f.reg], f, arg)
    BY <1>1, <1>2, <1>3
  <2>2. f \in Layout /\ g \in Layout /\ Fits(f, arg)
    BY WinLayoutFields, AcceptedInRange
  <2>3. GetField(SetField(ws[f.reg], f, arg), g) =
          IF g = f THEN arg ELSE GetField(ws[f.reg], g)
    BY <1>1, <1>3, <2>2, SetInLayout
  <2> QED
    BY <1>3, <2>1, <2>3
<1>4. CASE g.reg # f.reg
  BY <1>1, <1>2, <1>4
<1> QED
  BY <1>3, <1>4

\* A power-down sets the eleven pins and leaves every other field alone.
LEMMA PowerDownSets ==
    ASSUME WordTypes
    PROVE  /\ langfordPowerPeriph(words, FALSE) \in [WinRegisters -> SUBSET Bits]
           /\ \A g \in WinLayout :
                GetField(langfordPowerPeriph(words, FALSE)[g.reg], g) =
                  IF g.name \notin PowerNames THEN GetField(words[g.reg], g)
                  ELSE IF g.name \in {"RxDspEn", "TxDspEn"} THEN {} ELSE {0}
<1> DEFINE High == {"ADCAPD", "ADCBPD", "DACReset", "DACSClk", "DACSDIO", "DACCSB", "DACSDO",
                    "RxIsSigned", "TxIsSigned"}
           sets == {<<Field(n), IF n \in {"RxDspEn", "TxDspEn"} THEN {} ELSE {0}>> :
                      n \in PowerNames}
           Of(r) == {set \in sets : set[1].reg = r}
<1>1. langfordPowerPeriph(words, FALSE) = [r \in WinRegisters |-> SetFields(words[r], Of(r))]
  BY DEF langfordPowerPeriph, PowerNames
<1>2. ASSUME NEW n \in PowerNames
      PROVE  /\ Field(n) \in PeriphFields /\ Field(n) \in Layout /\ Field(n).name = n
             /\ Field(n).width = 1 /\ \A g : ~Share(Field(n), g)
  <2>1. PICK f \in PeriphFields : f.name = n
    BY SMT DEF PowerNames, PeriphFields, FieldAt
  <2>2. f.width = 1
    BY SMT DEF PeriphFields, FieldAt
  <2>3. \A g : ~Share(f, g)
    BY <2>1 DEF Share, PowerNames
  <2> QED
    BY <2>1, <2>2, <2>3, PeriphLaidOut, FieldOfName
<1>3. ASSUME NEW r
      PROVE  Together(Of(r), r)
  BY <1>2 DEF Together, Fits
<1>4. ASSUME NEW g \in WinLayout
      PROVE  GetField(langfordPowerPeriph(words, FALSE)[g.reg], g) =
               IF g.name \notin PowerNames THEN GetField(words[g.reg], g)
               ELSE IF g.name \in {"RxDspEn", "TxDspEn"} THEN {} ELSE {0}
  <2>1. langfordPowerPeriph(words, FALSE)[g.reg] = SetFields(words[g.reg], Of(g.reg))
    BY <1>1, WinLayoutFields
  <2> HIDE DEF Of
  <2>2. words[g.reg] \in SUBSET Bits /\ g \in Layout
    BY WinLayoutFields DEF WordTypes
  <2>3. /\ \A set \in Of(g.reg) : set[1] = g =>
             GetField(SetFields(words[g.reg], Of(g.reg)), g) = set[2]
        /\ (\A set \in Of(g.reg) : set[1] # g) =>
             GetField(SetFields(words[g.reg], Of(g.reg)), g) = GetField(words[g.reg], g)
    BY <2>2, <1>3, SetFieldsInLayout
  <2>4. CASE g.name \in PowerNames
    <3>1. Field(g.name) = g
      BY <2>2, FieldOfName
    <3>2. <<g, IF g.name \in {"RxDspEn", "TxDspEn"} THEN {} ELSE {0}>> \in Of(g.reg)
      BY <2>4, <3>1 DEF Of
    <3> QED
      BY <2>1, <2>3, <2>4, <3>2
  <2>5. CASE g.name \notin PowerNames
    <3>1. \A set \in Of(g.reg) : set[1] # g
      BY <2>5, <1>2 DEF Of
    <3> QED
      BY <2>1, <2>3, <2>5, <3>1
  <2> QED
    BY <2>4, <2>5
<1>5. ASSUME NEW r \in WinRegisters
      PROVE  SetFields(words[r], Of(r)) \in SUBSET Bits
  <2>1. PICK g \in Layout : g.reg = r
    BY DEF WinRegisters, WinLayout
  <2>2. words[r] \in SUBSET Bits
    BY DEF WordTypes
  <2> HIDE DEF Of
  <2> QED
    BY <2>1, <2>2, <1>3, SetFieldsInLayout
<1> QED
  BY <1>1, <1>4, <1>5

LEMMA PoweredDownPins ==
    PowerDown =>
      /\ words' = langfordPowerPeriph(words, FALSE)
      /\ lastset' = [n \in WinNames |->
           IF n \notin PowerNames THEN lastset[n]
           ELSE IF n \in {"RxDspEn", "TxDspEn"} THEN <<{}>> ELSE <<{0}>>]
<1>1. \A last : PoweredDown(last) = [m \in WinNames |->
         IF m \notin PowerNames THEN last[m]
         ELSE IF m \in {"RxDspEn", "TxDspEn"} THEN <<{}>> ELSE <<{0}>>]
  BY Zenon DEF PoweredDown, PowerNames
<1> QED
  BY <1>1 DEF PowerDown

IoctlOf(f, arg) ==
    /\ words' = langfordIo(words, f.name, arg)
    /\ lastset' = IF InRange(f.name, arg)
                  THEN [lastset EXCEPT ![f.name] = <<arg>>] ELSE lastset

\* A request is refused, or sets one field.
LEMMA IoctlSets ==
    ASSUME langfordEvtIoDeviceControl
    PROVE  \/ UNCHANGED pinVars
           \/ \E f \in WinLayout, arg \in SUBSET Bits :
                /\ f.name \in CtlNames /\ IoctlOf(f, arg)
<1>1. PICK c \in CtlCalls :
        \/ UNCHANGED pinVars
        \/ /\ words' = langfordIo(words, c.name, c.arg)
           /\ lastset' = IF InRange(c.name, c.arg)
                         THEN [lastset EXCEPT ![c.name] = <<c.arg>>] ELSE lastset
  BY DEF langfordEvtIoDeviceControl
<1>2. c.name \in WinNames /\ c.arg \in SUBSET Bits
  BY WinIoAssumption
<1>3. PICK f \in WinLayout : f.name = c.name
  BY <1>2, WinLayoutFields
<1>4. c.name \in CtlNames
  BY DEF CtlNames
<1> QED
  BY <1>1, <1>2, <1>3, <1>4 DEF IoctlOf

LEMMA PinsMove ==
    [Next]_vars => UNCHANGED pinVars \/ PowerDown \/ langfordEvtIoDeviceControl
  BY DEF Next, vars, Device, Teardown, Framework, Ioctl, Thread, langfordEvtIoRead,
         langfordEvtIoWrite, langfordEvtProgramDma, ReadPollEnds, WritePollEnds,
         PrepareHardware, Prepared, pinVars

LEMMA NextWordTypes ==
    ASSUME WordTypes, [Next]_vars
    PROVE  WordTypes'
<1>1. CASE UNCHANGED pinVars
  BY <1>1 DEF pinVars, WordTypes
<1>2. CASE PowerDown
  <2>1. words' \in [WinRegisters -> SUBSET Bits]
    BY <1>2, PoweredDownPins, PowerDownSets
  <2>2. {} \in SUBSET Bits /\ {0} \in SUBSET Bits
    BY DEF Bits, WordBits
  <2>3. lastset' \in [WinNames -> {<<>>} \cup {<<arg>> : arg \in SUBSET Bits}]
    BY <1>2, PoweredDownPins, <2>2 DEF WordTypes
  <2> QED
    BY <2>1, <2>3 DEF WordTypes
<1>3. ASSUME NEW f \in WinLayout, NEW arg \in SUBSET Bits, IoctlOf(f, arg)
      PROVE  WordTypes'
  <2>1. words' \in [WinRegisters -> SUBSET Bits]
    BY <1>3, IoTypes DEF WordTypes, IoctlOf
  <2> QED
    BY <2>1, <1>3, WinLayoutFields DEF WordTypes, IoctlOf
<1> QED
  BY <1>1, <1>2, <1>3, PinsMove, IoctlSets

LEMMA PowerDownKeeps ==
    ASSUME PinsInv, WordTypes', PowerDown
    PROVE  PinsInv'
<1> USE DEF PinsInv
<1>1. \A f \in WinLayout : lastset'[f.name] \in {<<>>, <<GetField(words'[f.reg], f)>>}
  <2> SUFFICES ASSUME NEW f \in WinLayout
               PROVE  lastset'[f.name] \in {<<>>, <<GetField(words'[f.reg], f)>>}
    OBVIOUS
  <2>1. GetField(words'[f.reg], f) =
          IF f.name \notin PowerNames THEN GetField(words[f.reg], f)
          ELSE IF f.name \in {"RxDspEn", "TxDspEn"} THEN {} ELSE {0}
    BY PoweredDownPins, PowerDownSets
  <2>2. f.name \in WinNames
    BY WinLayoutFields
  <2>3. lastset'[f.name] = IF f.name \notin PowerNames THEN lastset[f.name]
                           ELSE IF f.name \in {"RxDspEn", "TxDspEn"} THEN <<{}>> ELSE <<{0}>>
    BY <2>2, PoweredDownPins
  <2> QED
    BY <2>1, <2>3 DEF PinsHoldLastSet
<1>2. \A n \in WinNames : lastset'[n] # <<>> => n \in SetNames
  BY PoweredDownPins DEF SetNames
<1> QED
  BY <1>1, <1>2 DEF PinsHoldLastSet

\* No two programs set the two fields that share bit 30 of PIO5.
OneOfShared == ~ ({"GPIOout", "RxBaseband"} \subseteq CtlNames)

LEMMA IoctlKeeps ==
    ASSUME OneOfShared, PinsInv, WordTypes',
           NEW f \in WinLayout, NEW arg \in SUBSET Bits, f.name \in CtlNames, IoctlOf(f, arg)
    PROVE  PinsInv'
<1> USE DEF PinsInv, IoctlOf
<1>0. words \in [WinRegisters -> SUBSET Bits]
  BY DEF WordTypes
<1>1. CASE ~InRange(f.name, arg)
  <2>1. words' = words /\ lastset' = lastset
    BY <1>0, <1>1, IoSets
  <2> QED
    BY <2>1 DEF PinsHoldLastSet
<1>2. CASE InRange(f.name, arg)
  <2>1. \A n \in WinNames : lastset'[n] = IF n = f.name THEN <<arg>> ELSE lastset[n]
    BY <1>2 DEF WordTypes
  <2>2. \A n \in WinNames : lastset'[n] # <<>> => n \in SetNames
    BY <2>1 DEF SetNames
  <2>3. ASSUME NEW g \in WinLayout
        PROVE  lastset'[g.name] \in {<<>>, <<GetField(words'[g.reg], g)>>}
    <3>1. g.name \in WinNames
      BY WinLayoutFields
    <3>2. CASE Share(f, g)
      <4>1. g.name \notin CtlNames /\ g.name \notin PowerNames
            /\ g.name # f.name
        BY <3>2 DEF OneOfShared, Share, PowerNames
      <4>2. lastset[g.name] = <<>>
        BY <4>1, <3>1 DEF SetNames
      <4> QED
        BY <4>1, <4>2, <3>1, <2>1
    <3>3. CASE ~Share(f, g)
      <4>1. GetField(langfordIo(words, f.name, arg)[g.reg], g) =
              IF g = f THEN arg ELSE GetField(words[g.reg], g)
        BY <1>0, <1>2, <3>3, IoGets
      <4>2. g.name = f.name <=> g = f
        BY NamesUnique, WinLayoutFields
      <4> QED
        BY <3>1, <4>1, <4>2, <2>1 DEF PinsHoldLastSet
    <3> QED
      BY <3>2, <3>3
  <2> QED
    BY <2>2, <2>3 DEF PinsHoldLastSet
<1> QED
  BY <1>1, <1>2

LEMMA NextPinsInv ==
    ASSUME OneOfShared, PinsInv, [Next]_vars
    PROVE  PinsInv'
<1>0. WordTypes'
  BY NextWordTypes DEF PinsInv
<1>1. CASE UNCHANGED pinVars
  BY <1>1 DEF pinVars, PinsInv, WordTypes, PinsHoldLastSet
<1>2. CASE PowerDown
  BY <1>0, <1>2, PowerDownKeeps
<1>3. CASE langfordEvtIoDeviceControl
  BY <1>0, <1>1, <1>3, IoctlSets, IoctlKeeps
<1> QED
  BY <1>1, <1>2, <1>3, PinsMove
-------------------------------------------------------------------------------
(* The translation table *)

Rows == [low : TableWords, high : TableWords]

TableTypes == table \in [Entries -> Rows]

Tabled == TableTypes /\ TransfersKeepTheirPages

LEMMA WordsAre ==
    /\ Frames \subseteq TableWords
    /\ "unset" \in TableWords /\ "mask" \in TableWords /\ "0" \in TableWords
    /\ "address" \in TableWords /\ "length" \in TableWords /\ "go" \in TableWords
  BY DEF TableWords

LEMMA RowsAre ==
    /\ \A l, h \in TableWords : /\ [low |-> l, high |-> h] \in Rows
                              /\ [low |-> l, high |-> h].low = l
    /\ \A row \in Rows : /\ row.low \in TableWords /\ row.high \in TableWords
                       /\ row = [low |-> row.low, high |-> row.high]
  BY DEF Rows

LEMMA FrameIsOne ==
    ASSUME NEW r \in Requests, shape[r] \in Shapes \cup {<<>>},
           NEW n \in 1 .. Len(shape[r])
    PROVE  Last(shape[r][n]) \in Frames
<1>1. Shapes \subseteq Seq(Seq(Frames))
  BY WinDmaAssumption
<1>2. shape[r] \in Shapes
  BY SMT
<1>3. shape[r] \in Seq(Seq(Frames)) /\ shape[r][n] # <<>>
  BY <1>1, <1>2, WinDmaAssumption
<1>4. PICK t \in Seq(Frames) : t = shape[r][n]
  BY <1>3
<1>5. Len(t) \in 1 .. Len(t)
  BY <1>3, <1>4
<1>6. t[Len(t)] \in Frames
  BY <1>5
<1> QED
  BY <1>4, <1>6 DEF Last

\* A transfer that is programmed puts its frame on all the pages of its request.
LEMMA ProgramTables ==
    ASSUME TableTypes, NEW r \in Requests, NEW frame \in Frames,
           table' = Described(Translated(table, r, frame), r)
    PROVE  TableTypes' /\ \A e \in PagesOf(r) : table'[e].low = frame
<1> DEFINE t == Translated(table, r, frame)
<1>0. Pages \in Nat /\ 0 \in Entries /\ 1 \in Entries /\ PagesOf(r) \subseteq Entries
      /\ (r \in Reads => 1 \notin PagesOf(r))
  BY WinDeviceAssumption DEF Entries, PagesOf
<1>1. t \in [Entries -> Rows]
  <2>1. [low |-> frame, high |-> "0"] \in Rows
    BY RowsAre, WordsAre
  <2> QED
    BY <2>1 DEF TableTypes, Translated
<1>2. ASSUME NEW e \in PagesOf(r) PROVE t[e].low = frame
  <2>1. \E i \in 0 .. Pages - 1 : e = Entry(r, i)
    <3>1. CASE r \in Reads
      BY <1>0, <3>1 DEF PagesOf, Entry
    <3>2. CASE r \notin Reads
      <4>1. e - Pages \in 0 .. Pages - 1 /\ e = e - Pages + Pages
        BY <1>0, <3>2 DEF PagesOf
      <4> QED
        BY <3>2, <4>1 DEF Entry
    <3> QED
      BY <3>1, <3>2
  <2>2. e \in Entries
    BY <1>0
  <2> QED
    BY <2>1, <2>2 DEF Translated
<1> HIDE DEF t
<1>3. CASE table' = t
  BY <1>1, <1>2, <1>3 DEF TableTypes
<1>4. CASE r \in Reads /\ table' = [t EXCEPT ![0].high = "address",
                                          ![1] = [low |-> "length", high |-> "go"]]
  <2> DEFINE go == [low |-> "length", high |-> "go"]
             first == [t[0] EXCEPT !.high = "address"]
  <2>1. \A e \in Entries : t[e] \in Rows
    BY <1>1
  <2>2. go \in Rows
    BY RowsAre, WordsAre
  <2>3. first \in Rows /\ first.low = t[0].low
    <3>1. PICK l \in TableWords, h \in TableWords : t[0] = [low |-> l, high |-> h]
      BY <1>0, <2>1, RowsAre
    <3>2. first = [low |-> l, high |-> "address"]
      BY <3>1
    <3> QED
      BY <3>1, <3>2, RowsAre, WordsAre
  <2>4. table' = [[t EXCEPT ![0] = first] EXCEPT ![1] = go]
    BY <1>4
  <2> HIDE DEF go, first
  <2>5. table' \in [Entries -> Rows]
    BY <1>1, <2>2, <2>3, <2>4
  <2>6. \A e \in Entries \ {1} : table'[e] = IF e = 0 THEN first ELSE t[e]
    BY <1>0, <1>1, <2>4
  <2>7. \A e \in Entries \ {1} : table'[e].low = t[e].low
    BY <2>3, <2>6
  <2> QED
    BY <1>0, <1>2, <1>4, <2>5, <2>7 DEF TableTypes
<1> QED
  BY <1>3, <1>4 DEF Described, t

LEMMA ProgramTabled ==
    ASSUME IInv, TableTypes, NEW r \in Requests, trans.owner = <<r>>, Program(r),
           trans.left \in 1 .. Len(shape[r]), UNCHANGED shape
    PROVE  Tabled'
<1> DEFINE n == Len(shape[r]) - trans.left + 1
           frame == Last(shape[r][n])
<1>0. shape[r] \in Shapes \cup {<<>>} /\ Len(shape[r]) \in Nat
  BY WinDmaAssumption DEF IInv, Types
<1>1. n \in 1 .. Len(shape[r])
  BY <1>0
<1>2. trans' = [trans EXCEPT !.st = "transfer", !.left = @ - 1]
      /\ table' = Described(Translated(table, r, frame), r)
  BY DEF Program, Programmed
<1>3. frame \in Frames
  BY <1>0, <1>1, FrameIsOne
<1>4. trans'.left = trans.left - 1 /\ trans'.owner = <<r>>
  BY <1>2 DEF IInv, Types, Transactions
<1>5. Len(shape[r]) - trans'.left = n
  BY <1>0, <1>4
<1> HIDE DEF n
<1>6. TableTypes' /\ \A e \in PagesOf(r) : table'[e].low = frame
  BY <1>2, <1>3, ProgramTables
<1> QED
  BY <1>4, <1>5, <1>6 DEF Tabled, TransfersKeepTheirPages, PagesOf

\* The transfers left of the request that has the transaction.
Leaves ==
    trans.st # "released" =>
      LET r == trans.owner[1]
      IN trans.left \in 0 .. Len(shape[r]) /\ (trans.st = "executing" => trans.left # 0)

\* A step that touches neither the table nor the transaction, nor the list of the
\* request that has it.
LEMMA SameTabled ==
    ASSUME IInv, Leaves, Tabled, UNCHANGED table,
           trans' = trans \/ trans' = Released,
           \A r \in Requests : req[r] = "driver" => shape'[r] = shape[r]
    PROVE  Tabled' /\ Leaves'
<1>1. CASE trans'.st = "released"
  BY <1>1 DEF Tabled, TableTypes, TransfersKeepTheirPages, Leaves
<1>2. CASE trans' = trans /\ trans.st # "released"
  <2>1. PICK r \in Requests : trans.owner = <<r>> /\ req[r] = "driver"
    BY <1>2 DEF IInv, OwnerHeld
  <2>2. shape'[r] = shape[r]
    BY <2>1
  <2> QED
    BY <1>2, <2>1, <2>2 DEF Tabled, TableTypes, TransfersKeepTheirPages, Leaves, PagesOf
<1> QED
  BY <1>1, <1>2 DEF Released

\* Entry 0 is written to when no request has the transaction.
LEMMA PrepareTabled ==
    ASSUME IInv, Leaves, Tabled, PrepareHardware, UNCHANGED <<req, shape, trans>>
    PROVE  Tabled' /\ Leaves'
<1>1. trans.st = "released"
  <2>1. pnp \in {"added", "released"}
    BY DEF PrepareHardware
  <2> QED
    BY <2>1 DEF IInv, Mapped, OwnerHeld, Held
<1>2. TableTypes'
  <2>1. table' = table \/ table' = [table EXCEPT ![0].low = "mask"]
    BY Zenon DEF PrepareHardware
  <2>2. [table EXCEPT ![0].low = "mask"] \in [Entries -> Rows]
    <3>1. table \in [Entries -> Rows] /\ 0 \in Entries
      BY WinDeviceAssumption DEF Tabled, TableTypes, Entries
    <3>2. PICK l \in TableWords, h \in TableWords : table[0] = [low |-> l, high |-> h]
      BY <3>1, RowsAre
    <3>3. [table[0] EXCEPT !.low = "mask"] = [low |-> "mask", high |-> h]
      BY <3>2
    <3>4. [table[0] EXCEPT !.low = "mask"] \in Rows
      BY <3>2, <3>3, RowsAre, WordsAre
    <3> QED
      BY <3>1, <3>4
  <2> QED
    BY <2>1, <2>2 DEF Tabled, TableTypes
<1> QED
  BY <1>1, <1>2 DEF Tabled, TransfersKeepTheirPages, Leaves

LEMMA NextTabled == IInv /\ Leaves /\ Tabled /\ [Next]_vars => Tabled' /\ Leaves'
<1> SUFFICES ASSUME IInv, Leaves, Tabled, [Next]_vars PROVE Tabled' /\ Leaves'
  OBVIOUS
<1>1. CASE UNCHANGED <<table, trans, shape>>
  BY <1>1, SameTabled
<1>2. CASE Device /\ PrepareHardware
  BY <1>2, PrepareTabled DEF Device
<1>3. CASE Framework
  <2>1. UNCHANGED <<table, trans>>
    BY <1>3 DEF Framework, Submit, Purge
  <2>2. \A r \in Requests : req[r] = "driver" => shape'[r] = shape[r]
    BY <1>3 DEF Framework, Submit, Purge, IInv, Types
  <2> QED
    BY <2>1, <2>2, SameTabled
<1>4. ASSUME NEW r \in Requests, EvtIo(r) PROVE Tabled' /\ Leaves'
  <2>1. UNCHANGED <<table, shape>>
    BY <1>4 DEF EvtIo
  <2>2. CASE trans' = Released
    BY <2>1, <2>2, SameTabled
  <2>3. CASE trans' = [st |-> "executing", owner |-> <<r>>, left |-> Len(shape[r])]
             /\ shape[r] # <<>>
    <3>1. shape[r] \in Shapes /\ Shapes \subseteq Seq(Seq(Frames))
      BY <2>3, WinDmaAssumption DEF IInv, Types
    <3>2. Len(shape[r]) \in Nat /\ Len(shape[r]) # 0
      BY <2>3, <3>1, SMT
    <3>3. trans'.st = "executing" /\ trans'.owner[1] = r /\ trans'.left = Len(shape[r])
      BY <2>3
    <3> QED
      BY <2>1, <3>2, <3>3 DEF Tabled, TableTypes, TransfersKeepTheirPages, Leaves
  <2> QED
    BY <1>4, <2>2, <2>3 DEF EvtIo, EvtIoFails
<1>5. ASSUME trans.st # "released", trans.left # 0, Program(trans.owner[1]), UNCHANGED shape
      PROVE  Tabled' /\ Leaves'
  <2>1. PICK r \in Requests : trans.owner = <<r>>
    BY <1>5 DEF IInv, OwnerHeld
  <2>2. trans.left \in 1 .. Len(shape[r]) /\ Len(shape[r]) \in Nat
    BY <1>5, <2>1, WinDmaAssumption DEF Leaves, IInv, Types
  <2>3. Tabled'
    BY <1>5, <2>1, <2>2, ProgramTabled DEF Tabled
  <2>4. trans'.st = "transfer" /\ trans'.left = trans.left - 1 /\ trans'.owner = <<r>>
    BY <1>5, <2>1 DEF Program, IInv, Types, Transactions
  <2> QED
    BY <1>5, <2>2, <2>3, <2>4 DEF Leaves
<1>6. CASE langfordEvtProgramDma
  BY <1>5, <1>6 DEF langfordEvtProgramDma, Leaves
<1>7. CASE trans.st = "transfer" /\ DmaCompleted
  <2>1. CASE trans.left > 0
    BY <1>5, <1>7, <2>1 DEF DmaCompleted
  <2>2. CASE ~ (trans.left > 0)
    <3>1. trans' = Released /\ UNCHANGED <<table, shape>>
      BY <1>7, <2>2 DEF DmaCompleted
    <3> QED
      BY <3>1, SameTabled
  <2> QED
    BY <2>1, <2>2
<1>8. CASE NothingToComplete
  BY <1>1, <1>8 DEF NothingToComplete, dmaVars
<1>9. Device => PrepareHardware \/ UNCHANGED <<table, trans, shape>>
  BY DEF Device
<1>10. UNCHANGED vars \/ Teardown \/ Ioctl \/ (\E w \in Workers : Thread(w)) =>
         UNCHANGED <<table, trans, shape>>
  BY DEF vars, dmaVars, Teardown, Ioctl, Thread
<1> QED
  BY <1>1, <1>2, <1>3, <1>4, <1>6, <1>7, <1>8, <1>9, <1>10
     DEF Next, langfordEvtIoRead, langfordEvtIoWrite, ReadPollEnds, WritePollEnds, Requests

LEMMA AlwaysTabled == Spec => [](Tabled /\ Leaves)
<1>1. Init => Tabled /\ Leaves
  <2>1. [low |-> "unset", high |-> "unset"] \in Rows
    BY RowsAre, WordsAre
  <2>2. Init => TableTypes
    BY <2>1 DEF Init, DeviceInit, TableTypes
  <2>3. Init => trans.st = "released"
    BY DEF Init, DmaInit, Released
  <2> QED
    BY <2>2, <2>3 DEF Tabled, TransfersKeepTheirPages, Leaves
<1> QED
  BY <1>1, NextTabled, Invariance, PTL DEF Spec

\* The table of the card (langford_io.c:351-385, langford.c:89): while a transfer is under
\* way its pages translate to the frame it was programmed with, whatever requests come
\* in, are refused or end, and however often the card is stopped and prepared again.
THEOREM PagesKept == Spec => []TransfersKeepTheirPages
<1>1. Tabled /\ Leaves => TransfersKeepTheirPages
  BY DEF Tabled
<1> QED
  BY <1>1, AlwaysTabled, PTL
-------------------------------------------------------------------------------
(* The types and the pins, as theorems *)

LEMMA NextDriverTypes ==
    ASSUME IInv, DriverTypes, [Next]_vars
    PROVE  DriverTypes'
<1>1. CASE UNCHANGED vars
  BY <1>1 DEF vars, deviceVars, dmaVars, DriverTypes
<1>2. CASE Ioctl
  BY <1>2 DEF Ioctl, deviceVars, dmaVars, DriverTypes
<1> QED
  BY <1>1, <1>2, DeviceTypes, TeardownTypes, ThreadTypes, RequestTypes, PollTypes DEF Next

\* Every variable keeps to its type: the words are of 32 bits, the transaction never
\* has a negative number of transfers left, the bars are mapped memory or nothing.
THEOREM TypesCorrect == Spec => []TypeOK
<1>1. Init => DriverTypes /\ WordTypes
  <2> SUFFICES ASSUME Init PROVE DriverTypes /\ WordTypes
    OBVIOUS
  <2> USE DEF Init, DeviceInit, DmaInit, PinsInit
  <2>1. DriverTypes
    <3>1. bar \in BarMaps /\ pnp \in PnpStates
      BY DEF BarMaps, NoBars, PnpStates
    <3>2. trans.left \in Nat /\ (trans.st = "executing" => trans.left # 0)
      BY DEF Released
    <3> QED
      BY <3>1, <3>2 DEF DriverTypes
  <2>2. WordTypes
    BY DEF WordTypes
  <2> QED
    BY <2>1, <2>2
<1>2. IInv /\ DriverTypes /\ WordTypes /\ [Next]_vars => (DriverTypes /\ WordTypes)'
  BY NextDriverTypes, NextWordTypes
<1>3. IInv /\ DriverTypes /\ WordTypes /\ Tabled => TypeOK
  BY LenAddSteps DEF IInv, Types, RequestStates, Transactions, DriverTypes, PnpStates, BarMaps,
                     WordTypes, Tabled, TableTypes, Rows, TypeOK
<1> QED
  BY <1>1, <1>2, <1>3, Invariance, AlwaysTabled, PTL DEF Spec

LEMMA InitPins == Init => PinsInv
<1>1. ASSUME Init
      PROVE  WordTypes /\ lastset = [n \in WinNames |-> <<>>]
  BY <1>1 DEF Init, PinsInit, WordTypes
<1> QED
  BY <1>1, WinLayoutFields DEF PinsInv, PinsHoldLastSet

\* Every field a program has set (langford_io.c, langford.c) reads back the last value
\* in range, whatever else is set, refused or powered down, if programs do not set both
\* of the two fields the layout puts on bit 30 of PIO5.
THEOREM PinsAsLastSet ==
    ASSUME OneOfShared
    PROVE  Spec => []PinsHoldLastSet
<1>1. PinsInv /\ [Next]_vars => PinsInv'
  BY NextPinsInv
<1>2. PinsInv => PinsHoldLastSet
  BY DEF PinsInv
<1> QED
  BY <1>1, <1>2, InitPins, PTL DEF Spec
===============================================================================
