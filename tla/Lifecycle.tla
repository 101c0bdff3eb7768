------------------------------- MODULE Lifecycle -------------------------------
(***************************************************************************)
(* Loading, opening, closing and unloading the Langford Linux driver       *)
(* (langford.c): what the first open allocates and starts, what the last   *)
(* close stops and frees, and the unwinding of an open that fails half way.*)
(*                                                                         *)
(* cdev_open_close_mutex makes an open or a close atomic for other opens   *)
(* and closes, not for the two kernel threads or for the calls of          *)
(* processes that have the device open, so each takes several steps.  The  *)
(* labels of cdev_open's unwinding are program locations of their own.     *)
(* Nobody looks while driver_probe or create_dma_buffs runs, so each is    *)
(* one step; DriverProbe and DmaBuffs say what it leaves behind.           *)
(***************************************************************************)
EXTENDS Integers, FiniteSets, DmaBuffs, DriverProbe

CONSTANTS
    Procs,        \* processes that open the device
    MayFail,      \* the steps of cdev_open that may fail
    LoadMayFail,  \* the steps of driver_probe that may fail, by number, and 0, cdev_add
    EarlyOpen,    \* a device node left by an earlier load is opened during loading
    HeapInts,     \* what kmalloc'd memory may hold where OpenCtr is
    LeakBound     \* bound: leaked allocations of a kind, to load the driver again

\* The pieces of the two DMA rings, cdev_read_buff and cdev_write_buff.
CdevBuff(ring) == <<"cdev", ring, 0>>
Resources == UNION {RingPieces(ring) \cup {CdevBuff(ring)} : ring \in Rings}
AllMappings == UNION {Mappings(ring, Indices) : ring \in Rings}

Threads == {"dev_read_thread", "dev_write_thread"}
FallibleSteps == {"rx_buffs", "tx_buffs", "read_buff", "write_buff", "read_thread",
                  "write_thread"}

ASSUME LifecycleAssumption ==
    /\ IsFiniteSet(Procs)
    /\ MayFail \subseteq FallibleSteps
    /\ LoadMayFail \subseteq 0 .. Len(ProbeSteps)
    /\ EarlyOpen \in BOOLEAN
    /\ HeapInts \subseteq Nat /\ HeapInts # {}
    /\ LeakBound \in Nat

VARIABLES
    module,      \* "unloaded", "probed", "live" (cdev_add done) or "loaded"
    held,        \* what driver_probe has acquired and driver_remove will release
    settings,    \* DevPrivData: "null", "valid" or "dangling"
    OpenCtr,     \* DevPrivData->OpenCtr
    mutex,       \* the holders of cdev_open_close_mutex: none or one
    pc,          \* per process: where it is
    valid,       \* resources whose pointer refers to allocated memory
    live,        \* per resource: how many allocations of it exist
    misfreed,    \* history: what was freed or unmapped that was not there
    table,       \* mappings whose bus address is in the card's translation table
    thread,      \* per kernel thread: "none", "running" or "stopping"
    powered      \* the ADCs, DACs and DSP chains are on

memory == <<valid, live, misfreed, table>>
card == <<held, settings>>
vars == <<module, card, OpenCtr, mutex, pc, memory, thread, powered>>

Goto(p, location) == pc' = [pc EXCEPT ![p] = location]

\* Allocations stored in their pointers; the previous ones are lost if there were any.
Allocate(R) ==
    /\ valid' = valid \cup R
    /\ live' = [r \in Resources |-> IF r \in R THEN live[r] + 1 ELSE live[r]]
    /\ table' = table \ R
    /\ UNCHANGED misfreed

\* An allocation that failed half way, and what its unwinding released.
AllocateInVain(made, unwound) ==
    /\ live' = [r \in Resources |-> IF r \in made \ unwound THEN live[r] + 1 ELSE live[r]]
    /\ misfreed' = misfreed \cup (unwound \ made)
    /\ UNCHANGED <<valid, table>>

\* kfree, vfree and dma_unmap_single through the pointers of R.
Free(R) ==
    /\ valid' = valid \ R
    /\ live' = [r \in Resources |-> IF r \in R \cap valid THEN live[r] - 1 ELSE live[r]]
    /\ misfreed' = misfreed \cup (R \ valid)
    /\ table' = table \ R

Init ==
    /\ module = "unloaded"
    /\ held = {} /\ settings = "null"
    /\ OpenCtr = 0
    /\ mutex = {}
    /\ pc = [p \in Procs |-> "closed"]
    /\ valid = {} /\ live = [r \in Resources |-> 0]
    /\ misfreed = {} /\ table = {}
    /\ thread = [t \in Threads |-> "none"]
    /\ powered = FALSE
-------------------------------------------------------------------------------
(* driver_initial, driver_probe, driver_exit, driver_remove *)

\* pci_register_driver finds the card and driver_probe allocates DevPrivData, maps
\* the card, resets its DMA engines and powers it down.  OpenCtr is not set.
ProbeSucceeds ==
    /\ held' = Card /\ settings' = "valid"
    /\ OpenCtr' \in HeapInts
    /\ powered' = FALSE

\* A driver_probe that fails is no error of pci_register_driver: the module goes on
\* loading, without a card.
ProbeFails(n) ==
    /\ held' = HeldAfterFailure(n) /\ settings' = SettingsAfterFailure(n)
    /\ UNCHANGED <<OpenCtr, powered>>

Probe ==
    /\ module = "unloaded"
    /\ \A r \in Resources : live[r] <= LeakBound
    /\ module' = "probed"
    /\ ProbeSucceeds \/ \E n \in LoadMayFail \ {0} : ProbeFails(n)
    /\ UNCHANGED <<mutex, pc, memory, thread>>

\* cdev_add: from here on the device can be opened.
CdevAdd ==
    /\ module = "probed"
    /\ module' = "live"
    /\ UNCHANGED <<card, OpenCtr, mutex, pc, memory, thread, powered>>

\* pci_unregister_driver calls driver_remove, if the driver has a card, which resets
\* its DMA engines and frees DevPrivData.  The pointers are lost with the module;
\* what they still refer to stays allocated.
Unloaded ==
    /\ module' = "unloaded"
    /\ held' = {} /\ settings' = "null"
    /\ mutex' = {} /\ valid' = {} /\ table' = {}
    /\ UNCHANGED <<OpenCtr, pc, live, misfreed, thread, powered>>

\* alloc_chrdev_region or cdev_add fails, and driver_initial takes everything back.
CdevFails ==
    /\ module = "probed" /\ 0 \in LoadMayFail
    /\ Unloaded

\* The last statement of driver_initial, which only asks whether DevPrivData is null.
ResetOpenCtr ==
    /\ module = "live"
    /\ OpenCtr' = IF settings = "null" THEN OpenCtr ELSE 0
    /\ module' = "loaded"
    /\ UNCHANGED <<card, mutex, pc, memory, thread, powered>>

\* rmmod, which the kernel allows when no process is in the driver or has it open:
\* cdev_del, unregister_chrdev_region, pci_unregister_driver.
Unload ==
    /\ module = "loaded"
    /\ \A p \in Procs : pc[p] = "closed"
    /\ Unloaded
-------------------------------------------------------------------------------
(* cdev_open *)

OpenCall(p) ==
    /\ pc[p] = "closed"
    /\ module = "loaded" \/ (EarlyOpen /\ module = "live")
    /\ Goto(p, "open_lock")
    /\ UNCHANGED <<module, card, OpenCtr, mutex, memory, thread, powered>>

\* Mutant: an open waits until nobody has the device open.
OpenLock_Exclusive(p) ==
    /\ pc[p] = "open_lock" /\ mutex = {} /\ OpenCtr = 0
    /\ mutex' = {p}
    /\ Goto(p, IF settings # "valid" THEN "crashed" ELSE "rx_buffs")
    /\ UNCHANGED <<module, card, OpenCtr, memory, thread, powered>>

\* Without a card DevPrivData->OpenCtr is read through a null pointer or in memory
\* that was freed; the model does not follow the process any further.
OpenLock(p) ==
    /\ pc[p] = "open_lock" /\ mutex = {}
    /\ mutex' = {p}
    /\ \/ settings # "valid" /\ Goto(p, "crashed")
       \/ settings = "valid" /\ OpenCtr # 0 /\ Goto(p, "count")
       \/ settings = "valid" /\ OpenCtr = 0 /\ Goto(p, "rx_buffs")
    /\ UNCHANGED <<module, card, OpenCtr, memory, thread, powered>>

\* create_dma_buffs for a ring, or the jump its failure takes.
OpenCreates(p, step, ring, next, label) ==
    /\ pc[p] = step
    /\ \/ Allocate(RingPieces(ring)) /\ Goto(p, next)
       \/ /\ step \in MayFail
          /\ \E f \in FailurePoints : AllocateInVain(MadeBefore(ring, f), Unwound(ring, f))
          /\ Goto(p, label)
    /\ UNCHANGED <<module, card, OpenCtr, mutex, thread, powered>>

OpenRxBuffs(p) == OpenCreates(p, "rx_buffs", "Rx", "tx_buffs", "exit_func")
OpenTxBuffs(p) == OpenCreates(p, "tx_buffs", "Tx", "write_table", "exit_destroy_dma_buffs_rx")

\* Mutant: the entries of the transmit buffers are written over those of the receive
\* buffers.
OpenWritesTable_NoOffset(p) ==
    /\ pc[p] = "write_table"
    /\ table' = Mappings("Tx", Indices)
    /\ Goto(p, "read_buff")
    /\ UNCHANGED <<module, card, OpenCtr, mutex, valid, live, misfreed, thread, powered>>

\* The bus addresses of both rings, one after the other.
OpenWritesTable(p) ==
    /\ pc[p] = "write_table"
    /\ table' = table \cup AllMappings
    /\ Goto(p, "read_buff")
    /\ UNCHANGED <<module, card, OpenCtr, mutex, valid, live, misfreed, thread, powered>>

\* One vmalloc, or the jump its failure takes.
OpenAllocates(p, step, r, next, label) ==
    /\ pc[p] = step
    /\ \/ Allocate({r}) /\ Goto(p, next)
       \/ step \in MayFail /\ Goto(p, label) /\ UNCHANGED memory
    /\ UNCHANGED <<module, card, OpenCtr, mutex, thread, powered>>

OpenReadBuff(p) == OpenAllocates(p, "read_buff", CdevBuff("Rx"),
                                 "write_buff", "exit_destroy_dma_buffs_tx")
OpenWriteBuff(p) == OpenAllocates(p, "write_buff", CdevBuff("Tx"),
                                  "power_on", "exit_vfree_cdev_read_buff")

OpenPowersOn(p) ==
    /\ pc[p] = "power_on"
    /\ powered' = TRUE
    /\ Goto(p, "read_thread")
    /\ UNCHANGED <<module, card, OpenCtr, mutex, memory, thread>>

\* One kthread_run, or the jump its failure takes.
OpenStarts(p, step, t, next, label) ==
    /\ pc[p] = step
    /\ \/ thread' = [thread EXCEPT ![t] = "running"] /\ Goto(p, next)
       \/ step \in MayFail /\ Goto(p, label) /\ UNCHANGED thread
    /\ UNCHANGED <<module, card, OpenCtr, mutex, memory, powered>>

OpenReadThread(p) == OpenStarts(p, "read_thread", "dev_read_thread",
                                "write_thread", "exit_power_down")
OpenWriteThread(p) == OpenStarts(p, "write_thread", "dev_write_thread",
                                 "count", "exit_stop_read_thread")

\* Mutant: the handle is not counted.
OpenReturns_NotCounted(p) ==
    /\ pc[p] = "count"
    /\ mutex' = {}
    /\ Goto(p, "open")
    /\ UNCHANGED <<module, card, OpenCtr, memory, thread, powered>>

OpenReturns(p) ==
    /\ pc[p] = "count"
    /\ OpenCtr' = OpenCtr + 1
    /\ mutex' = {}
    /\ Goto(p, "open")
    /\ UNCHANGED <<module, card, memory, thread, powered>>

\* The unwinding, label by label as the code falls through them.
UnwindPower(p) ==
    /\ pc[p] = "exit_power_down"
    /\ powered' = FALSE
    /\ Free({CdevBuff("Tx")})
    /\ Goto(p, "exit_vfree_cdev_read_buff")
    /\ UNCHANGED <<module, card, OpenCtr, mutex, thread>>

UnwindFrees(p, label, R, next) ==
    /\ pc[p] = label
    /\ Free(R)
    /\ Goto(p, next)
    /\ UNCHANGED <<module, card, OpenCtr, mutex, thread, powered>>

UnwindReadBuff(p) == UnwindFrees(p, "exit_vfree_cdev_read_buff", {CdevBuff("Rx")},
                                 "exit_destroy_dma_buffs_tx")
\* The transmit buffers are destroyed with the receive buffers' addresses.
UnwindTxBuffs(p) == UnwindFrees(p, "exit_destroy_dma_buffs_tx",
                                Destroyed("Tx", "Rx"),
                                "exit_destroy_dma_buffs_rx")
UnwindRxBuffs(p) == UnwindFrees(p, "exit_destroy_dma_buffs_rx",
                                Destroyed("Rx", "Rx"), "exit_func")

\* return rc.  The mutex is not unlocked on this path.
OpenFails(p) ==
    /\ pc[p] = "exit_func"
    /\ Goto(p, "closed")
    /\ UNCHANGED <<module, card, OpenCtr, mutex, memory, thread, powered>>
-------------------------------------------------------------------------------
(* cdev_read, cdev_write, cdev_ioctl, and cdev_release *)

\* The process makes a call on its open file; the file stays open until it ends.
CallBegins(p) ==
    /\ pc[p] = "open"
    /\ Goto(p, "call")
    /\ UNCHANGED <<module, card, OpenCtr, mutex, memory, thread, powered>>

CallEnds(p) ==
    /\ pc[p] = "call"
    /\ Goto(p, "open")
    /\ UNCHANGED <<module, card, OpenCtr, mutex, memory, thread, powered>>

CloseCall(p) ==
    /\ pc[p] = "open"
    /\ Goto(p, "close_lock")
    /\ UNCHANGED <<module, card, OpenCtr, mutex, memory, thread, powered>>

\* Mutant: only an open counter of zero shuts the device down.
CloseLock_NeverLast(p) ==
    /\ pc[p] = "close_lock" /\ mutex = {}
    /\ mutex' = {p}
    /\ Goto(p, IF OpenCtr > 0 THEN "uncount" ELSE "stop_read_thread")
    /\ UNCHANGED <<module, card, OpenCtr, memory, thread, powered>>

\* Mutant: every close shuts the device down.
CloseLock_EveryLast(p) ==
    /\ pc[p] = "close_lock" /\ mutex = {}
    /\ mutex' = {p}
    /\ Goto(p, "stop_read_thread")
    /\ UNCHANGED <<module, card, OpenCtr, memory, thread, powered>>

CloseLock(p) ==
    /\ pc[p] = "close_lock" /\ mutex = {}
    /\ mutex' = {p}
    /\ Goto(p, IF OpenCtr > 1 THEN "uncount" ELSE "stop_read_thread")
    /\ UNCHANGED <<module, card, OpenCtr, memory, thread, powered>>

\* kthread_stop, of either thread: the request, and the wait for the thread to exit.
StopRequest(p, location, t) ==
    /\ pc[p] = location /\ thread[t] = "running"
    /\ thread' = [thread EXCEPT ![t] = "stopping"]
    /\ UNCHANGED <<module, card, OpenCtr, mutex, pc, memory, powered>>

StopWaits(p, location, t, next) ==
    /\ pc[p] = location /\ thread[t] = "none"
    /\ Goto(p, next)
    /\ UNCHANGED <<module, card, OpenCtr, mutex, memory, thread, powered>>

StopAsked(p) ==
    \/ StopRequest(p, "stop_read_thread", "dev_read_thread")
    \/ StopRequest(p, "stop_write_thread", "dev_write_thread")
    \/ StopRequest(p, "exit_stop_read_thread", "dev_read_thread")

\* Mutants: the second thread is asked to stop and not waited for; and the open
\* that fails asks the read thread to stop and does not wait.
StopDone_NoWait(p) ==
    \/ StopWaits(p, "stop_read_thread", "dev_read_thread", "stop_write_thread")
    \/ /\ pc[p] = "stop_write_thread" /\ thread["dev_write_thread"] = "stopping"
       /\ Goto(p, "shut_down")
       /\ UNCHANGED <<module, card, OpenCtr, mutex, memory, thread, powered>>

StopDone_UnwindNoWait(p) ==
    \/ StopWaits(p, "stop_read_thread", "dev_read_thread", "stop_write_thread")
    \/ StopWaits(p, "stop_write_thread", "dev_write_thread", "shut_down")
    \/ /\ pc[p] = "exit_stop_read_thread" /\ thread["dev_read_thread"] = "stopping"
       /\ Goto(p, "exit_power_down")
       /\ UNCHANGED <<module, card, OpenCtr, mutex, memory, thread, powered>>

StopDone(p) ==
    \/ StopWaits(p, "stop_read_thread", "dev_read_thread", "stop_write_thread")
    \/ StopWaits(p, "stop_write_thread", "dev_write_thread", "shut_down")
    \/ StopWaits(p, "exit_stop_read_thread", "dev_read_thread", "exit_power_down")

CloseShutsDown(p) ==
    /\ pc[p] = "shut_down"
    /\ powered' = FALSE
    /\ Free({CdevBuff(ring) : ring \in Rings}
               \cup Destroyed("Tx", "Tx") \cup Destroyed("Rx", "Rx"))
    /\ Goto(p, "uncount")
    /\ UNCHANGED <<module, card, OpenCtr, mutex, thread>>

\* Mutant: the counter is left alone.
CloseReturns_NotCounted(p) ==
    /\ pc[p] = "uncount"
    /\ mutex' = {}
    /\ Goto(p, "closed")
    /\ UNCHANGED <<module, card, OpenCtr, memory, thread, powered>>

CloseReturns(p) ==
    /\ pc[p] = "uncount"
    /\ OpenCtr' = OpenCtr - 1
    /\ mutex' = {}
    /\ Goto(p, "closed")
    /\ UNCHANGED <<module, card, memory, thread, powered>>

\* A thread leaves its loop once it is asked to stop.
ThreadExits(t) ==
    /\ thread[t] = "stopping"
    /\ thread' = [thread EXCEPT ![t] = "none"]
    /\ UNCHANGED <<module, card, OpenCtr, mutex, pc, memory, powered>>
-------------------------------------------------------------------------------
Loader == Probe \/ CdevAdd \/ CdevFails \/ ResetOpenCtr

\* The steps that end an open or a close once the mutex is held.
Proceeds(p) ==
    \/ OpenRxBuffs(p) \/ OpenTxBuffs(p) \/ OpenWritesTable(p) \/ OpenReadBuff(p)
    \/ OpenWriteBuff(p) \/ OpenPowersOn(p) \/ OpenReadThread(p) \/ OpenWriteThread(p) \/ OpenReturns(p)
    \/ UnwindPower(p) \/ UnwindReadBuff(p) \/ UnwindTxBuffs(p) \/ UnwindRxBuffs(p)
    \/ OpenFails(p)
    \/ StopAsked(p) \/ StopDone(p) \/ CloseShutsDown(p) \/ CloseReturns(p)

Next ==
    \/ Loader \/ Unload
    \/ \E p \in Procs :
         \/ OpenCall(p) \/ OpenLock(p) \/ CallBegins(p) \/ CallEnds(p)
         \/ CloseCall(p) \/ CloseLock(p) \/ Proceeds(p)
    \/ \E t \in Threads : ThreadExits(t)

Spec == Init /\ [][Next]_vars

\* Processes inside the driver run, a kernel mutex that is free again and again is
\* granted to every process that waits for it, and a thread asked to stop exits.
Fairness ==
    /\ \A p \in Procs : WF_vars(Proceeds(p)) /\ SF_vars(OpenLock(p)) /\ SF_vars(CloseLock(p))
    /\ \A t \in Threads : WF_vars(ThreadExits(t))

FairSpec == Spec /\ Fairness
-------------------------------------------------------------------------------
(* Correctness *)

Locations ==
    {"closed", "open_lock", "crashed", "write_table", "power_on", "count", "open", "call",
     "close_lock",
     "stop_read_thread", "stop_write_thread", "shut_down", "uncount",
     "exit_stop_read_thread", "exit_power_down", "exit_vfree_cdev_read_buff",
     "exit_destroy_dma_buffs_tx", "exit_destroy_dma_buffs_rx", "exit_func"}
    \cup FallibleSteps

\* Types; OpenCtr in particular never goes below zero.
TypeOK ==
    /\ module \in {"unloaded", "probed", "live", "loaded"}
    /\ held \subseteq Card /\ settings \in {"null", "valid", "dangling"}
    /\ OpenCtr \in Nat
    /\ mutex \in SUBSET Procs /\ Cardinality(mutex) <= 1
    /\ pc \in [Procs -> Locations]
    /\ valid \subseteq Resources /\ live \in [Resources -> Nat]
    /\ misfreed \subseteq Resources \cup UNION {Buffs(ring, {NumBuffs}) : ring \in Rings}
    /\ table \subseteq AllMappings
    /\ thread \in [Threads -> {"none", "running", "stopping"}]
    /\ powered \in BOOLEAN

\* The processes that have an open file.
Handles == {p \in Procs : pc[p] \in {"open", "call", "close_lock"}}

\* langford.h:51: OpenCtr is the number of open handles, whenever no open or close
\* is in progress.
HandlesCounted ==
    module = "loaded" /\ settings = "valid" /\ mutex = {} => OpenCtr = Cardinality(Handles)

\* As long as a process is inside a call, the threads, the buffers and the power it
\* relies on are there, whichever of the other processes opens or closes.
CallsAreServed ==
    (\E p \in Procs : pc[p] = "call") =>
        /\ \A t \in Threads : thread[t] = "running"
        /\ valid = Resources /\ powered

\* A kernel thread that may still run finds every buffer it uses allocated and in the
\* card's translation table, also while a close or a failed open takes things apart.
ThreadsHaveBuffers ==
    (\E t \in Threads : thread[t] # "none") => valid = Resources /\ AllMappings \subseteq table

\* What langford.c may leave allocated: the upper buffers, which line 788 leaves out
\* after a failed mapping, and the bus addresses of the transmit buffers, which the
\* unwinding of an open takes for those of the receive buffers.
MayLeak == Mappings("Tx", Indices) \cup {AddrArray("Tx")}
               \cup UNION {Buffs(ring, UnwindFrom + 1 .. NumBuffs - 1) : ring \in Rings}

\* With nobody inside the driver and no open file, nothing is running and the radio is
\* off, and nothing is allocated: the last close, or the unwinding of an open that
\* failed, undid what was done, but for MayLeak where something was misfreed.
NothingLeftBehind ==
    mutex \subseteq {p \in Procs : pc[p] = "closed"} /\ Handles = {} =>
        /\ \A r \in Resources : live[r] > 0 => misfreed # {} /\ r \in MayLeak
        /\ \A t \in Threads : thread[t] = "none"
        /\ ~powered

\* driver_probe acquires the whole card or, whichever step fails, nothing; driver_exit
\* and the unwinding of driver_initial give it all back; whoever has the device
\* open has a card, and an open crashes only without one.
CardAllOrNothing ==
    /\ held \in {{}, Card}
    /\ module = "unloaded" => held = {}
    /\ (\E p \in Procs : pc[p] \notin {"closed", "open_lock", "crashed"}) => held = Card
    /\ (\E p \in Procs : pc[p] = "crashed") => held = {}

\* The mutex was left locked by an open that returned or crashed.
MutexLost == \E p \in mutex : pc[p] \in {"closed", "open_lock", "crashed"}

\* Every open call ends, whatever the other processes do, up to the first open
\* that fails: that one leaves the mutex locked, as does one that finds no card.
OpenCallEndsUnlessLost ==
    \A p \in Procs : pc[p] = "open_lock" ~> (pc[p] \in {"open", "closed"} \/ MutexLost)

\* langford.c:860: cdev_open handles open calls: each one ends, with the device
\* open or with an error.
OpenCallReturns ==
    \A p \in Procs : pc[p] = "open_lock" ~> pc[p] \in {"open", "closed"}

\* langford.c:800: destroy_dma_buffs destroys what create_dma_buffs created, once.
FreedOnce == misfreed = {}
===============================================================================
