-------------------------------- MODULE WinDevice --------------------------------
(***************************************************************************)
(* The life of the device object of the Windows driver: what EvtDeviceAdd  *)
(* creates, mapping and unmapping the card when it is started and stopped, *)
(* and the cleanup that ends the two request processor threads             *)
(* (langford_dev.c and langford.c, with the frame of the threads of        *)
(* langford_isrdpc.c).  The requests are in WinDma.                        *)
(*                                                                         *)
(* The framework (external) calls EvtDeviceAdd, then PrepareHardware when  *)
(* the card gets its resources, ReleaseHardware when it loses them, and    *)
(* the context cleanup when the device object goes, at the latest after a  *)
(* failed EvtDeviceAdd.                                                    *)
(***************************************************************************)
EXTENDS WinIo, FiniteSets

CONSTANTS
    Pages,           \* entries of each half of the card's address translation table
    ResourceLists,   \* the lists of translated resources the card may be started with
    MayFail          \* the steps of EvtDeviceAdd that may fail

Workers == {"ReadRequestProcessor", "WriteRequestProcessor"}
OwnEvent == [ReadRequestProcessor |-> "ReadRequestEvent",
             WriteRequestProcessor |-> "WriteRequestEvent"]
Events == {"ReadRequestEvent", "WriteRequestEvent", "TerminatedThreadEvent"}

\* The calls of EvtDeviceAdd that report a status, in order.
AddSteps ==
    <<"device", "symbolic_link", "write_queue", "write_dispatch", "read_queue", "read_dispatch",
      "ioctl_queue", "ioctl_dispatch", "read_thread", "read_reference", "write_thread",
      "write_reference", "dma_enabler", "read_transaction", "write_transaction">>

Resources == {"mem0", "mem1", "interrupt"}

\* BAR0 comes first.
ASSUME WinDeviceAssumption ==
    /\ Pages \in Nat \ {0, 1}
    /\ MayFail \subseteq ToSet(AddSteps)
    /\ ResourceLists \subseteq Seq(Resources)
    /\ \A res \in ResourceLists : res # <<>> => res[1] # "mem1"

VARIABLES
    pnp,        \* where the framework is with the device
    step,       \* how many of AddSteps are done
    worker,     \* per thread: "none", "wait", "poll" or "ended"
    referenced, \* the threads whose object EvtDeviceAdd holds
    signalled,  \* the events that are signalled
    bar,        \* per bar of the card the driver uses: the resource mapped, or "none"
    table       \* per entry of the translation table, in BAR0: its two words

deviceVars == <<pnp, step, worker, referenced, signalled, bar>>

Entries == 0 .. 2 * Pages - 1
NoBars == [Bar0 |-> "none", Bar1 |-> "none"]
EventsReady == step >= 8        \* KeInitializeEvent follows the ioctl queue's dispatching

DeviceInit ==
    /\ pnp = "adding" /\ step = 0
    /\ worker = [w \in Workers |-> "none"]
    /\ referenced = {} /\ signalled = {}
    /\ bar = NoBars
    /\ table = [e \in Entries |-> [low |-> "unset", high |-> "unset"]]
-------------------------------------------------------------------------------
(* EvtDeviceAdd *)

Started(s) == CASE s = "read_thread" -> {"ReadRequestProcessor"}
                [] s = "write_thread" -> {"WriteRequestProcessor"} [] OTHER -> {}
Referenced(s) == CASE s = "read_reference" -> {"ReadRequestProcessor"}
                   [] s = "write_reference" -> {"WriteRequestProcessor"} [] OTHER -> {}

AddSucceeds ==
    /\ pnp = "adding"
    /\ LET s == AddSteps[step + 1]
       IN /\ worker' = [w \in Workers |-> IF w \in Started(s) THEN "wait" ELSE worker[w]]
          /\ referenced' = referenced \cup Referenced(s)
    /\ step' = step + 1
    /\ pnp' = IF step + 1 = Len(AddSteps) THEN "added" ELSE "adding"
    /\ UNCHANGED <<signalled, bar>>

\* The status is returned and the framework deletes the device object.  That of
\* WdfDeviceCreate is overwritten unseen: the next line uses a handle that is not set.
AddFails ==
    /\ pnp = "adding" /\ AddSteps[step + 1] \in MayFail
    /\ pnp' = IF step = 0 THEN "crashed" ELSE "cleanup"
    /\ UNCHANGED <<step, worker, referenced, signalled, bar>>
-------------------------------------------------------------------------------
(* Starting and stopping the card *)

\* Mutant: the second descriptor is mapped whatever its type is.
PrepareHardware_AnyType ==
    /\ pnp \in {"added", "released"}
    /\ \E res \in ResourceLists :
         IF Len(res) < 2 \/ res[1] = "interrupt"
         THEN pnp' = "removing" /\ UNCHANGED <<bar, table>>
         ELSE /\ pnp' = "resetting" /\ bar' = [Bar0 |-> res[1], Bar1 |-> res[2]]
              /\ table' = [table EXCEPT ![0].low = "mask"]
    /\ UNCHANGED <<step, worker, referenced, signalled, pinVars>>

\* langfordMapHWResources.  Both bars are mapped from the first descriptor.  To find
\* the translation mask, all ones are written to CRA_ATT, the low word of entry 0.  The
\* reset then goes to where Bar1 was mapped and waits for a status bit there.
PrepareHardware ==
    /\ pnp \in {"added", "released"}
    /\ \E res \in ResourceLists :
         IF Len(res) < 2 \/ res[1] = "interrupt" \/ res[2] = "interrupt"
         THEN pnp' = "removing" /\ UNCHANGED <<bar, table>>
         ELSE /\ pnp' = "resetting" /\ bar' = [Bar0 |-> res[1], Bar1 |-> res[1]]
              /\ table' = [table EXCEPT ![0].low = "mask"]
    /\ UNCHANGED <<step, worker, referenced, signalled, pinVars>>

\* langfordResetDma returns, and the peripherals are powered down.
Prepared ==
    /\ pnp = "resetting"
    /\ pnp' = "started"
    /\ PowerDown
    /\ UNCHANGED <<step, worker, referenced, signalled, bar>>

\* External: the framework stops the queues, to give the card other resources or to
\* remove the device, and then waits for the requests the driver holds.
StopCard ==
    /\ pnp = "started"
    /\ pnp' \in {"stopping", "removing"}
    /\ UNCHANGED <<step, worker, referenced, signalled, bar>>

\* langfordUnmapHWResources.
ReleaseHardware ==
    /\ pnp \in {"stopping", "removing"}
    /\ bar' = NoBars
    /\ pnp' = IF pnp = "stopping" THEN "released" ELSE "cleanup"
    /\ UNCHANGED <<step, worker, referenced, signalled>>

\* External: a device that was stopped, or never started, is removed.
RemoveIdle ==
    /\ pnp \in {"added", "released"}
    /\ pnp' = "cleanup"
    /\ UNCHANGED <<step, worker, referenced, signalled, bar>>
-------------------------------------------------------------------------------
(* EvtDeviceContextCleanup and the threads *)

\* Setting an event that was never initialised is undefined; the model stops there.
CleanupSignals ==
    /\ pnp = "cleanup"
    /\ IF EventsReady
       THEN pnp' = "cleanup_wait" /\ signalled' = signalled \cup {"TerminatedThreadEvent"}
       ELSE pnp' = "crashed" /\ UNCHANGED signalled
    /\ UNCHANGED <<step, worker, referenced, bar>>

\* Mutant: the cleanup does not wait for the threads.
CleanupWaits_NoWait ==
    /\ pnp = "cleanup_wait"
    /\ referenced' = {}
    /\ pnp' = "removed"
    /\ UNCHANGED <<step, worker, signalled, bar>>

\* The objects of the threads that were referenced become signalled as they end.
CleanupWaits ==
    /\ pnp = "cleanup_wait"
    /\ \A w \in referenced : worker[w] = "ended"
    /\ referenced' = {}
    /\ pnp' = "removed"
    /\ UNCHANGED <<step, worker, signalled, bar>>

\* Mutant: a request event stays signalled when it has ended a wait.
WorkerWakes_NoReset(w) ==
    /\ worker[w] = "wait" /\ OwnEvent[w] \in signalled
    /\ worker' = [worker EXCEPT ![w] = "poll"]
    /\ UNCHANGED <<pnp, step, referenced, signalled, bar>>

\* KeWaitForMultipleObjects: the request event comes first and is reset.
WorkerWakes(w) ==
    /\ worker[w] = "wait" /\ OwnEvent[w] \in signalled
    /\ worker' = [worker EXCEPT ![w] = "poll"]
    /\ signalled' = signalled \ {OwnEvent[w]}
    /\ UNCHANGED <<pnp, step, referenced, bar>>

\* Mutant: the event that ends the threads is reset by the first thread it wakes.
WorkerEnds_AutoReset(w) ==
    /\ worker[w] = "wait" /\ OwnEvent[w] \notin signalled
    /\ "TerminatedThreadEvent" \in signalled
    /\ worker' = [worker EXCEPT ![w] = "ended"]
    /\ signalled' = signalled \ {"TerminatedThreadEvent"}
    /\ UNCHANGED <<pnp, step, referenced, bar>>

\* TerminatedThreadEvent stays signalled, for both threads.
WorkerEnds(w) ==
    /\ worker[w] = "wait" /\ OwnEvent[w] \notin signalled
    /\ "TerminatedThreadEvent" \in signalled
    /\ worker' = [worker EXCEPT ![w] = "ended"]
    /\ UNCHANGED <<pnp, step, referenced, signalled, bar>>
===============================================================================
