---------------------------- MODULE LifecycleProofs ----------------------------
(***************************************************************************)
(* Proofs about opening and closing the device: for any number of          *)
(* processes and buffers, whichever steps fail, and, but for CardIsWhole,  *)
(* if nobody opens the device before its module is loaded.                 *)
(*                                                                         *)
(* The invariant says what exists at every location of the one process     *)
(* that holds cdev_open_close_mutex (At), and what is left when nobody     *)
(* does (Unlocked) or when the holder returned without unlocking (Lost).   *)
(***************************************************************************)
EXTENDS Lifecycle, FiniteSetTheorems, TLAPS

\* Nobody runs, nothing is on, nothing is allocated; and the opposite.
Quiet == \A t \in Threads : thread[t] = "none"
Down == Quiet /\ ~powered /\ valid = {}
Up == /\ \A t \in Threads : thread[t] = "running"
      /\ valid = Resources /\ AllMappings \subseteq table /\ powered

HandleLocations == {"open", "call", "close_lock"}
Outside == {"closed", "open_lock"} \cup HandleLocations

\* The bus addresses of a ring.
Addresses(ring) == {AddrArray(ring)} \cup Mappings(ring, Indices)

\* An open in progress: no handle yet, so many resources, and these threads.
Opening(V, on) ==
    /\ OpenCtr = 0 /\ Handles = {}
    /\ valid = V /\ powered = on
Tabled == AllMappings \subseteq table

At(l) ==
    /\ l = "crashed" => Handles = {} /\ Down
    /\ l = "rx_buffs" => Opening({}, FALSE) /\ Quiet
    /\ l = "tx_buffs" => Opening(RingPieces("Rx"), FALSE) /\ Quiet
    /\ l = "write_table" => Opening(RingPieces("Rx") \cup RingPieces("Tx"), FALSE) /\ Quiet
    /\ l = "read_buff" =>
         Opening(RingPieces("Rx") \cup RingPieces("Tx"), FALSE) /\ Quiet /\ Tabled
    /\ l = "write_buff" =>
         Opening(Resources \ {CdevBuff("Tx")}, FALSE) /\ Quiet /\ Tabled
    /\ l = "power_on" => Opening(Resources, FALSE) /\ Quiet /\ Tabled
    /\ l = "read_thread" => Opening(Resources, TRUE) /\ Quiet /\ Tabled
    /\ l = "write_thread" =>
         /\ Opening(Resources, TRUE) /\ Tabled
         /\ thread["dev_read_thread"] = "running" /\ thread["dev_write_thread"] = "none"
    /\ l = "exit_stop_read_thread" =>
         Opening(Resources, TRUE) /\ Tabled /\ thread["dev_write_thread"] = "none"
    /\ l = "exit_power_down" => Opening(Resources, TRUE) /\ Quiet
    /\ l = "exit_vfree_cdev_read_buff" => Opening(Resources \ {CdevBuff("Tx")}, FALSE) /\ Quiet
    /\ l = "exit_destroy_dma_buffs_tx" =>
         Opening(RingPieces("Rx") \cup RingPieces("Tx"), FALSE) /\ Quiet
    /\ l = "exit_destroy_dma_buffs_rx" =>
         /\ \/ Opening(RingPieces("Rx"), FALSE)
            \/ Opening((RingPieces("Rx") \ Addresses("Rx")) \cup Addresses("Tx"), FALSE)
         /\ Quiet
    /\ l = "exit_func" =>
         /\ Opening({}, FALSE) \/ (Opening(Addresses("Tx"), FALSE) /\ misfreed # {})
         /\ Quiet
    /\ l = "count" => OpenCtr = Cardinality(Handles) /\ Up
    /\ l = "stop_read_thread" =>
         /\ OpenCtr = 1 /\ Handles = {} /\ valid = Resources /\ Tabled
         /\ thread["dev_write_thread"] = "running"
    /\ l = "stop_write_thread" =>
         /\ OpenCtr = 1 /\ Handles = {} /\ valid = Resources /\ Tabled
         /\ thread["dev_read_thread"] = "none"
    /\ l = "shut_down" => OpenCtr = 1 /\ Handles = {} /\ valid = Resources /\ Quiet
    /\ l = "uncount" =>
         /\ OpenCtr = Cardinality(Handles) + 1
         /\ IF Handles = {} THEN Down ELSE Up

\* The one process inside the driver holds the mutex.
Held ==
    \A p \in Procs : \A l \in Locations \ Outside : pc[p] = l => mutex = {p} /\ At(l)

\* The mutex is free.
Unlocked ==
    mutex = {} =>
        /\ module = "loaded" /\ settings = "valid" => OpenCtr = Cardinality(Handles)
        /\ IF Handles = {} THEN Down ELSE Up

\* The mutex is held by a process that has left.
Lost ==
    \A p \in mutex : pc[p] \in Outside =>
        /\ pc[p] \in {"closed", "open_lock"}
        /\ Handles = {} /\ Quiet /\ ~powered
        /\ valid = {} \/ (valid = Addresses("Tx") /\ misfreed # {})

\* Before it is loaded nobody is in the module.
Loading == module # "loaded" => mutex = {} /\ \A p \in Procs : pc[p] = "closed"

\* The card is there or not, and whoever has passed the mutex has found it.
Carded ==
    /\ IF settings = "valid" THEN held = Card ELSE held = {}
    /\ module = "unloaded" => held = {}
    /\ \A p \in Procs : /\ pc[p] \notin {"closed", "open_lock", "crashed"} => settings = "valid"
                        /\ pc[p] = "crashed" => settings # "valid"

\* Whatever is allocated and not referred to has leaked.
Accounted ==
    /\ table \subseteq valid
    /\ \A r \in Resources :
        /\ r \in valid => live[r] >= 1
        /\ live[r] > (IF r \in valid THEN 1 ELSE 0) => misfreed # {} /\ r \in MayLeak

IInv == /\ TypeOK /\ Held /\ Unlocked /\ Lost /\ Loading /\ Carded /\ Accounted
-------------------------------------------------------------------------------
(* What the rings consist of, and what create_dma_buffs leaves when it fails. *)

LEMMA Pieces ==
    /\ Resources = RingPieces("Rx") \cup RingPieces("Tx") \cup {CdevBuff("Rx"), CdevBuff("Tx")}
    /\ RingPieces("Rx") \cap RingPieces("Tx") = {}
    /\ CdevBuff("Rx") # CdevBuff("Tx")
    /\ \A ring \in Rings :
         /\ CdevBuff(ring) \notin RingPieces("Rx") \cup RingPieces("Tx")
         /\ Destroyed(ring, ring) = RingPieces(ring)
         /\ Addresses(ring) \subseteq RingPieces(ring)
         /\ Mappings(ring, Indices) \subseteq AllMappings
    /\ Destroyed("Tx", "Rx") = (RingPieces("Tx") \ Addresses("Tx")) \cup Addresses("Rx")
    /\ AllMappings = Mappings("Rx", Indices) \cup Mappings("Tx", Indices)
    /\ Addresses("Tx") \subseteq MayLeak
  <1>1. /\ Resources = RingPieces("Rx") \cup RingPieces("Tx") \cup {CdevBuff("Rx"), CdevBuff("Tx")}
        /\ AllMappings = Mappings("Rx", Indices) \cup Mappings("Tx", Indices)
    BY DEF Resources, AllMappings, Rings
  <1>2. RingPieces("Rx") \cap RingPieces("Tx") = {}
    BY DEF RingPieces, BuffArray, AddrArray, Buffs, Mappings
  <1>3. CdevBuff("Rx") # CdevBuff("Tx")
    BY DEF CdevBuff
  <1>4. ASSUME NEW ring \in Rings
        PROVE  /\ CdevBuff(ring) \notin RingPieces("Rx") \cup RingPieces("Tx")
               /\ Destroyed(ring, ring) = RingPieces(ring)
               /\ Addresses(ring) \subseteq RingPieces(ring)
               /\ Mappings(ring, Indices) \subseteq AllMappings
    <2>1. CdevBuff(ring) \notin RingPieces("Rx") \cup RingPieces("Tx")
      BY DEF CdevBuff, RingPieces, BuffArray, AddrArray, Buffs, Mappings
    <2>2. Destroyed(ring, ring) = RingPieces(ring)
      BY DEF Destroyed, RingPieces
    <2>3. Addresses(ring) \subseteq RingPieces(ring)
      BY DEF Addresses, RingPieces
    <2>4. Mappings(ring, Indices) \subseteq AllMappings
      BY DEF AllMappings
    <2> QED  BY <2>1, <2>2, <2>3, <2>4
  <1>5. Destroyed("Tx", "Rx") = (RingPieces("Tx") \ Addresses("Tx")) \cup Addresses("Rx")
    BY DEF Destroyed, RingPieces, Addresses, BuffArray, AddrArray, Buffs, Mappings
  <1>6. Addresses("Tx") \subseteq MayLeak
    BY DEF Addresses, MayLeak
  <1> QED  BY <1>1, <1>2, <1>3, <1>4, <1>5, <1>6

LEMMA InVain ==
    ASSUME NEW ring \in Rings, NEW f \in FailurePoints
    PROVE  /\ MadeBefore(ring, f) \ Unwound(ring, f) \subseteq MayLeak
           /\ MadeBefore(ring, f) \ Unwound(ring, f) # {}
                 => Unwound(ring, f) \ MadeBefore(ring, f) # {}
           /\ Unwound(ring, f) \subseteq Resources \cup UNION {Buffs(r, {NumBuffs}) : r \in Rings}
  <1> DEFINE made == MadeBefore(ring, f)
             unwound == Unwound(ring, f)
  <1>0. RingPieces(ring) \subseteq Resources
    BY DEF Resources
  <1>1. CASE f.at = "buffs"
    BY <1>1 DEF MadeBefore, Unwound
  <1>2. CASE f.at = "buff"
    <2>1. f.i \in Indices
      BY <1>2 DEF FailurePoints
    <2>2. 0 .. f.i - 1 \subseteq Indices
      BY <2>1, DmaBuffsAssumption DEF Indices
    <2>3. made = unwound /\ unwound \subseteq RingPieces(ring)
      BY <1>2, <2>2 DEF MadeBefore, Unwound, RingPieces, Buffs
    <2> QED  BY <1>0, <2>3
  <1>3. CASE f.at = "addrs"
    <2>1. 0 .. NumBuffs = Indices \cup {NumBuffs}
      BY DmaBuffsAssumption DEF Indices
    <2>2. unwound = made \cup Buffs(ring, {NumBuffs}) /\ made \subseteq RingPieces(ring)
      BY <1>3, <2>1 DEF MadeBefore, Unwound, RingPieces, Buffs
    <2> QED  BY <1>0, <2>2
  <1>4. CASE f.at = "map"
    <2>1. f.i \in Indices
      BY <1>4 DEF FailurePoints
    <2>2. /\ 0 .. f.i - 1 \subseteq Indices /\ 0 .. f.i \subseteq Indices
          /\ 0 .. f.i - 1 \subseteq 0 .. f.i /\ f.i \in 0 .. f.i /\ f.i \notin 0 .. f.i - 1
          /\ 0 .. UnwindFrom \subseteq Indices
          /\ Indices \ (0 .. UnwindFrom) = UnwindFrom + 1 .. NumBuffs - 1
      BY <2>1, DmaBuffsAssumption DEF Indices
    <2>3. made \ unwound \subseteq Buffs(ring, UnwindFrom + 1 .. NumBuffs - 1)
      BY <1>4, <2>2 DEF MadeBefore, Unwound, Buffs, Mappings, BuffArray, AddrArray
    <2>4. <<"map", ring, f.i>> \in unwound
      BY <1>4, <2>2 DEF Unwound, Mappings
    <2>5. <<"map", ring, f.i>> \notin made
      BY <1>4, <2>1, <2>2 DEF MadeBefore, Mappings, Buffs, BuffArray, AddrArray
    <2>6. unwound \subseteq RingPieces(ring)
      BY <1>4, <2>2 DEF Unwound, RingPieces, Mappings, Buffs
    <2> QED  BY <1>0, <2>3, <2>4, <2>5, <2>6 DEF MayLeak
  <1> QED  BY <1>1, <1>2, <1>3, <1>4 DEF FailurePoints

LEMMA NothingHeldAfterFailure ==
    ASSUME NEW n \in 1 .. Len(ProbeSteps)
    PROVE  HeldAfterFailure(n) = {}
  <1>1. Len(ProbeSteps) = 10 /\ Len(Labels) = 5
    BY DEF ProbeSteps, Labels
  <1>2. SUFFICES ASSUME NEW k \in 1 .. n - 1, NEW x \in ProbeSteps[k].gets
                 PROVE  \E j \in ProbeSteps[n].label .. 5 : x \in Labels[j]
    BY <1>1 DEF HeldAfterFailure, HeldBefore
  <1> QED  BY <1>1 DEF ProbeSteps, Labels
-------------------------------------------------------------------------------
(* How a step that leaves the mutex alone keeps the invariant. *)

LEMMA SameHandles ==
    ASSUME TypeOK, NEW p \in Procs, NEW l, Goto(p, l),
           pc[p] \in HandleLocations <=> l \in HandleLocations
    PROVE  Handles' = Handles
  BY DEF TypeOK, Goto, Handles, HandleLocations

\* The holder of the mutex goes on to another location inside the driver.
LEMMA InsideStep ==
    ASSUME IInv, NEW p \in Procs, pc[p] \notin Outside,
           NEW l \in Locations, l \notin Outside, l # "crashed", pc[p] # "crashed",
           Goto(p, l), UNCHANGED <<module, card, mutex>>,
           TypeOK', At(l)', Accounted'
    PROVE  IInv'
  <1> USE DEF IInv
  <1>1. mutex = {p} /\ \A q \in Procs : pc[q] \notin Outside => q = p
    BY DEF Held, TypeOK
  <1>2. pc'[p] = l /\ \A q \in Procs : q # p => pc'[q] = pc[q]
    BY DEF Goto, TypeOK
  <1>3. Held'
    <2>1. SUFFICES ASSUME NEW q \in Procs, NEW k \in Locations \ Outside, pc'[q] = k
                   PROVE  mutex' = {q} /\ At(k)'
      BY DEF Held, Outside, HandleLocations
    <2>2. q = p
      BY <1>1, <1>2, <2>1
    <2>3. k = l
      BY <1>2, <2>1, <2>2
    <2> QED  BY <1>1, <2>2, <2>3
  <1>4. Unlocked' /\ Lost'
    BY <1>1, <1>2 DEF Unlocked, Lost
  <1>5. Loading' /\ Carded'
    BY <1>1, <1>2 DEF Loading, Carded, Outside, HandleLocations, card
  <1> QED  BY <1>3, <1>4, <1>5

\* A process outside the driver moves, keeping or not having its handle.
LEMMA OutsideStep ==
    ASSUME IInv, NEW p \in Procs, pc[p] \in Outside, NEW l \in Outside, Goto(p, l),
           pc[p] \in HandleLocations <=> l \in HandleLocations,
           module = "loaded" \/ pc[p] # "closed",
           UNCHANGED <<module, card, OpenCtr, mutex, memory, thread, powered>>
    PROVE  IInv'
  <1> USE DEF IInv
  <1>1. pc'[p] = l /\ \A q \in Procs : q # p => pc'[q] = pc[q]
    BY DEF Goto, TypeOK
  <1>2. Handles' = Handles
    BY SameHandles
  <1>3. TypeOK'
    BY DEF TypeOK, Goto, Outside, HandleLocations, Locations, card, memory
  <1>4. Accounted'
    BY DEF Accounted, memory
  <1>5. Held'
    <2>1. SUFFICES ASSUME NEW q \in Procs, NEW k \in Locations \ Outside, pc'[q] = k
                   PROVE  mutex' = {q} /\ At(k)'
      BY DEF Held, Outside, HandleLocations
    <2>2. pc[q] = k /\ mutex' = mutex
      BY <1>1, <2>1
    <2>3. mutex = {q} /\ At(k)
      BY <2>1, <2>2 DEF Held
    <2> QED  BY <1>2, <2>2, <2>3 DEF At, Opening, Quiet, Tabled, Down, Up, memory
  <1>6. Unlocked' /\ Lost'
    <2>1. Unlocked'
      BY <1>2 DEF Unlocked, Down, Up, Quiet, memory, card
    <2>2. Lost'
      BY <1>1, <1>2 DEF Lost, Quiet, Outside, HandleLocations, memory, TypeOK
    <2> QED  BY <2>1, <2>2
  <1>7. Loading' /\ Carded'
    BY <1>1 DEF Loading, Carded, Outside, HandleLocations, card
  <1> QED  BY <1>3, <1>4, <1>5, <1>6, <1>7
-------------------------------------------------------------------------------
(* The accounting of the three ways memory changes. *)

LEMMA AllocateAccounts ==
    ASSUME TypeOK, Accounted, NEW R \in SUBSET Resources, R \cap valid = {}, Allocate(R)
    PROVE  /\ Accounted' /\ valid' \subseteq Resources /\ live' \in [Resources -> Nat]
           /\ misfreed' = misfreed /\ table' = table
  <1>1. valid' = valid \cup R /\ misfreed' = misfreed /\ table' = table
    BY DEF Allocate, Accounted
  <1>2. live' \in [Resources -> Nat]
    BY DEF Allocate, TypeOK
  <1>3. ASSUME NEW r \in Resources
        PROVE  /\ r \in valid' => live'[r] >= 1
               /\ live'[r] > (IF r \in valid' THEN 1 ELSE 0) => misfreed' # {} /\ r \in MayLeak
    <2>1. live'[r] = (IF r \in R THEN live[r] + 1 ELSE live[r]) /\ live[r] \in Nat
      BY DEF Allocate, TypeOK
    <2> QED  BY <1>1, <2>1 DEF Accounted
  <1> QED  BY <1>1, <1>2, <1>3 DEF Accounted, TypeOK

LEMMA FreeAccounts ==
    ASSUME TypeOK, Accounted, NEW R \in SUBSET Resources, Free(R)
    PROVE  /\ Accounted' /\ valid' \subseteq Resources /\ live' \in [Resources -> Nat]
           /\ valid' = valid \ R /\ table' = table \ R
           /\ misfreed' = misfreed \cup (R \ valid) /\ misfreed' \subseteq misfreed \cup Resources
  <1>1. valid' = valid \ R /\ table' = table \ R /\ misfreed' = misfreed \cup (R \ valid)
    BY DEF Free
  <1>2. ASSUME NEW r \in Resources
        PROVE  /\ live'[r] \in Nat
               /\ r \in valid' => live'[r] >= 1
               /\ live'[r] > (IF r \in valid' THEN 1 ELSE 0) => misfreed' # {} /\ r \in MayLeak
    <2>1. live'[r] = (IF r \in R \cap valid THEN live[r] - 1 ELSE live[r]) /\ live[r] \in Nat
      BY DEF Free, TypeOK
    <2> QED  BY <1>1, <2>1 DEF Accounted
  <1>3. live' \in [Resources -> Nat]
    BY <1>2 DEF Free
  <1> QED  BY <1>1, <1>2, <1>3 DEF Accounted, TypeOK

LEMMA InVainAccounts ==
    ASSUME TypeOK, Accounted, NEW ring \in Rings, NEW f \in FailurePoints,
           AllocateInVain(MadeBefore(ring, f), Unwound(ring, f))
    PROVE  /\ Accounted' /\ live' \in [Resources -> Nat]
           /\ valid' = valid /\ table' = table
           /\ misfreed' \subseteq Resources \cup UNION {Buffs(r, {NumBuffs}) : r \in Rings}
  <1> DEFINE made == MadeBefore(ring, f)
             unwound == Unwound(ring, f)
  <1>0. /\ made \ unwound \subseteq MayLeak
        /\ made \ unwound # {} => unwound \ made # {}
        /\ unwound \subseteq Resources \cup UNION {Buffs(r, {NumBuffs}) : r \in Rings}
    BY InVain
  <1>1. /\ valid' = valid /\ table' = table
        /\ misfreed' = misfreed \cup (unwound \ made)
        /\ live' = [r \in Resources |-> IF r \in made \ unwound THEN live[r] + 1 ELSE live[r]]
    BY DEF AllocateInVain
  <1> HIDE DEF made, unwound
  <1>2. live' \in [Resources -> Nat]
    BY <1>1 DEF TypeOK
  <1>3. ASSUME NEW r \in Resources
        PROVE  /\ r \in valid' => live'[r] >= 1
               /\ live'[r] > (IF r \in valid' THEN 1 ELSE 0) => misfreed' # {} /\ r \in MayLeak
    <2>1. live'[r] = (IF r \in made \ unwound THEN live[r] + 1 ELSE live[r]) /\ live[r] \in Nat
      BY <1>1 DEF TypeOK
    <2>2. CASE r \in made \ unwound
      BY <1>0, <1>1, <2>1, <2>2 DEF Accounted
    <2>3. CASE r \notin made \ unwound
      BY <1>1, <2>1, <2>3 DEF Accounted
    <2> QED  BY <2>2, <2>3
  <1>4. misfreed' \subseteq Resources \cup UNION {Buffs(r, {NumBuffs}) : r \in Rings}
    BY <1>0, <1>1 DEF TypeOK
  <1> QED  BY <1>1, <1>2, <1>3, <1>4 DEF Accounted
-------------------------------------------------------------------------------
(* One lemma for each step of an open. *)

LEMMA HolderAt ==
    ASSUME IInv, NEW p \in Procs, NEW l \in Locations \ Outside, pc[p] = l
    PROVE  mutex = {p} /\ At(l) /\ pc[p] \notin Outside
  BY DEF IInv, Held

LEMMA Places == {"rx_buffs", "tx_buffs", "write_table", "read_buff", "write_buff",
                 "power_on", "read_thread", "write_thread", "exit_stop_read_thread",
                 "exit_power_down", "exit_vfree_cdev_read_buff", "exit_destroy_dma_buffs_tx",
                 "exit_destroy_dma_buffs_rx", "exit_func", "count", "stop_read_thread",
                 "stop_write_thread", "shut_down", "uncount", "crashed"}
                    \subseteq Locations \ Outside
  BY DEF Locations, FallibleSteps, Outside, HandleLocations

LEMMA OpenRxBuffsKeeps ==
    ASSUME IInv, NEW p \in Procs, OpenRxBuffs(p)
    PROVE  IInv'
  <1>1. pc[p] = "rx_buffs" /\ UNCHANGED <<module, card, OpenCtr, mutex, thread, powered>>
    BY DEF OpenRxBuffs, OpenCreates
  <1>2. pc[p] \notin Outside /\ Opening({}, FALSE) /\ Quiet
    BY <1>1, HolderAt, Places DEF At
  <1>3. RingPieces("Rx") \subseteq Resources
    BY Pieces
  <1>4. CASE Allocate(RingPieces("Rx")) /\ Goto(p, "tx_buffs")
    <2>1. Handles' = Handles
      BY <1>1, <1>4, SameHandles DEF IInv, HandleLocations
    <2>2. /\ Accounted' /\ valid' \subseteq Resources /\ live' \in [Resources -> Nat]
          /\ misfreed' = misfreed /\ table' = table /\ valid' = RingPieces("Rx")
      BY <1>2, <1>3, <1>4, AllocateAccounts DEF IInv, Opening, Allocate
    <2>3. TypeOK'
      BY <1>1, <1>4, <2>2, Places DEF IInv, TypeOK, Goto, card
    <2>4. At("tx_buffs")'
      BY <1>1, <1>2, <2>1, <2>2 DEF At, Opening, Quiet
    <2> QED  BY <1>1, <1>2, <1>4, <2>2, <2>3, <2>4, InsideStep, Places
  <1>5. ASSUME NEW f \in FailurePoints,
               AllocateInVain(MadeBefore("Rx", f), Unwound("Rx", f)), Goto(p, "exit_func")
        PROVE  IInv'
    <2>1. Handles' = Handles
      BY <1>1, <1>5, SameHandles DEF IInv, HandleLocations
    <2>2. /\ Accounted' /\ live' \in [Resources -> Nat] /\ valid' = valid /\ table' = table
          /\ misfreed' \subseteq Resources \cup UNION {Buffs(r, {NumBuffs}) : r \in Rings}
      BY <1>5, InVainAccounts DEF IInv, Rings
    <2>3. TypeOK'
      BY <1>1, <1>5, <2>2, Places DEF IInv, TypeOK, Goto, card
    <2>4. At("exit_func")'
      BY <1>1, <1>2, <2>1, <2>2 DEF At, Opening, Quiet
    <2> QED  BY <1>1, <1>2, <1>5, <2>2, <2>3, <2>4, InsideStep, Places
  <1> QED  BY <1>4, <1>5 DEF OpenRxBuffs, OpenCreates

LEMMA OpenTxBuffsKeeps ==
    ASSUME IInv, NEW p \in Procs, OpenTxBuffs(p)
    PROVE  IInv'
  <1>1. pc[p] = "tx_buffs" /\ UNCHANGED <<module, card, OpenCtr, mutex, thread, powered>>
    BY DEF OpenTxBuffs, OpenCreates
  <1>2. pc[p] \notin Outside /\ Opening(RingPieces("Rx"), FALSE) /\ Quiet
    BY <1>1, HolderAt, Places DEF At
  <1>3. RingPieces("Tx") \subseteq Resources /\ RingPieces("Tx") \cap RingPieces("Rx") = {}
    BY Pieces
  <1>4. CASE Allocate(RingPieces("Tx")) /\ Goto(p, "write_table")
    <2>1. Handles' = Handles
      BY <1>1, <1>4, SameHandles DEF IInv, HandleLocations
    <2>2. /\ Accounted' /\ valid' \subseteq Resources /\ live' \in [Resources -> Nat]
          /\ misfreed' = misfreed /\ table' = table
          /\ valid' = RingPieces("Rx") \cup RingPieces("Tx")
      BY <1>2, <1>3, <1>4, AllocateAccounts DEF IInv, Opening, Allocate
    <2>3. TypeOK'
      BY <1>1, <1>4, <2>2, Places DEF IInv, TypeOK, Goto, card
    <2>4. At("write_table")'
      BY <1>1, <1>2, <2>1, <2>2 DEF At, Opening, Quiet
    <2> QED  BY <1>1, <1>2, <1>4, <2>2, <2>3, <2>4, InsideStep, Places
  <1>5. ASSUME NEW f \in FailurePoints,
               AllocateInVain(MadeBefore("Tx", f), Unwound("Tx", f)),
               Goto(p, "exit_destroy_dma_buffs_rx")
        PROVE  IInv'
    <2>1. Handles' = Handles
      BY <1>1, <1>5, SameHandles DEF IInv, HandleLocations
    <2>2. /\ Accounted' /\ live' \in [Resources -> Nat] /\ valid' = valid /\ table' = table
          /\ misfreed' \subseteq Resources \cup UNION {Buffs(r, {NumBuffs}) : r \in Rings}
      BY <1>5, InVainAccounts DEF IInv, Rings
    <2>3. TypeOK'
      BY <1>1, <1>5, <2>2, Places DEF IInv, TypeOK, Goto, card
    <2>4. At("exit_destroy_dma_buffs_rx")'
      BY <1>1, <1>2, <2>1, <2>2 DEF At, Opening, Quiet
    <2> QED  BY <1>1, <1>2, <1>5, <2>2, <2>3, <2>4, InsideStep, Places
  <1> QED  BY <1>4, <1>5 DEF OpenTxBuffs, OpenCreates

LEMMA OpenWritesTableKeeps ==
    ASSUME IInv, NEW p \in Procs, OpenWritesTable(p)
    PROVE  IInv'
  <1>1. /\ pc[p] = "write_table" /\ Goto(p, "read_buff") /\ table' = table \cup AllMappings
        /\ UNCHANGED <<module, card, OpenCtr, mutex, valid, live, misfreed, thread, powered>>
    BY DEF OpenWritesTable
  <1>2. /\ pc[p] \notin Outside /\ Quiet
        /\ Opening(RingPieces("Rx") \cup RingPieces("Tx"), FALSE)
    BY <1>1, HolderAt, Places DEF At
  <1>3. Handles' = Handles
    BY <1>1, SameHandles DEF IInv, HandleLocations
  <1>4. AllMappings \subseteq RingPieces("Rx") \cup RingPieces("Tx")
    BY Pieces DEF Addresses, Rings
  <1>5. Accounted'
    BY <1>1, <1>2, <1>4 DEF IInv, Accounted, Opening
  <1>6. TypeOK'
    BY <1>1, Places DEF IInv, TypeOK, Goto, card
  <1>7. At("read_buff")'
    BY <1>1, <1>2, <1>3 DEF At, Opening, Quiet, Tabled
  <1> QED  BY <1>1, <1>2, <1>5, <1>6, <1>7, InsideStep, Places

LEMMA OpenReadBuffKeeps ==
    ASSUME IInv, NEW p \in Procs, OpenReadBuff(p)
    PROVE  IInv'
  <1>1. pc[p] = "read_buff" /\ UNCHANGED <<module, card, OpenCtr, mutex, thread, powered>>
    BY DEF OpenReadBuff, OpenAllocates
  <1>2. /\ pc[p] \notin Outside /\ Quiet /\ Tabled
        /\ Opening(RingPieces("Rx") \cup RingPieces("Tx"), FALSE)
    BY <1>1, HolderAt, Places DEF At
  <1>3. /\ {CdevBuff("Rx")} \subseteq Resources
        /\ {CdevBuff("Rx")} \cap (RingPieces("Rx") \cup RingPieces("Tx")) = {}
        /\ RingPieces("Rx") \cup RingPieces("Tx") \cup {CdevBuff("Rx")}
              = Resources \ {CdevBuff("Tx")}
    BY Pieces DEF Rings
  <1>4. CASE Allocate({CdevBuff("Rx")}) /\ Goto(p, "write_buff")
    <2>1. Handles' = Handles
      BY <1>1, <1>4, SameHandles DEF IInv, HandleLocations
    <2>2. /\ Accounted' /\ valid' \subseteq Resources /\ live' \in [Resources -> Nat]
          /\ misfreed' = misfreed /\ table' = table
      BY <1>2, <1>3, <1>4, AllocateAccounts DEF IInv, Opening
    <2>3. valid' = Resources \ {CdevBuff("Tx")}
      BY <1>2, <1>3, <1>4 DEF Opening, Allocate
    <2>4. TypeOK'
      BY <1>1, <1>4, <2>2, Places DEF IInv, TypeOK, Goto, card
    <2>5. At("write_buff")'
      BY <1>1, <1>2, <2>1, <2>2, <2>3 DEF At, Opening, Quiet, Tabled
    <2> QED  BY <1>1, <1>2, <1>4, <2>2, <2>4, <2>5, InsideStep, Places
  <1>5. CASE Goto(p, "exit_destroy_dma_buffs_tx") /\ UNCHANGED memory
    <2>1. Handles' = Handles
      BY <1>1, <1>5, SameHandles DEF IInv, HandleLocations
    <2>2. Accounted' /\ TypeOK'
      BY <1>1, <1>5, Places DEF IInv, Accounted, TypeOK, Goto, card, memory
    <2>3. At("exit_destroy_dma_buffs_tx")'
      BY <1>1, <1>2, <1>5, <2>1 DEF At, Opening, Quiet, memory
    <2> QED  BY <1>1, <1>2, <1>5, <2>2, <2>3, InsideStep, Places
  <1> QED  BY <1>4, <1>5 DEF OpenReadBuff, OpenAllocates

LEMMA OpenWriteBuffKeeps ==
    ASSUME IInv, NEW p \in Procs, OpenWriteBuff(p)
    PROVE  IInv'
  <1>1. pc[p] = "write_buff" /\ UNCHANGED <<module, card, OpenCtr, mutex, thread, powered>>
    BY DEF OpenWriteBuff, OpenAllocates
  <1>2. /\ pc[p] \notin Outside /\ Quiet /\ Tabled
        /\ Opening(Resources \ {CdevBuff("Tx")}, FALSE)
    BY <1>1, HolderAt, Places DEF At
  <1>3. {CdevBuff("Tx")} \subseteq Resources
    BY Pieces
  <1>4. CASE Allocate({CdevBuff("Tx")}) /\ Goto(p, "power_on")
    <2>1. Handles' = Handles
      BY <1>1, <1>4, SameHandles DEF IInv, HandleLocations
    <2>2. /\ Accounted' /\ valid' \subseteq Resources /\ live' \in [Resources -> Nat]
          /\ misfreed' = misfreed /\ table' = table
      BY <1>2, <1>3, <1>4, AllocateAccounts DEF IInv, Opening
    <2>3. valid' = Resources
      BY <1>2, <1>3, <1>4 DEF Opening, Allocate
    <2>4. TypeOK'
      BY <1>1, <1>4, <2>2, Places DEF IInv, TypeOK, Goto, card
    <2>5. At("power_on")'
      BY <1>1, <1>2, <2>1, <2>2, <2>3 DEF At, Opening, Quiet, Tabled
    <2> QED  BY <1>1, <1>2, <1>4, <2>2, <2>4, <2>5, InsideStep, Places
  <1>5. CASE Goto(p, "exit_vfree_cdev_read_buff") /\ UNCHANGED memory
    <2>1. Handles' = Handles
      BY <1>1, <1>5, SameHandles DEF IInv, HandleLocations
    <2>2. Accounted' /\ TypeOK'
      BY <1>1, <1>5, Places DEF IInv, Accounted, TypeOK, Goto, card, memory
    <2>3. At("exit_vfree_cdev_read_buff")'
      BY <1>1, <1>2, <1>5, <2>1 DEF At, Opening, Quiet, memory
    <2> QED  BY <1>1, <1>2, <1>5, <2>2, <2>3, InsideStep, Places
  <1> QED  BY <1>4, <1>5 DEF OpenWriteBuff, OpenAllocates

LEMMA OpenPowersOnKeeps ==
    ASSUME IInv, NEW p \in Procs, OpenPowersOn(p)
    PROVE  IInv'
  <1>1. /\ pc[p] = "power_on" /\ Goto(p, "read_thread") /\ powered' = TRUE
        /\ UNCHANGED <<module, card, OpenCtr, mutex, memory, thread>>
    BY DEF OpenPowersOn
  <1>2. pc[p] \notin Outside /\ Opening(Resources, FALSE) /\ Quiet /\ Tabled
    BY <1>1, HolderAt, Places DEF At
  <1>3. Handles' = Handles
    BY <1>1, SameHandles DEF IInv, HandleLocations
  <1>4. Accounted' /\ TypeOK'
    BY <1>1, Places DEF IInv, Accounted, TypeOK, Goto, card, memory
  <1>5. At("read_thread")'
    BY <1>1, <1>2, <1>3 DEF At, Opening, Quiet, Tabled, memory
  <1> QED  BY <1>1, <1>2, <1>4, <1>5, InsideStep, Places

LEMMA OpenReadThreadKeeps ==
    ASSUME IInv, NEW p \in Procs, OpenReadThread(p)
    PROVE  IInv'
  <1>1. pc[p] = "read_thread" /\ UNCHANGED <<module, card, OpenCtr, mutex, memory, powered>>
    BY DEF OpenReadThread, OpenStarts
  <1>2. pc[p] \notin Outside /\ Opening(Resources, TRUE) /\ Quiet /\ Tabled
    BY <1>1, HolderAt, Places DEF At
  <1>3. CASE Goto(p, "write_thread") /\ thread' = [thread EXCEPT !["dev_read_thread"] = "running"]
    <2>1. Handles' = Handles
      BY <1>1, <1>3, SameHandles DEF IInv, HandleLocations
    <2>2. /\ thread' \in [Threads -> {"none", "running", "stopping"}]
          /\ thread'["dev_read_thread"] = "running" /\ thread'["dev_write_thread"] = "none"
      BY <1>2, <1>3 DEF IInv, TypeOK, Threads, Quiet
    <2>3. Accounted' /\ TypeOK'
      BY <1>1, <1>3, <2>2, Places DEF IInv, Accounted, TypeOK, Goto, card, memory
    <2>4. At("write_thread")'
      BY <1>1, <1>2, <2>1, <2>2 DEF At, Opening, Tabled, memory
    <2> QED  BY <1>1, <1>2, <1>3, <2>3, <2>4, InsideStep, Places
  <1>4. CASE Goto(p, "exit_power_down") /\ UNCHANGED thread
    <2>1. Handles' = Handles
      BY <1>1, <1>4, SameHandles DEF IInv, HandleLocations
    <2>2. Accounted' /\ TypeOK'
      BY <1>1, <1>4, Places DEF IInv, Accounted, TypeOK, Goto, card, memory
    <2>3. At("exit_power_down")'
      BY <1>1, <1>2, <1>4, <2>1 DEF At, Opening, Quiet, memory
    <2> QED  BY <1>1, <1>2, <1>4, <2>2, <2>3, InsideStep, Places
  <1> QED  BY <1>3, <1>4 DEF OpenReadThread, OpenStarts

LEMMA OpenWriteThreadKeeps ==
    ASSUME IInv, NEW p \in Procs, OpenWriteThread(p)
    PROVE  IInv'
  <1>1. pc[p] = "write_thread" /\ UNCHANGED <<module, card, OpenCtr, mutex, memory, powered>>
    BY DEF OpenWriteThread, OpenStarts
  <1>2. /\ pc[p] \notin Outside /\ Opening(Resources, TRUE) /\ Tabled
        /\ thread["dev_read_thread"] = "running" /\ thread["dev_write_thread"] = "none"
    BY <1>1, HolderAt, Places DEF At
  <1>3. CASE Goto(p, "count") /\ thread' = [thread EXCEPT !["dev_write_thread"] = "running"]
    <2>1. Handles' = Handles
      BY <1>1, <1>3, SameHandles DEF IInv, HandleLocations
    <2>2. /\ thread' \in [Threads -> {"none", "running", "stopping"}]
          /\ \A t \in Threads : thread'[t] = "running"
      BY <1>2, <1>3 DEF IInv, TypeOK, Threads
    <2>3. Accounted' /\ TypeOK'
      BY <1>1, <1>3, <2>2, Places DEF IInv, Accounted, TypeOK, Goto, card, memory
    <2>4. OpenCtr' = Cardinality(Handles')
      BY <1>1, <1>2, <2>1, FS_EmptySet DEF Opening
    <2>5. At("count")'
      BY <1>1, <1>2, <2>2, <2>4 DEF At, Up, Opening, Tabled, memory
    <2> QED  BY <1>1, <1>2, <1>3, <2>3, <2>5, InsideStep, Places
  <1>4. CASE Goto(p, "exit_stop_read_thread") /\ UNCHANGED thread
    <2>1. Handles' = Handles
      BY <1>1, <1>4, SameHandles DEF IInv, HandleLocations
    <2>2. Accounted' /\ TypeOK'
      BY <1>1, <1>4, Places DEF IInv, Accounted, TypeOK, Goto, card, memory
    <2>3. At("exit_stop_read_thread")'
      BY <1>1, <1>2, <1>4, <2>1 DEF At, Opening, Tabled, memory
    <2> QED  BY <1>1, <1>2, <1>4, <2>2, <2>3, InsideStep, Places
  <1> QED  BY <1>3, <1>4 DEF OpenWriteThread, OpenStarts
-------------------------------------------------------------------------------
(* The unwinding of an open, and a close. *)

LEMMA UnwindPowerKeeps ==
    ASSUME IInv, NEW p \in Procs, UnwindPower(p)
    PROVE  IInv'
  <1>1. /\ pc[p] = "exit_power_down" /\ Goto(p, "exit_vfree_cdev_read_buff")
        /\ powered' = FALSE /\ Free({CdevBuff("Tx")})
        /\ UNCHANGED <<module, card, OpenCtr, mutex, thread>>
    BY DEF UnwindPower
  <1>2. pc[p] \notin Outside /\ Opening(Resources, TRUE) /\ Quiet
    BY <1>1, HolderAt, Places DEF At
  <1>3. Handles' = Handles
    BY <1>1, SameHandles DEF IInv, HandleLocations
  <1>4. {CdevBuff("Tx")} \subseteq Resources
    BY Pieces
  <1>5. /\ Accounted' /\ valid' \subseteq Resources /\ live' \in [Resources -> Nat]
        /\ valid' = valid \ {CdevBuff("Tx")} /\ table' \subseteq table
        /\ misfreed' \subseteq misfreed \cup Resources
    BY <1>1, <1>4, FreeAccounts DEF IInv
  <1>6. TypeOK'
    BY <1>1, <1>5, Places DEF IInv, TypeOK, Goto, card
  <1>7. At("exit_vfree_cdev_read_buff")'
    BY <1>1, <1>2, <1>3, <1>5 DEF At, Opening, Quiet
  <1> QED  BY <1>1, <1>2, <1>5, <1>6, <1>7, InsideStep, Places

LEMMA UnwindReadBuffKeeps ==
    ASSUME IInv, NEW p \in Procs, UnwindReadBuff(p)
    PROVE  IInv'
  <1>1. /\ pc[p] = "exit_vfree_cdev_read_buff" /\ Goto(p, "exit_destroy_dma_buffs_tx")
        /\ Free({CdevBuff("Rx")})
        /\ UNCHANGED <<module, card, OpenCtr, mutex, thread, powered>>
    BY DEF UnwindReadBuff, UnwindFrees
  <1>2. pc[p] \notin Outside /\ Opening(Resources \ {CdevBuff("Tx")}, FALSE) /\ Quiet
    BY <1>1, HolderAt, Places DEF At
  <1>3. Handles' = Handles
    BY <1>1, SameHandles DEF IInv, HandleLocations
  <1>4. /\ {CdevBuff("Rx")} \subseteq Resources
        /\ (Resources \ {CdevBuff("Tx")}) \ {CdevBuff("Rx")}
              = RingPieces("Rx") \cup RingPieces("Tx")
    BY Pieces DEF Rings
  <1>5. /\ Accounted' /\ valid' \subseteq Resources /\ live' \in [Resources -> Nat]
        /\ valid' = valid \ {CdevBuff("Rx")} /\ table' \subseteq table
        /\ misfreed' \subseteq misfreed \cup Resources
    BY <1>1, <1>4, FreeAccounts DEF IInv
  <1>6. TypeOK'
    BY <1>1, <1>5, Places DEF IInv, TypeOK, Goto, card
  <1>7. At("exit_destroy_dma_buffs_tx")'
    BY <1>1, <1>2, <1>3, <1>4, <1>5 DEF At, Opening, Quiet
  <1> QED  BY <1>1, <1>2, <1>5, <1>6, <1>7, InsideStep, Places

LEMMA UnwindTxBuffsKeeps ==
    ASSUME IInv, NEW p \in Procs, UnwindTxBuffs(p)
    PROVE  IInv'
  <1>1. /\ pc[p] = "exit_destroy_dma_buffs_tx" /\ Goto(p, "exit_destroy_dma_buffs_rx")
        /\ Free(Destroyed("Tx", "Rx"))
        /\ UNCHANGED <<module, card, OpenCtr, mutex, thread, powered>>
    BY DEF UnwindTxBuffs, UnwindFrees
  <1>2. /\ pc[p] \notin Outside /\ Quiet
        /\ Opening(RingPieces("Rx") \cup RingPieces("Tx"), FALSE)
    BY <1>1, HolderAt, Places DEF At
  <1>3. Handles' = Handles
    BY <1>1, SameHandles DEF IInv, HandleLocations
  <1>4. /\ Destroyed("Tx", "Rx") \subseteq Resources
        /\ (RingPieces("Rx") \cup RingPieces("Tx")) \ Destroyed("Tx", "Rx")
              = (RingPieces("Rx") \ Addresses("Rx")) \cup Addresses("Tx")
    BY Pieces DEF Rings
  <1>5. /\ Accounted' /\ valid' \subseteq Resources /\ live' \in [Resources -> Nat]
        /\ valid' = valid \ Destroyed("Tx", "Rx") /\ table' \subseteq table
        /\ misfreed' \subseteq misfreed \cup Resources
    BY <1>1, <1>4, FreeAccounts DEF IInv
  <1>6. TypeOK'
    BY <1>1, <1>5, Places DEF IInv, TypeOK, Goto, card
  <1>7. At("exit_destroy_dma_buffs_rx")'
    BY <1>1, <1>2, <1>3, <1>4, <1>5 DEF At, Opening, Quiet
  <1> QED  BY <1>1, <1>2, <1>5, <1>6, <1>7, InsideStep, Places

LEMMA UnwindRxBuffsKeeps ==
    ASSUME IInv, NEW p \in Procs, UnwindRxBuffs(p)
    PROVE  IInv'
  <1>1. /\ pc[p] = "exit_destroy_dma_buffs_rx" /\ Goto(p, "exit_func")
        /\ Free(RingPieces("Rx"))
        /\ UNCHANGED <<module, card, OpenCtr, mutex, thread, powered>>
    BY Pieces DEF UnwindRxBuffs, UnwindFrees, Rings
  <1>2. /\ pc[p] \notin Outside /\ Quiet
        /\ \/ Opening(RingPieces("Rx"), FALSE)
           \/ Opening((RingPieces("Rx") \ Addresses("Rx")) \cup Addresses("Tx"), FALSE)
    BY <1>1, HolderAt, Places DEF At
  <1>3. Handles' = Handles
    BY <1>1, SameHandles DEF IInv, HandleLocations
  <1>4. RingPieces("Rx") \subseteq Resources
    BY Pieces
  <1>5. /\ Accounted' /\ valid' \subseteq Resources /\ live' \in [Resources -> Nat]
        /\ valid' = valid \ RingPieces("Rx") /\ table' \subseteq table
        /\ misfreed' = misfreed \cup (RingPieces("Rx") \ valid)
        /\ misfreed' \subseteq misfreed \cup Resources
    BY <1>1, <1>4, FreeAccounts DEF IInv
  <1>6. TypeOK'
    BY <1>1, <1>5, Places DEF IInv, TypeOK, Goto, card
  <1>7. /\ Addresses("Rx") \subseteq RingPieces("Rx") /\ Addresses("Rx") # {}
        /\ Addresses("Tx") \subseteq RingPieces("Tx")
        /\ RingPieces("Rx") \cap RingPieces("Tx") = {}
    BY Pieces DEF Rings, Addresses
  <1>8. CASE Opening(RingPieces("Rx"), FALSE)
    <2>1. valid' = {}
      BY <1>5, <1>8 DEF Opening
    <2>2. At("exit_func")'
      BY <1>1, <1>2, <1>3, <1>8, <2>1 DEF At, Opening, Quiet
    <2> QED  BY <1>1, <1>2, <1>5, <1>6, <2>2, InsideStep, Places
  <1>9. CASE Opening((RingPieces("Rx") \ Addresses("Rx")) \cup Addresses("Tx"), FALSE)
    <2>1. valid' = Addresses("Tx") /\ misfreed' # {}
      BY <1>5, <1>7, <1>9 DEF Opening
    <2>2. At("exit_func")'
      BY <1>1, <1>2, <1>3, <1>9, <2>1 DEF At, Opening, Quiet
    <2> QED  BY <1>1, <1>2, <1>5, <1>6, <2>2, InsideStep, Places
  <1> QED  BY <1>2, <1>8, <1>9

LEMMA StopAskedKeeps ==
    ASSUME IInv, NEW p \in Procs, StopAsked(p)
    PROVE  IInv'
  <1> DEFINE Asks(l, t) == /\ pc[p] = l /\ thread' = [thread EXCEPT ![t] = "stopping"]
                           /\ UNCHANGED <<module, card, OpenCtr, mutex, pc, memory, powered>>
  <1>1. \/ Asks("stop_read_thread", "dev_read_thread")
        \/ Asks("stop_write_thread", "dev_write_thread")
        \/ Asks("exit_stop_read_thread", "dev_read_thread")
    BY DEF StopAsked, StopRequest
  <1>2. ASSUME NEW l \in {"stop_read_thread", "stop_write_thread", "exit_stop_read_thread"},
               NEW t \in Threads, Asks(l, t),
               l = "stop_write_thread" <=> t = "dev_write_thread"
        PROVE  IInv'
    <2>1. At(l) /\ pc[p] \notin Outside /\ Goto(p, l)
      BY <1>2, HolderAt, Places DEF IInv, TypeOK, Goto
    <2>2. thread' \in [Threads -> {"none", "running", "stopping"}]
          /\ \A u \in Threads : u # t => thread'[u] = thread[u]
      BY <1>2 DEF IInv, TypeOK
    <2>3. Handles' = Handles
      BY <1>2 DEF Handles
    <2>4. Accounted' /\ TypeOK'
      BY <1>2, <2>2 DEF IInv, Accounted, TypeOK, card, memory
    <2>5. At(l)'
      BY <1>2, <2>1, <2>2, <2>3 DEF At, Opening, Tabled, memory, Threads
    <2> QED  BY <1>2, <2>1, <2>4, <2>5, InsideStep, Places
  <1> QED  BY <1>1, <1>2 DEF Threads

LEMMA StopDoneKeeps ==
    ASSUME IInv, NEW p \in Procs, StopDone(p)
    PROVE  IInv'
  <1> DEFINE Waits(l, t, k) ==
               /\ pc[p] = l /\ thread[t] = "none" /\ Goto(p, k)
               /\ UNCHANGED <<module, card, OpenCtr, mutex, memory, thread, powered>>
  <1>1. \/ Waits("stop_read_thread", "dev_read_thread", "stop_write_thread")
        \/ Waits("stop_write_thread", "dev_write_thread", "shut_down")
        \/ Waits("exit_stop_read_thread", "dev_read_thread", "exit_power_down")
    BY DEF StopDone, StopWaits
  <1>2. ASSUME NEW l \in {"stop_read_thread", "stop_write_thread", "exit_stop_read_thread"},
               NEW t \in Threads,
               NEW k \in {"stop_write_thread", "shut_down", "exit_power_down"}, Waits(l, t, k),
               \/ l = "stop_read_thread" /\ t = "dev_read_thread" /\ k = "stop_write_thread"
               \/ l = "stop_write_thread" /\ t = "dev_write_thread" /\ k = "shut_down"
               \/ l = "exit_stop_read_thread" /\ t = "dev_read_thread" /\ k = "exit_power_down"
        PROVE  IInv'
    <2>1. At(l) /\ pc[p] \notin Outside
      BY <1>2, HolderAt, Places
    <2>2. Handles' = Handles
      BY <1>2, SameHandles DEF IInv, HandleLocations
    <2>3. Accounted' /\ TypeOK'
      BY <1>2, Places DEF IInv, Accounted, TypeOK, Goto, card, memory
    <2>4. At(k)'
      BY <1>2, <2>1, <2>2 DEF At, Opening, Tabled, Quiet, memory, Threads
    <2> QED  BY <1>2, <2>1, <2>3, <2>4, InsideStep, Places
  <1> QED  BY <1>1, <1>2 DEF Threads

LEMMA CloseShutsDownKeeps ==
    ASSUME IInv, NEW p \in Procs, CloseShutsDown(p)
    PROVE  IInv'
  <1>1. {CdevBuff(ring) : ring \in Rings} \cup Destroyed("Tx", "Tx") \cup Destroyed("Rx", "Rx")
          = Resources
    BY Pieces DEF Rings
  <1>2. /\ pc[p] = "shut_down" /\ powered' = FALSE /\ Free(Resources) /\ Goto(p, "uncount")
        /\ UNCHANGED <<module, card, OpenCtr, mutex, thread>>
    BY <1>1 DEF CloseShutsDown
  <1>3. /\ pc[p] \notin Outside /\ Quiet
        /\ OpenCtr = 1 /\ Handles = {} /\ valid = Resources
    BY <1>2, HolderAt, Places DEF At
  <1>4. Handles' = Handles
    BY <1>2, SameHandles DEF IInv, HandleLocations
  <1>5. /\ Accounted' /\ valid' \subseteq Resources /\ live' \in [Resources -> Nat]
        /\ valid' = {} /\ table' \subseteq table
        /\ misfreed' \subseteq misfreed \cup Resources
    BY <1>2, <1>3, FreeAccounts DEF IInv
  <1>6. TypeOK'
    BY <1>2, <1>5, Places DEF IInv, TypeOK, Goto, card
  <1>7. OpenCtr' = Cardinality(Handles') + 1
    BY <1>2, <1>3, <1>4, FS_EmptySet
  <1>8. At("uncount")'
    BY <1>2, <1>3, <1>4, <1>5, <1>7 DEF At, Down, Quiet
  <1> QED  BY <1>2, <1>3, <1>5, <1>6, <1>8, InsideStep, Places
-------------------------------------------------------------------------------
(* Leaving and entering the critical section. *)

LEMMA FiniteHandles ==
    ASSUME IInv
    PROVE  IsFiniteSet(Handles) /\ Cardinality(Handles) \in Nat
  <1>1. IsFiniteSet(Handles)
    BY LifecycleAssumption, FS_Subset DEF Handles
  <1> QED  BY <1>1, FS_CardinalityType

\* The holder leaves and unlocks the mutex.
LEMMA Unlocks ==
    ASSUME IInv, NEW p \in Procs, pc[p] \notin Outside, pc[p] # "crashed",
           NEW l \in Outside, Goto(p, l), mutex' = {}, OpenCtr' \in Nat,
           UNCHANGED <<module, card, memory, thread, powered>>,
           OpenCtr' = Cardinality(Handles)', IF Handles' = {} THEN Down ELSE Up
    PROVE  IInv'
  <1> USE DEF IInv
  <1>1. mutex = {p} /\ \A q \in Procs : pc[q] \notin Outside => q = p
    BY DEF Held, TypeOK
  <1>2. pc'[p] = l /\ \A q \in Procs : q # p => pc'[q] = pc[q]
    BY DEF Goto, TypeOK
  <1>3. Accounted'
    BY DEF Accounted, memory
  <1>4. TypeOK'
    <2>1. mutex' \subseteq Procs /\ Cardinality(mutex') <= 1
      BY FS_EmptySet
    <2>2. pc' \in [Procs -> Locations]
      BY DEF TypeOK, Goto, Outside, HandleLocations, Locations
    <2> QED  BY <2>1, <2>2 DEF TypeOK, card, memory
  <1>5. Held'
    BY <1>1, <1>2 DEF Held
  <1>6. Unlocked' /\ Lost'
    BY DEF Unlocked, Lost, Down, Up, Quiet, memory
  <1>7. Loading' /\ Carded'
    BY <1>1, <1>2 DEF Loading, Carded, Outside, HandleLocations, card
  <1> QED  BY <1>3, <1>4, <1>5, <1>6, <1>7

LEMMA OpenReturnsKeeps ==
    ASSUME IInv, NEW p \in Procs, OpenReturns(p)
    PROVE  IInv'
  <1>1. /\ pc[p] = "count" /\ Goto(p, "open") /\ OpenCtr' = OpenCtr + 1 /\ mutex' = {}
        /\ UNCHANGED <<module, card, memory, thread, powered>>
    BY DEF OpenReturns
  <1>2. pc[p] \notin Outside /\ OpenCtr = Cardinality(Handles) /\ Up
    BY <1>1, HolderAt, Places DEF At
  <1>3. Handles' = Handles \cup {p} /\ p \notin Handles
    BY <1>1 DEF Handles, Goto, IInv, TypeOK
  <1>4. Cardinality(Handles)' = OpenCtr + 1
    BY <1>2, <1>3, FiniteHandles, FS_AddElement
  <1>5. OpenCtr' \in Nat /\ OpenCtr' = Cardinality(Handles)' /\ Handles' # {}
    BY <1>1, <1>3, <1>4 DEF IInv, TypeOK
  <1> QED  BY <1>1, <1>2, <1>5, Unlocks DEF Outside, HandleLocations

LEMMA CloseReturnsKeeps ==
    ASSUME IInv, NEW p \in Procs, CloseReturns(p)
    PROVE  IInv'
  <1>1. /\ pc[p] = "uncount" /\ Goto(p, "closed") /\ OpenCtr' = OpenCtr - 1 /\ mutex' = {}
        /\ UNCHANGED <<module, card, memory, thread, powered>>
    BY DEF CloseReturns
  <1>2. /\ pc[p] \notin Outside /\ OpenCtr = Cardinality(Handles) + 1
        /\ IF Handles = {} THEN Down ELSE Up
    BY <1>1, HolderAt, Places DEF At
  <1>3. Handles' = Handles
    BY <1>1, SameHandles DEF IInv, HandleLocations
  <1>4. OpenCtr' = Cardinality(Handles)'
    BY <1>1, <1>2, <1>3, FiniteHandles
  <1>5. OpenCtr' \in Nat
    BY <1>3, <1>4, FiniteHandles
  <1> QED  BY <1>1, <1>2, <1>3, <1>4, <1>5, Unlocks DEF Outside, HandleLocations

LEMMA OpenFailsKeeps ==
    ASSUME IInv, NEW p \in Procs, OpenFails(p)
    PROVE  IInv'
  <1> USE DEF IInv
  <1>1. /\ pc[p] = "exit_func" /\ Goto(p, "closed")
        /\ UNCHANGED <<module, card, OpenCtr, mutex, memory, thread, powered>>
    BY DEF OpenFails
  <1>2. /\ mutex = {p} /\ pc[p] \notin Outside /\ Quiet
        /\ Opening({}, FALSE) \/ (Opening(Addresses("Tx"), FALSE) /\ misfreed # {})
    BY <1>1, HolderAt, Places DEF At
  <1>3. \A q \in Procs : pc[q] \notin Outside => q = p
    BY <1>2 DEF Held, TypeOK
  <1>4. pc'[p] = "closed" /\ \A q \in Procs : q # p => pc'[q] = pc[q]
    BY <1>1 DEF Goto, TypeOK
  <1>5. Handles' = Handles
    BY <1>1, SameHandles DEF HandleLocations
  <1>6. Accounted' /\ TypeOK'
    BY <1>1, <1>4 DEF Accounted, TypeOK, Goto, Locations, card, memory
  <1>7. Held'
    BY <1>3, <1>4 DEF Held, Outside
  <1>8. Unlocked' /\ Lost'
    BY <1>1, <1>2, <1>4, <1>5 DEF Unlocked, Lost, Opening, Quiet, memory
  <1>9. Loading' /\ Carded'
    BY <1>1, <1>4 DEF Loading, Carded, card
  <1> QED  BY <1>6, <1>7, <1>8, <1>9

\* A process takes the free mutex and enters the driver.
LEMMA Enters ==
    ASSUME IInv, NEW p \in Procs, mutex = {}, pc[p] \in {"open_lock", "close_lock"},
           NEW l \in Locations \ Outside, Goto(p, l), mutex' = {p},
           UNCHANGED <<module, card, OpenCtr, memory, thread, powered>>,
           At(l)', IF l = "crashed" THEN settings # "valid" ELSE settings = "valid"
    PROVE  IInv'
  <1> USE DEF IInv
  <1>1. \A q \in Procs : pc[q] \in Outside
    BY DEF Held, TypeOK
  <1>2. pc'[p] = l /\ \A q \in Procs : q # p => pc'[q] = pc[q]
    BY DEF Goto, TypeOK
  <1>3. Accounted'
    BY DEF Accounted, memory
  <1>4. TypeOK'
    <2>1. mutex' \subseteq Procs /\ Cardinality(mutex') <= 1
      BY FS_Singleton, SMTT(60)
    <2>2. pc' \in [Procs -> Locations]
      BY DEF TypeOK, Goto
    <2> QED  BY <2>1, <2>2 DEF TypeOK, card, memory
  <1>5. Held'
    <2>1. SUFFICES ASSUME NEW q \in Procs, NEW k \in Locations \ Outside, pc'[q] = k
                   PROVE  mutex' = {q} /\ At(k)'
      BY DEF Held, Outside, HandleLocations
    <2>2. q = p /\ k = l
      BY <1>1, <1>2, <2>1
    <2> QED  BY <2>2
  <1>6. Unlocked' /\ Lost'
    BY <1>2 DEF Unlocked, Lost
  <1>7. Loading' /\ Carded'
    BY <1>2 DEF Loading, Carded, card
  <1> QED  BY <1>3, <1>4, <1>5, <1>6, <1>7

LEMMA OpenLockKeeps ==
    ASSUME IInv, NEW p \in Procs, OpenLock(p)
    PROVE  IInv'
  <1> USE DEF IInv
  <1>1. /\ pc[p] = "open_lock" /\ mutex = {} /\ mutex' = {p}
        /\ UNCHANGED <<module, card, OpenCtr, memory, thread, powered>>
    BY DEF OpenLock
  <1>2. module = "loaded" /\ IF Handles = {} THEN Down ELSE Up
    BY <1>1 DEF Loading, Unlocked
  <1>3. CASE settings # "valid" /\ Goto(p, "crashed")
    <2>1. Handles = {} /\ Handles' = {}
      BY <1>3, SameHandles, <1>1 DEF Carded, Handles, HandleLocations
    <2>2. At("crashed")'
      BY <1>1, <1>2, <2>1 DEF At, Down, Quiet, memory
    <2> QED  BY <1>1, <1>3, <2>2, Enters, Places
  <1>4. CASE settings = "valid" /\ OpenCtr # 0 /\ Goto(p, "count")
    <2>1. OpenCtr = Cardinality(Handles)
      BY <1>1, <1>2, <1>4 DEF Unlocked
    <2>2. Handles # {}
      BY <1>4, <2>1, FS_EmptySet
    <2>3. Handles' = Handles
      BY <1>1, <1>4, SameHandles DEF HandleLocations
    <2>4. At("count")'
      BY <1>1, <1>2, <2>1, <2>2, <2>3 DEF At, Up, memory
    <2> QED  BY <1>1, <1>4, <2>4, Enters, Places
  <1>5. CASE settings = "valid" /\ OpenCtr = 0 /\ Goto(p, "rx_buffs")
    <2>1. OpenCtr = Cardinality(Handles)
      BY <1>1, <1>2, <1>5 DEF Unlocked
    <2>2. Handles = {}
      BY <1>5, <2>1, FiniteHandles, FS_EmptySet
    <2>3. Handles' = Handles
      BY <1>1, <1>5, SameHandles DEF HandleLocations
    <2>4. At("rx_buffs")'
      BY <1>1, <1>2, <1>5, <2>2, <2>3 DEF At, Opening, Down, Quiet, memory
    <2> QED  BY <1>1, <1>5, <2>4, Enters, Places
  <1>6. \/ settings # "valid" /\ Goto(p, "crashed")
        \/ settings = "valid" /\ OpenCtr # 0 /\ Goto(p, "count")
        \/ settings = "valid" /\ OpenCtr = 0 /\ Goto(p, "rx_buffs")
    BY DEF OpenLock
  <1> QED  BY <1>3, <1>4, <1>5, <1>6

LEMMA CloseLockKeeps ==
    ASSUME IInv, NEW p \in Procs, CloseLock(p)
    PROVE  IInv'
  <1> USE DEF IInv
  <1>1. /\ pc[p] = "close_lock" /\ mutex = {} /\ mutex' = {p}
        /\ UNCHANGED <<module, card, OpenCtr, memory, thread, powered>>
    BY DEF CloseLock
  <1>2. p \in Handles /\ module = "loaded" /\ settings = "valid"
    BY <1>1 DEF Handles, Loading, Carded
  <1>3. OpenCtr = Cardinality(Handles) /\ Up
    BY <1>1, <1>2 DEF Unlocked
  <1>4. ASSUME NEW l \in {"uncount", "stop_read_thread"}, Goto(p, l)
        PROVE  /\ Handles' = Handles \ {p} /\ IsFiniteSet(Handles')
               /\ Cardinality(Handles)' = OpenCtr - 1
    <2>1. Handles' = Handles \ {p}
      BY <1>1, <1>4 DEF Handles, Goto, TypeOK
    <2> QED  BY <1>2, <1>3, <2>1, FiniteHandles, FS_RemoveElement
  <1>5. CASE OpenCtr > 1 /\ Goto(p, "uncount")
    <2>1. Cardinality(Handles)' = OpenCtr - 1 /\ IsFiniteSet(Handles')
      BY <1>4, <1>5
    <2>2. Handles' # {}
      BY <1>5, <2>1, FS_EmptySet DEF TypeOK
    <2>3. OpenCtr' = Cardinality(Handles)' + 1
      BY <1>1, <2>1 DEF TypeOK
    <2>4. At("uncount")'
      BY <1>1, <1>3, <2>2, <2>3 DEF At, Up, memory
    <2> QED  BY <1>1, <1>2, <1>5, <2>4, Enters, Places
  <1>6. CASE ~(OpenCtr > 1) /\ Goto(p, "stop_read_thread")
    <2>1. Cardinality(Handles)' = OpenCtr - 1 /\ IsFiniteSet(Handles')
      BY <1>4, <1>6
    <2>2. Cardinality(Handles)' \in Nat
      BY <2>1, FS_CardinalityType
    <2>3. OpenCtr = 1
      BY <1>6, <2>1, <2>2 DEF TypeOK
    <2>4. Handles' = {}
      BY <2>1, <2>3, FS_EmptySet
    <2>5. At("stop_read_thread")'
      BY <1>1, <1>3, <2>3, <2>4 DEF At, Up, Tabled, memory, Threads
    <2> QED  BY <1>1, <1>2, <1>6, <2>5, Enters, Places
  <1> QED  BY <1>5, <1>6 DEF CloseLock
-------------------------------------------------------------------------------
(* The steps outside the critical section, of the threads and of the loader. *)

LEMMA OutsideKeeps ==
    ASSUME IInv, EarlyOpen = FALSE, NEW p \in Procs,
           OpenCall(p) \/ CallBegins(p) \/ CallEnds(p) \/ CloseCall(p)
    PROVE  IInv'
  <1>1. CASE OpenCall(p)
    BY <1>1, OutsideStep DEF OpenCall, Outside, HandleLocations
  <1>2. CASE CallBegins(p)
    BY <1>2, OutsideStep DEF CallBegins, Outside, HandleLocations
  <1>3. CASE CallEnds(p)
    BY <1>3, OutsideStep DEF CallEnds, Outside, HandleLocations
  <1>4. CASE CloseCall(p)
    BY <1>4, OutsideStep DEF CloseCall, Outside, HandleLocations
  <1> QED  BY <1>1, <1>2, <1>3, <1>4

LEMMA ThreadExitsKeeps ==
    ASSUME IInv, NEW t \in Threads, ThreadExits(t)
    PROVE  IInv'
  <1> USE DEF IInv
  <1>1. /\ thread[t] = "stopping" /\ thread' = [thread EXCEPT ![t] = "none"]
        /\ UNCHANGED <<module, card, OpenCtr, mutex, pc, memory, powered>>
    BY DEF ThreadExits
  <1>2. ~Quiet /\ ~Up
    BY <1>1 DEF Quiet, Up
  <1>3. mutex # {}
    BY <1>2 DEF Unlocked, Down
  <1>4. PICK p \in Procs : p \in mutex
    BY <1>3 DEF TypeOK
  <1>5. pc[p] \notin Outside /\ pc[p] \in Locations
    BY <1>2, <1>4 DEF Lost, TypeOK
  <1>6. PICK l \in Locations \ Outside : pc[p] = l
    BY <1>5
  <1>7. At(l)
    BY <1>6 DEF Held
  <1>8. \/ l = "stop_read_thread" /\ t = "dev_read_thread"
        \/ l = "stop_write_thread" /\ t = "dev_write_thread"
        \/ l = "exit_stop_read_thread" /\ t = "dev_read_thread"
    BY <1>1, <1>2, <1>7
       DEF At, Down, Opening, Locations, FallibleSteps, Outside, HandleLocations, Threads
  <1>9. /\ thread' \in [Threads -> {"none", "running", "stopping"}]
        /\ \A u \in Threads : u # t => thread'[u] = thread[u]
        /\ thread'[t] = "none"
    BY <1>1 DEF TypeOK
  <1>10. Handles' = Handles
    BY <1>1 DEF Handles
  <1>11. Accounted' /\ TypeOK'
    BY <1>1, <1>9 DEF Accounted, TypeOK, card, memory
  <1>12. At(l)'
    BY <1>1, <1>7, <1>8, <1>9, <1>10 DEF At, Opening, Tabled, memory, Threads
  <1>13. Goto(p, l)
    BY <1>1, <1>6 DEF Goto, TypeOK
  <1> QED  BY <1>1, <1>5, <1>6, <1>8, <1>11, <1>12, <1>13, InsideStep

\* Before the module is loaded, and when it can be unloaded, nothing goes on.
LEMMA NothingGoesOn ==
    ASSUME IInv, \A p \in Procs : pc[p] = "closed"
    PROVE  /\ Handles = {} /\ Quiet /\ ~powered
           /\ valid = {} \/ (valid = Addresses("Tx") /\ misfreed # {})
           /\ mutex = {} => valid = {}
  <1>1. Handles = {}
    BY DEF Handles
  <1>2. CASE mutex = {}
    BY <1>1, <1>2 DEF IInv, Unlocked, Down
  <1>3. CASE mutex # {}
    BY <1>1, <1>3 DEF IInv, Lost, Outside, TypeOK
  <1> QED  BY <1>1, <1>2, <1>3

LEMMA ProbeIsWhole ==
    ASSUME Probe
    PROVE  IF settings' = "valid" THEN held' = Card ELSE held' = {}
  <1>1. CASE ProbeSucceeds
    BY <1>1 DEF ProbeSucceeds
  <1>2. ASSUME NEW n \in LoadMayFail \ {0}, ProbeFails(n)
        PROVE  held' = {} /\ settings' # "valid"
    <2>1. n \in 1 .. Len(ProbeSteps)
      BY LifecycleAssumption DEF ProbeSteps
    <2>2. HeldAfterFailure(n) = {}
      BY <2>1, NothingHeldAfterFailure
    <2> QED  BY <1>2, <2>2 DEF ProbeFails, SettingsAfterFailure
  <1> QED  BY <1>1, <1>2 DEF Probe

LEMMA ProbeKeeps ==
    ASSUME IInv, Probe
    PROVE  IInv'
  <1> USE DEF IInv
  <1>1. /\ module = "unloaded" /\ module' = "probed"
        /\ UNCHANGED <<mutex, pc, memory, thread>>
    BY DEF Probe
  <1>2. mutex = {} /\ \A p \in Procs : pc[p] = "closed"
    BY <1>1 DEF Loading
  <1>3. Handles = {} /\ Quiet /\ ~powered /\ valid = {} /\ Handles' = {}
    BY <1>1, <1>2, NothingGoesOn DEF Handles
  <1>4. /\ IF settings' = "valid" THEN held' = Card ELSE held' = {}
        /\ settings' \in {"null", "valid", "dangling"}
        /\ OpenCtr' \in Nat /\ powered' = FALSE
    BY <1>3, ProbeIsWhole, LifecycleAssumption
       DEF Probe, ProbeSucceeds, ProbeFails, SettingsAfterFailure, TypeOK
  <1>5. TypeOK' /\ Accounted'
    BY <1>1, <1>4 DEF TypeOK, Accounted, memory
  <1>6. Held' /\ Lost'
    BY <1>1, <1>2 DEF Held, Lost, Outside
  <1>7. Unlocked'
    BY <1>1, <1>3, <1>4 DEF Unlocked, Down, Quiet, memory
  <1>8. Loading' /\ Carded'
    BY <1>1, <1>2, <1>4 DEF Loading, Carded
  <1> QED  BY <1>5, <1>6, <1>7, <1>8

LEMMA LoadKeeps ==
    ASSUME IInv, CdevAdd \/ ResetOpenCtr
    PROVE  IInv'
  <1> USE DEF IInv
  <1>1. /\ module \in {"probed", "live"} /\ module' \in {"live", "loaded"}
        /\ UNCHANGED <<card, mutex, pc, memory, thread, powered>>
        /\ OpenCtr' \in Nat
        /\ module' = "loaded" /\ settings = "valid" => OpenCtr' = 0
    BY DEF CdevAdd, ResetOpenCtr, TypeOK
  <1>2. mutex = {} /\ \A p \in Procs : pc[p] = "closed"
    BY <1>1 DEF Loading
  <1>3. Handles = {} /\ Quiet /\ ~powered /\ valid = {} /\ Handles' = {}
    BY <1>1, <1>2, NothingGoesOn DEF Handles
  <1>4. TypeOK' /\ Accounted'
    BY <1>1 DEF TypeOK, Accounted, memory, card
  <1>5. Held' /\ Lost'
    BY <1>1, <1>2 DEF Held, Lost, Outside
  <1>6. Unlocked'
    BY <1>1, <1>3, FS_EmptySet DEF Unlocked, Down, Quiet, memory, card
  <1>7. Loading' /\ Carded'
    BY <1>1, <1>2 DEF Loading, Carded, card
  <1> QED  BY <1>4, <1>5, <1>6, <1>7

LEMMA UnloadKeeps ==
    ASSUME IInv, CdevFails \/ Unload
    PROVE  IInv'
  <1> USE DEF IInv
  <1>1. \A p \in Procs : pc[p] = "closed"
    BY DEF CdevFails, Unload, Loading
  <1>2. /\ module' = "unloaded" /\ held' = {} /\ settings' = "null"
        /\ mutex' = {} /\ valid' = {} /\ table' = {}
        /\ UNCHANGED <<OpenCtr, pc, live, misfreed, thread, powered>>
    BY DEF CdevFails, Unload, Unloaded
  <1>3. /\ Handles = {} /\ Quiet /\ ~powered /\ Handles' = {}
        /\ valid = {} \/ (valid = Addresses("Tx") /\ misfreed # {})
    BY <1>1, <1>2, NothingGoesOn DEF Handles
  <1>4. TypeOK'
    <2>1. mutex' \in SUBSET Procs /\ Cardinality(mutex') <= 1
      <3>1. Cardinality({}) = 0
        BY FS_EmptySet
      <3> QED  BY <1>2, <3>1
    <2> QED  BY <1>2, <2>1 DEF TypeOK
  <1>5. Accounted'
    <2>1. ASSUME NEW r \in Resources, live[r] > 0
          PROVE  misfreed # {} /\ r \in MayLeak
      BY <1>3, <2>1, Pieces DEF Accounted
    <2> QED  BY <1>2, <2>1 DEF Accounted, TypeOK
  <1>6. Held' /\ Lost'
    BY <1>1, <1>2 DEF Held, Lost, Outside
  <1>7. Unlocked'
    BY <1>2, <1>3 DEF Unlocked, Down, Quiet
  <1>8. Loading' /\ Carded'
    BY <1>1, <1>2 DEF Loading, Carded, Card
  <1> QED  BY <1>4, <1>5, <1>6, <1>7, <1>8
-------------------------------------------------------------------------------
(* The invariant, and what follows from it. *)

LEMMA InitIInv == Init => IInv
  <1> SUFFICES ASSUME Init PROVE IInv
    OBVIOUS
  <1>1. Handles = {}
    BY DEF Init, Handles
  <1>2. TypeOK
    <2>1. mutex \in SUBSET Procs /\ Cardinality(mutex) <= 1
      <3>1. Cardinality({}) = 0
        BY FS_EmptySet
      <3> QED  BY <3>1 DEF Init
    <2>2. pc \in [Procs -> Locations]
      BY DEF Init, Locations
    <2> QED  BY <2>1, <2>2 DEF Init, TypeOK
  <1>3. Held /\ Lost /\ Loading
    BY DEF Init, Held, Lost, Loading, Outside
  <1>4. Unlocked
    BY <1>1 DEF Init, Unlocked, Down, Quiet
  <1>5. Carded /\ Accounted
    BY DEF Init, Carded, Accounted
  <1> QED  BY <1>2, <1>3, <1>4, <1>5 DEF IInv

LEMMA NextIInv ==
    ASSUME IInv, EarlyOpen = FALSE, [Next]_vars
    PROVE  IInv'
  <1>1. ASSUME NEW p \in Procs, Proceeds(p)
        PROVE  IInv'
    BY <1>1, OpenRxBuffsKeeps, OpenTxBuffsKeeps, OpenWritesTableKeeps, OpenReadBuffKeeps,
       OpenWriteBuffKeeps, OpenPowersOnKeeps, OpenReadThreadKeeps, OpenWriteThreadKeeps,
       OpenReturnsKeeps, UnwindPowerKeeps, UnwindReadBuffKeeps, UnwindTxBuffsKeeps,
       UnwindRxBuffsKeeps, OpenFailsKeeps, StopAskedKeeps, StopDoneKeeps,
       CloseShutsDownKeeps, CloseReturnsKeeps
       DEF Proceeds
  <1>2. CASE Loader \/ Unload
    BY <1>2, ProbeKeeps, LoadKeeps, UnloadKeeps DEF Loader
  <1>3. ASSUME NEW p \in Procs,
               \/ OpenCall(p) \/ CallBegins(p) \/ CallEnds(p) \/ CloseCall(p)
               \/ OpenLock(p) \/ CloseLock(p)
        PROVE  IInv'
    BY <1>3, OutsideKeeps, OpenLockKeeps, CloseLockKeeps
  <1>4. ASSUME NEW t \in Threads, ThreadExits(t)
        PROVE  IInv'
    BY <1>4, ThreadExitsKeeps
  <1>5. CASE UNCHANGED vars
    <2> USE <1>5 DEF vars, memory, card
    <2>1. Handles' = Handles
      BY DEF Handles
    <2>2. (Quiet <=> Quiet') /\ (Down <=> Down') /\ (Up <=> Up')
      BY DEF Quiet, Down, Up
    <2>3. ASSUME NEW l \in Locations, At(l)
          PROVE  At(l)'
      BY <2>1, <2>2, <2>3 DEF At, Opening, Tabled
    <2>4. TypeOK' /\ Accounted' /\ Loading' /\ Carded'
      BY DEF IInv, TypeOK, Accounted, Loading, Carded
    <2>5. Held'
      BY <2>3 DEF IInv, Held
    <2>6. Unlocked' /\ Lost'
      BY <2>1, <2>2 DEF IInv, Unlocked, Lost
    <2> QED  BY <2>4, <2>5, <2>6 DEF IInv
  <1> QED  BY <1>1, <1>2, <1>3, <1>4, <1>5 DEF Next

LEMMA Invariance ==
    ASSUME EarlyOpen = FALSE
    PROVE  Spec => []IInv
  <1>1. IInv /\ [Next]_vars => IInv'
    BY NextIInv
  <1> QED  BY <1>1, InitIInv, PTL DEF Spec

\* langford.h, DevPrivData: every process is at a location of cdev_open, cdev_release
\* or dev_probe, at most one of them owns cdev_open_close_mutex, and the driver counts,
\* allocates, maps and frees nothing but its own resources.
THEOREM TypesCorrect ==
    ASSUME EarlyOpen = FALSE
    PROVE  Spec => []TypeOK
  <1>1. IInv => TypeOK
    BY DEF IInv
  <1> QED  BY <1>1, Invariance, PTL

\* langford.h:51: when no open or close is in progress, OpenCtr is the number of
\* open handles.
THEOREM HandlesAreCounted ==
    ASSUME EarlyOpen = FALSE
    PROVE  Spec => []HandlesCounted
  <1>1. IInv => HandlesCounted
    BY DEF IInv, Unlocked, HandlesCounted
  <1> QED  BY <1>1, Invariance, PTL

\* Whoever is inside a read, a write or an ioctl finds both threads running, every
\* buffer allocated and the radio powered.
THEOREM CallsFindAll ==
    ASSUME EarlyOpen = FALSE
    PROVE  Spec => []CallsAreServed
  <1>1. ASSUME IInv, NEW p \in Procs, pc[p] = "call"
        PROVE  Up
    <2>1. p \in Handles
      BY <1>1 DEF Handles
    <2>2. CASE mutex = {}
      BY <1>1, <2>1, <2>2 DEF IInv, Unlocked
    <2>3. CASE mutex # {}
      <3>1. PICK q \in Procs : q \in mutex
        BY <1>1, <2>3 DEF IInv, TypeOK
      <3>2. pc[q] \in Locations \ Outside
        BY <1>1, <2>1, <3>1 DEF IInv, TypeOK, Lost
      <3>3. PICK l \in Locations \ Outside : pc[q] = l
        BY <3>2
      <3>4. At(l)
        BY <1>1, <3>3 DEF IInv, Held
      <3> QED  BY <2>1, <3>4
                DEF At, Opening, Locations, FallibleSteps, Outside, HandleLocations
    <2> QED  BY <2>2, <2>3
  <1>2. IInv => CallsAreServed
    BY <1>1 DEF CallsAreServed, Up
  <1> QED  BY <1>2, Invariance, PTL

\* While a thread may run, every buffer is allocated and in the translation table,
\* in a close and in the unwinding of an open as in between.
THEOREM ThreadsFindBuffers ==
    ASSUME EarlyOpen = FALSE
    PROVE  Spec => []ThreadsHaveBuffers
  <1>1. ASSUME IInv, ~Quiet
        PROVE  valid = Resources /\ AllMappings \subseteq table
    <2>1. CASE mutex = {}
      BY <1>1, <2>1 DEF IInv, Unlocked, Down, Up
    <2>2. CASE mutex # {}
      <3>1. PICK q \in Procs : q \in mutex
        BY <1>1, <2>2 DEF IInv, TypeOK
      <3>2. pc[q] \in Locations \ Outside
        BY <1>1, <3>1 DEF IInv, TypeOK, Lost
      <3>3. PICK l \in Locations \ Outside : pc[q] = l
        BY <3>2
      <3>4. At(l)
        BY <1>1, <3>3 DEF IInv, Held
      <3> QED  BY <1>1, <3>4 DEF At, Opening, Tabled, Up, Down, Locations, FallibleSteps,
                                 Outside, HandleLocations
    <2> QED  BY <2>1, <2>2
  <1>2. IInv => ThreadsHaveBuffers
    BY <1>1 DEF ThreadsHaveBuffers, Quiet
  <1> QED  BY <1>2, Invariance, PTL

\* With nobody inside and no open file nothing runs, and nothing is allocated but the
\* pieces that MayLeak names, after something was misfreed.
THEOREM LeavesNothingBehind ==
    ASSUME EarlyOpen = FALSE
    PROVE  Spec => []NothingLeftBehind
  <1>1. ASSUME IInv, mutex \subseteq {p \in Procs : pc[p] = "closed"}, Handles = {}
        PROVE  /\ Quiet /\ ~powered
               /\ \A r \in Resources : live[r] > 0 => misfreed # {} /\ r \in MayLeak
    <2>1. /\ Quiet /\ ~powered
          /\ valid = {} \/ (valid = Addresses("Tx") /\ misfreed # {})
      BY <1>1 DEF IInv, Unlocked, Lost, Outside, Down
    <2> QED  BY <1>1, <2>1, Pieces DEF IInv, Accounted
  <1>2. IInv => NothingLeftBehind
    BY <1>1 DEF NothingLeftBehind, Quiet
  <1> QED  BY <1>2, Invariance, PTL
-------------------------------------------------------------------------------
(* The card, also when an open arrives while the module is being loaded: that open *)
(* is lost from OpenCtr, but it has found the card that driver_probe left.          *)

CardInv ==
    /\ pc \in [Procs -> Locations]
    /\ module \in {"unloaded", "probed"} => \A p \in Procs : pc[p] = "closed"
    /\ Carded

\* A process goes on to l, where it may be with the card there is.
LEMMA MoveCards ==
    ASSUME CardInv, NEW p \in Procs, NEW l \in Locations, Goto(p, l),
           UNCHANGED <<module, card>>,
           module \notin {"unloaded", "probed"},
           l \notin {"closed", "open_lock", "crashed"} => settings = "valid",
           l = "crashed" => settings # "valid"
    PROVE  CardInv'
  <1>1. pc' \in [Procs -> Locations] /\ pc'[p] = l /\ \A q \in Procs \ {p} : pc'[q] = pc[q]
    BY DEF CardInv, Goto
  <1>2. Carded'
    <2>1. ASSUME NEW q \in Procs
          PROVE  /\ pc'[q] \notin {"closed", "open_lock", "crashed"} => settings = "valid"
                 /\ pc'[q] = "crashed" => settings # "valid"
      BY <1>1 DEF CardInv, Carded
    <2> QED  BY <2>1 DEF CardInv, Carded, card
  <1> QED  BY <1>1, <1>2 DEF CardInv

\* Nobody moves, and the card stays as it is.
LEMMA StayCards ==
    ASSUME CardInv, UNCHANGED <<card, pc>>,
           module' \in {"unloaded", "probed"} => \A p \in Procs : pc[p] = "closed",
           module' = "unloaded" => held = {}
    PROVE  CardInv'
  BY DEF CardInv, Carded, card

\* With nobody in the driver the card may come and go.
LEMMA LoaderCards ==
    ASSUME CardInv, Loader \/ Unload
    PROVE  CardInv'
  <1>1. CASE Probe
    <2>1. module' = "probed" /\ pc' = pc /\ \A p \in Procs : pc[p] = "closed"
      BY <1>1 DEF Probe, CardInv
    <2> QED  BY <1>1, <2>1, ProbeIsWhole DEF CardInv, Carded
  <1>2. CASE CdevAdd \/ ResetOpenCtr
    BY <1>2, StayCards DEF CdevAdd, ResetOpenCtr, card
  <1>3. CASE CdevFails \/ Unload
    <2>1. \A p \in Procs : pc[p] = "closed"
      BY <1>3 DEF CdevFails, Unload, CardInv
    <2> QED  BY <1>3, <2>1 DEF CdevFails, Unload, Unloaded, CardInv, Carded
  <1> QED  BY <1>1, <1>2, <1>3 DEF Loader

LEMMA EntersCards ==
    ASSUME CardInv, NEW p \in Procs,
           \/ OpenCall(p) \/ CallBegins(p) \/ CallEnds(p) \/ CloseCall(p)
           \/ OpenLock(p) \/ CloseLock(p)
    PROVE  CardInv'
  <1>1. UNCHANGED <<module, card>> /\ module \notin {"unloaded", "probed"}
    BY DEF OpenCall, CallBegins, CallEnds, CloseCall, OpenLock, CloseLock, CardInv
  <1>2. CASE OpenCall(p)
    BY <1>1, <1>2, MoveCards, Places DEF OpenCall, Locations
  <1>3. CASE OpenLock(p)
    BY <1>1, <1>3, MoveCards DEF OpenLock, Locations, FallibleSteps
  <1>4. CASE CallBegins(p) \/ CallEnds(p) \/ CloseCall(p)
    BY <1>1, <1>4, MoveCards DEF CallBegins, CallEnds, CloseCall, Locations, CardInv, Carded
  <1>5. CASE CloseLock(p)
    BY <1>1, <1>5, MoveCards DEF CloseLock, Locations, CardInv, Carded
  <1> QED  BY <1>2, <1>3, <1>4, <1>5

\* Who has passed the mutex has found a card, and nothing he does gives it back.
LEMMA ProceedsCards ==
    ASSUME CardInv, NEW p \in Procs, Proceeds(p)
    PROVE  CardInv'
  <1>1. \/ UNCHANGED <<module, card, pc>>
        \/ /\ UNCHANGED <<module, card>>
           /\ pc[p] \notin {"closed", "open_lock", "crashed"}
           /\ \E l \in Locations \ {"open_lock", "crashed"} : Goto(p, l)
    <2>1. CASE StopAsked(p)
      BY <2>1 DEF StopAsked, StopRequest
    <2>2. CASE \/ OpenRxBuffs(p) \/ OpenTxBuffs(p) \/ OpenReadBuff(p) \/ OpenWriteBuff(p)
      BY <2>2 DEF OpenRxBuffs, OpenTxBuffs, OpenReadBuff, OpenWriteBuff, OpenCreates,
                  OpenAllocates, Locations, FallibleSteps
    <2>3. CASE \/ OpenWritesTable(p) \/ OpenPowersOn(p) \/ OpenReadThread(p)
               \/ OpenWriteThread(p) \/ OpenReturns(p)
      BY <2>3 DEF OpenWritesTable, OpenPowersOn, OpenReadThread, OpenWriteThread,
                  OpenReturns, OpenStarts, Locations, FallibleSteps
    <2>4. CASE \/ UnwindPower(p) \/ UnwindReadBuff(p) \/ UnwindTxBuffs(p)
               \/ UnwindRxBuffs(p) \/ OpenFails(p)
      BY <2>4 DEF UnwindPower, UnwindReadBuff, UnwindTxBuffs, UnwindRxBuffs, UnwindFrees,
                  OpenFails, Locations
    <2>5. CASE StopDone(p) \/ CloseShutsDown(p) \/ CloseReturns(p)
      BY <2>5 DEF StopDone, StopWaits, CloseShutsDown, CloseReturns, Locations
    <2> QED  BY <2>1, <2>2, <2>3, <2>4, <2>5 DEF Proceeds
  <1>2. CASE UNCHANGED <<module, card, pc>>
    BY <1>2, StayCards DEF CardInv, Carded
  <1>3. ASSUME UNCHANGED <<module, card>>,
               pc[p] \notin {"closed", "open_lock", "crashed"},
               NEW l \in Locations \ {"open_lock", "crashed"}, Goto(p, l)
        PROVE  CardInv'
    <2>1. settings = "valid" /\ module \notin {"unloaded", "probed"}
      BY <1>3 DEF CardInv, Carded
    <2> QED  BY <1>3, <2>1, MoveCards
  <1> QED  BY <1>1, <1>2, <1>3

\* A driver_probe that fails, at whichever step, holds nothing; whoever has the
\* device open has a card; and an open crashes only without one.  None of this needs
\* opens to wait for the end of driver_initial.
THEOREM CardIsWhole == Spec => []CardAllOrNothing
  <1>1. Init => CardInv
    BY DEF Init, CardInv, Carded, Locations
  <1>2. CardInv /\ [Next]_vars => CardInv'
    <2>1. SUFFICES ASSUME CardInv, [Next]_vars
                   PROVE  CardInv'
      OBVIOUS
    <2>2. ASSUME NEW t \in Threads, ThreadExits(t)
          PROVE  CardInv'
      BY <2>1, <2>2, StayCards DEF ThreadExits, CardInv, Carded
    <2>3. CASE UNCHANGED vars
      BY <2>1, <2>3, StayCards DEF vars, CardInv, Carded
    <2> QED  BY <2>1, <2>2, <2>3, LoaderCards, EntersCards, ProceedsCards DEF Next
  <1>3. CardInv => CardAllOrNothing
    BY DEF CardInv, Carded, CardAllOrNothing
  <1> QED  BY <1>1, <1>2, <1>3, PTL DEF Spec
===============================================================================
