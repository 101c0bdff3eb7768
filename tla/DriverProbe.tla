------------------------------ MODULE DriverProbe ------------------------------
(***************************************************************************)
(* driver_probe and driver_remove of the Langford Linux driver             *)
(* (langford.c:1070-1214): what setting up the card acquires step by step, *)
(* and what is released when a step fails or the card is removed.          *)
(***************************************************************************)
EXTENDS Integers, Sequences

\* What driver_probe acquires: the enabled device, DevPrivData, the two BAR regions
\* and their mappings.
Card == {"device", "settings", "region0", "region1", "bar0", "bar1"}

\* What the labels of driver_probe release, from exit_pci_iounmap_1 to
\* exit_pci_disable_device; the code falls from each into the next.
Labels == <<{"bar1"}, {"bar0"}, {"region0", "region1"}, {"settings"}, {"device"}>>

\* Mutant: a BAR that is no memory space leaves the regions requested.
ProbeSteps_KeepsRegions ==
    <<[gets |-> {"device"}, label |-> 6], [gets |-> {"settings"}, label |-> 5],
      [gets |-> {}, label |-> 4], [gets |-> {"region0"}, label |-> 4],
      [gets |-> {}, label |-> 4], [gets |-> {"region1"}, label |-> 3],
      [gets |-> {}, label |-> 4],
      [gets |-> {"bar0"}, label |-> 3], [gets |-> {"bar1"}, label |-> 2],
      [gets |-> {}, label |-> 1]>>

\* The steps that may fail, with what each acquires and the label its failure goes
\* to: enabling the device, allocating DevPrivData, the device version, for each BAR
\* its region and whether it is a memory space, the two mappings, the DMA mask.
ProbeSteps ==
    <<[gets |-> {"device"}, label |-> 6], [gets |-> {"settings"}, label |-> 5],
      [gets |-> {}, label |-> 4], [gets |-> {"region0"}, label |-> 4],
      [gets |-> {}, label |-> 3], [gets |-> {"region1"}, label |-> 3],
      [gets |-> {}, label |-> 3],
      [gets |-> {"bar0"}, label |-> 3], [gets |-> {"bar1"}, label |-> 2],
      [gets |-> {}, label |-> 1]>>

HeldBefore(n) == UNION {ProbeSteps[k].gets : k \in 1 .. n - 1}

\* Held by a driver_probe that failed at step n, after the unwinding.
HeldAfterFailure(n) ==
    HeldBefore(n) \ UNION {Labels[k] : k \in ProbeSteps[n].label .. Len(Labels)}

\* DevPrivData after a failure at step n of a module just loaded: kmalloc's null, or
\* the address of the memory that was freed again.
SettingsAfterFailure(n) == IF n <= 2 THEN "null" ELSE "dangling"
===============================================================================
