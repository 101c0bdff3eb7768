# The Langford (Noctar) drivers in TLA+

This directory models and checks the drivers of the Per Vices Langford / Noctar radio and
the programs that set it up: the Linux driver `src/sw/langford_driver/langford.c`, the radio
programs around it (`src/sw/langford_driver/*.cpp` and `libs/`), and the Windows driver
`src/sw/win_langford_driver/langford_windows_driver`. Every safety property that TLC checks here on
a small instance is also proved, for every value of the parameters; liveness is model-checked. File and line references below are to the Linux
`langford.c` unless another file is named.

## 1. The system

A PCIe card samples (Rx) and plays (Tx) radio signals. Its FPGA has two DMA
engines, each with a FIFO of descriptors. The Linux driver moves bytes between a
character device, `/dev/langford`, and the engines.

    write(2) -> cdev_write -> cdev_write_buff -> dev_write_task -> pTxDmaBuffs -> FPGA
    read(2)  <- cdev_read  <- cdev_read_buff  <- dev_read_task  <- pRxDmaBuffs <- FPGA
    ioctl(2) -> cdev_ioctl -> ioctl_helper -> PIO registers -> pins of the radio's chips

The Windows driver has no buffers of its own: a read or write request becomes a
transaction of the framework, whose transfers a request processor thread polls.

    ReadFile  -> langfordEvtIoRead  \
                                     WdfReadTransaction -> langfordEvtProgramDma -> card
    WriteFile -> langfordEvtIoWrite /        ^                      | event
                                             +- Read/WriteRequestProcessor (poll, complete)

| Component | State | Operations | Interacts with | What makes it correct |
|---|---|---|---|---|
| Circular buffers (66-83) | start, end | filled, avail, advance, copy across the wrap | everything below | indices stay inside, filled and free add up, regions are disjoint |
| Transmit path (279-443, 494-533) | byte ring and its two indices; ring of DMA buffers and the thread's locals; the FPGA's FIFO | `cdev_write`, `dev_write_task` | writers share the byte ring with the thread under `cdev_write_buff_mutex`; the thread polls the FPGA's fill level | copies made without the mutex never meet; no DMA buffer is refilled while the FPGA may fetch it; the radio gets the written stream; writes and shutdown end |
| Receive path (93-270, 448-489) | the same for receiving | `cdev_read`, `dev_read_task` | as above; line 196 reads the *transmit* indices | buffers are read when complete and in order; the reader gets the received stream; reception goes on; shutdown ends |
| Open / close (862-1032) | `OpenCtr`, `cdev_open_close_mutex`, buffers, translation table, threads, power | `cdev_open`, its unwinding, `cdev_release` | starts and stops the two threads, powers the radio through `ioctl_helper` | handles are counted; what a call uses exists; the last close undoes the first open; opens return |
| Load / unload (1048-1285) | `DevPrivData`, what the card's set-up holds, character device | `driver_initial`, `driver_probe`, `driver_remove`, `driver_exit` | opens may arrive as soon as `cdev_add` is done | the card is held whole or not at all |
| DMA buffer allocation (754-816) | array of buffers, array of bus addresses | `create_dma_buffs`, `destroy_dma_buffs` | open / close | a failure frees exactly what was allocated |
| ioctl pins (538-749) | PIO0 .. PIO7 | get and set of fields | every user program, and PowerPeriph | a write to one field leaves the others alone |
| Bit-banged buses (`langford_spi.cpp`, `libs/fsynth.cpp`, `libs/lmh6521.cpp`) | clock, data and latch pins | `LangordSpiWrite`, two `WriteReg`, `SetDDCFreq` | ioctl pins, several programs at once | the chip latches the word that was sent |
| fsynth, ADF4351 plan (`libs/fsynth.cpp`, `libs/adf4351_regs.hpp`) | register fields, the down-converter's phase | `main`, `set_freq`, `get_reg` | bit-banged buses | the frequency asked for, split between synthesizer and down-converter; dividers within the chip's limits |
| lmh6521 (`libs/lmh6521.cpp`, `lmh6521_regs.hpp`) | gain words | `main`, `set_gain`, `get_regs` | bit-banged buses | the gain asked for |
| Windows device (`langford_dev.c`, `langford.c`) | device object, two threads, three events, mappings | `EvtDeviceAdd`, prepare and release hardware, context cleanup | the framework | threads end before what they use |
| Windows DMA (`langford_io.c`, `langford_isrdpc.c`) | two transactions, the translation table | `langfordEvtIoRead/Write`, `langfordEvtProgramDma`, two request processors | framework queues, the device's mappings | each request completes once, after its own transfer |
| Windows pins (`langford.c`, `langford_io.c`) | the PIO registers | `langfordIo`, `langfordPowerPeriph`, the ioctl handler | programs | as the ioctl pins |
| Test programs, DSP program, flowgraphs, scripts, firmware image | | | | outside the drivers' logic |

What is hard here. On Linux the copies run with the mutex released on purpose (28-33); the
threads learn what the FPGA has finished only from a fill level that drops *before* a
transfer is complete; `kthread_stop` may come at any instruction; an open that fails must
unwind from any of six places; and several processes use one device. On Windows two threads,
three queues and the power management callbacks meet in one transaction. The
radio programs split a frequency over registers of which each has its own width and limits,
and may fail between two of them. `PROJECT.json` lists every hazard with its line and
the property that covers it.

## 2. The modules

### The Linux driver's data paths

`CircBuff` - the index arithmetic, shared by the two paths.

`TxStream` - the transmit path: any number of writers, `dev_write_task` and the
FPGA. One step is what the code does between two points where another actor
can see it. Each critical section under `cdev_write_buff_mutex` is one step
(sections of one mutex exclude each other, so none can fall inside another);
a register read, a descriptor write and a copy are steps of their own. A copy
lasts from the step that enters the location `"copy"` to the step that leaves it,
and the other actors move in between, so two copies that overlap in time are
states in which both actors are at `"copy"`.

| Code | TxStream |
|---|---|
| `cdev_write` 494-506, 507-513, 518-523, 524-533 | `WriteCall`, `WriteHasRoom`, `WriteCopy`, `WriteReturn` |
| wait for the FIFO 293-301, level 303-325 | `TxExitAtTop`, `TxSeesRoom`, `TxReadLevel` |
| copy loop 331-393 | `TxFindsData`, `TxFindsNoData`, `TxCopy`, `TxAdvance` |
| descriptors 397-418 | `TxCountDescriptors`, `TxEnqueue` |
| bottom 421-438 | `TxBottom`, `TxDrain`, `TxExitDrained` |
| FPGA's read DMA engine (external) | `FpgaStart`, `FpgaComplete` |
| `kthread_stop` in `cdev_release` | `StopThread` |

Bytes are numbered by their position in the accepted stream, which makes loss,
repetition and reordering visible; nothing else of their value is kept. Rounds of
a wait loop that change nothing are stuttering. `DescActive` and `Ctr` are
never read by the code and are left out; a write of 0 bytes does nothing and
is left out.

`ByteStream` - what a write promises, in two actions: bytes are accepted, at
most `Capacity` wait, and they are delivered in order. `TxStream` implements it with
`Capacity` = byte ring less the spare cell + all DMA buffers.

`RxStream` - the receive path in the same style. The room check of line 196 looks
at the transmit buffer, so the answer is an environment variable `TxRoom`, which
changes whenever the transmit path fills or drains its buffer. `taken`, `skipped` and
`overrun` are history variables.

Both modules start with an empty descriptor FIFO, as the card has it after `driver_probe` reset
its DMA controllers. `cdev_open` does not reset them, and the exits at 110 and 296 leave
descriptors queued, so that a later open may find some: what is checked and proved about the two
paths is about the first session, and about any session before which every exit was the drained one.

### The Linux driver's life cycle

`Lifecycle` - loading, opening, closing, unloading. `cdev_open` and `cdev_release`
hold a mutex, which excludes other opens and closes but neither the threads nor
calls on open files, so every allocation, thread start and label of the unwinding is
a step. A resource is a name that is allocated some number of times (`live`) and a
pointer that refers to an allocation or not (`valid`); `misfreed` remembers what was freed
without being there, `table` which buffers the card's translation table names. `held`
is what the card's set-up has acquired, `settings` whether `DevPrivData` is null, valid or
dangling. `pci_register_driver` succeeds when `driver_probe` fails, so a module may be
loaded without a card: its first open reads `OpenCtr` through a null or dangling pointer,
and the model follows that process no further (`"crashed"`; it keeps the mutex).

`DmaBuffs` - what `create_dma_buffs` has made when it fails at a given point (the array of
pointers, buffer *i*, the array of addresses, mapping *i*), what its unwinding then releases,
and what `destroy_dma_buffs` releases. The unwinding is not the inverse of the creation:
`exit_dma_unmap` begins with the mapping that was not made, goes on with `i = 15`
(`UnwindFrom`) of 32 buffers, and a failure of line 771 begins one past the array's end.

`DriverProbe` - the steps of `driver_probe`, what each acquires and the label its failure goes
to, and from that what is still held after a failure at each step.

| Code | Lifecycle |
|---|---|
| `driver_initial` 1233-1272, `driver_probe` 1070-1195 | `Probe`, `CdevAdd`, `CdevFails`, `ResetOpenCtr` |
| `driver_exit`, `driver_remove` 1202-1211, 1279-1285 | `Unload` |
| `cdev_open` 862-957 | `OpenCall`, `OpenLock`, `OpenRxBuffs` .. `OpenWriteThread`, `OpenReturns` |
| its labels 959-976 | `StopAsked`, `StopDone`, `UnwindPower` .. `UnwindRxBuffs`, `OpenFails` |
| calls on an open file 1035-1043 | `CallBegins`, `CallEnds` |
| `cdev_release` 981-1025 | `CloseCall`, `CloseLock`, `StopAsked`, `StopDone`, `CloseShutsDown`, `CloseReturns` |
| the end of a thread | `ThreadExits` |

`MayFail` names the steps of an open that may fail and `LoadMayFail` those of loading. With
`EarlyOpen` an open may arrive between `cdev_add` and the `OpenCtr = 0` that ends
`driver_initial` (a device node may outlive a load); `OpenCtr` then holds what `kmalloc` left
there (`HeapInts`), and HandlesCounted fails. The runs keep it off.

### Pins and programs

`Pins` - the fields of the PIO registers as `ioctl_helper` lays them out, and the set
and the get of a field as operators on the set of a word's 1-bits.

`PinBus` - programs that open the device, make a series of ioctl calls and close it:
`langford_adc_util` (`LangordSpiWrite`), `fsynth` (`WriteReg` once for each chip register,
`SetDDCFreq`), `lmh6521` (`WriteReg`) and `langford_util`. A set is two steps, the
`readl` and the `writel` of lines 653 and the like, since no lock joins them; a refused set
is a step that only moves the program on, since `cdev_ioctl` drops the error. Nothing keeps sets
of one register, or two programs at one chip, apart: the history `exposed` notes the fields of sets
that overlapped and those that a set reached over, `shared` the chips that two programs
were started for at a time. The first
open and the last close run `PowerPeriph`, eleven more sets of the same registers. The
chips are external: they take a bit at the rising clock while selected and take the
word over when their latch pin rises. `MCPinBus` gives the sessions for TLC. Of open and
close only what concerns the pins is here; `Lifecycle` has the rest.

| Code | PinBus |
|---|---|
| a program's main, up to its `open` | `Start` |
| `cdev_open` 880-931, 953-957 | `OpenFirst` .. `PoweredOn`, `OpenAgain` |
| `ioctl_helper` 635-711 | `SetRefused`, `SetReads`, `SetWrites` |
| `cdev_release` 997-1024 | `CloseLast` .. `PoweredOff`, `CloseOther` |

`Adf4351` - `set_freq` as one operator: octave, reference divider, band select divider,
integer and fractional divider, and the frequency it returns, as a fraction. Frequencies
are whole kHz, and the quotients that the code computes in doubles are kept as fractions;
a tie of the rounding goes up here and may go either way in the code. With the reference of
125 MHz the code always arrives at R = 4, kept as 2 with the divide-by-2, and a band select
divider of 250. FRAC may come out equal to MOD (2218.749 MHz), which the model keeps, and the
prescaler `set_freq` chooses is lost: line 449 assigns the local variable to itself, and the register
keeps the 4/5 of the constructor.

`RadioTools` - the programs `fsynth` and `lmh6521` from their arguments to what the chips hold:
the register object, `get_reg`'s packing, the six words and the down-converter's phase in the
order `main` writes them, the gain word. Any write may fail; the program goes on with the next one
and returns the or of the codes. The
chips are external; the ADF4351 takes registers 1 and 4 into effect with register 0. The
inside of a write is in `PinBus`. Kept as the code has it: a frequency of 2^32 Hz passes
the range check and is taken by `int()` for zero, which powers the chip down (`IntRange`, in kHz
without its fraction; a phase that is undefined is -1); a NOISE MODE of 1 is obeyed only when OUTPUT is 1
(`fsynth.cpp:84`); `!DevFD` does not notice the -1 of a failing open; the values the base
class's constructor sets are all overwritten by `fsynth_t`. `PhaseSteps` stands for the
0xffffffff phase steps of a turn. The clock divider mode is at another shift in
`adf4350.h`; its value is always 0. `MCRadioTools` gives frequencies and gains for TLC.

### The Windows driver

Three modules for its three parts, each with its own variables, and `WinDriver`, which
composes them with the framework. What the framework, its queues and transactions and the
fill level registers do is external, taken from how the driver uses them.

`WinIo` - pins: `langfordIo` with its unsigned range check, `langfordPowerPeriph`, and the ioctl
handler, whose queue is sequential, so that a set is one step.

`WinDevice` - the device object: the fifteen calls of `EvtDeviceAdd` that report a status, each of
which may fail, mapping and unmapping, and the cleanup that ends the threads.

`WinDma` - the requests. Reads and writes both use `WdfReadTransaction`: the request processor of
writes asks `WdfWriteTransaction`, which was never initialised. A `write` that comes
while a read is in progress releases the transaction the read needs.

| Code (under `langford_windows_driver/`) | Model |
|---|---|
| `langford_dev.c` 43-254, `EvtDeviceAdd` | `AddSucceeds`, `AddFails` |
| `langford.c` 52-97, `langfordMapHWResources`; 97-164, reset and power-down | `PrepareHardware`, `Prepared` |
| `langford.c` 105-143, `langfordUnmapHWResources` | `ReleaseHardware` |
| `langford_dev.c` 257-288, context cleanup | `CleanupSignals`, `CleanupWaits` |
| `langford_isrdpc.c` 48-53, 91-98, the threads' waits | `WorkerWakes`, `WorkerEnds` |
| `langford_io.c` 10-80, 83-153 | `langfordEvtIoRead`, `langfordEvtIoWrite` |
| `langford_io.c` 285-404 | `langfordEvtProgramDma`, `Program` |
| `langford_io.c` 244-280, `langford_isrdpc.c` 59-89, 100-161 | `DmaCompleted`, `ReadPollEnds`, `WritePollEnds` |
| `langford_io.c` 155-241 | `langfordEvtIoDeviceControl` |
| the framework (external) | `StopCard`, `RemoveIdle`, `Submit`, `Purge` |

Decisions. The two uses of `ReadDescNumber` in the write processor (`langford_isrdpc.c:127-128`)
cancel: the loop ends when the level reads 0, as in the read processor; what the two
threads do share is the transaction. The wait for `TerminatedThreadEvent` inside a poll loop
is left out: the framework calls the cleanup only when the driver holds no request. Setting an
event that `EvtDeviceAdd` did not get to initialise, and going on after a failed
`WdfDeviceCreate`, whose status is overwritten, are undefined: `"crashed"`. So may be completing a
transaction without a transfer (the `ASSERT` of `langford_io.c:267`, or a refusal). Every
element of a transfer rewrites the entries that `Entry` computes, one for each page, so the last
element's frame stays; mapping the card writes to entry 0 (`langford.c:89`), and a read's
descriptor, with Bar1 mapped from BAR0, falls into entries 0 and 1 (`Described`). What the DMA
controller would make of a descriptor is not modelled: neither that earlier elements' descriptors
may be queued when the table is rewritten, nor that a write's descriptor names an entry of the read half.
`langfordPowerPeriph` is called with 0 only. `MmMapIoSpace` is taken to succeed.

### Proofs

`CircBuffProofs`, `TxStreamProofs`, `RxStreamProofs`, `LifecycleProofs`, `PinsProofs`,
`PinBusProofs`, `RadioToolsProofs` and `WinDriverProofs` hold the theorems of section 5.

## 3. The runs

`MCPinBus`, `MCRadioTools` and `MCWinDriver` define the values of the constants for their runs;
the other `.cfg`s instantiate their module directly. Deadlock checking is off where the
system really stops (all bytes of the bound written, the thread stopped, a mutex
never released, all programs ended, the device removed).

| Run | Shows | Bounds |
|---|---|---|
| `tx` | TypeOK, CopiesKeepToTheirSide, DmaBufferStable, RingAccounting, ImplementsByteStream, AcceptedBytesAreSent, FittingWriteReturns, StopEnds | 1 writer, writes of 1, 3, 4, 6 bytes, 15 in all, ring of 7, DMA buffers of 2, ring of 4, delay 2 |
| `rx` | TypeOK, RingAccounting, TakesBlocksInOrder, ReadsContinueStream, ReceptionContinues, StopEnds | 1 reader, reads of 1 and 3, 6 transfers, ring of 5, DMA buffers of 2, ring of 4, FIFO of 3, delay 1 |
| `life` | TypeOK, HandlesCounted, CallsAreServed, ThreadsHaveBuffers, NothingLeftBehind, CardAllOrNothing, OpenCallEndsUnlessLost | 3 processes; any step of loading or opening may fail, `create_dma_buffs` at every buffer and mapping; 2 buffers a ring, unwinding resumed at 0; one leak per piece |
| `pins` | TypeOK, FieldsHoldLastSet, ChipsLatchWhatWasSent, PeriphFollowsPrograms | 2 programs, any 2 of 8 sessions, words of 2 bits; sets overlap until a field is exposed |
| `radio` | TypeOK, ChipTuned, ChipWithinLimits, DdcMakesUpResidue, GainsKept | 2 programs, 1 failed write, 13 frequencies, 6 gains, 4 sets of options |
| `win` | TypeOK, TransactionServesOwner, PollsMappedCard, ThreadsEndBeforeContext, PinsHoldLastSet, TransfersKeepTheirPages, ReadsCompleteUnlessWritten, RemovalEndsUnlessWritten | 2 reads, 1 write, 2 table entries a half, requests of one transfer of 2 elements, of 2 transfers, and refused; any step of `EvtDeviceAdd` fails; 3 resource lists; 4 ioctls |
| `rx_overrun` | violation: CopiesNeverOverlap | the transmit path idle |
| `rx_exit` | violation: ExitLeavesNoDescriptor | |
| `life_failed_open` | violation: OpenCallReturns | the last allocation may fail |
| `life_unwind` | violation: FreedOnce | the last allocation may fail |
| `win_transfer` | violation: CompletedReadsWereTransferred | 1 read |
| `radio_power_down` | violation: OnlyZeroPowersDown | 1 program, 2^32 Hz among 3 frequencies |

Why the bounds are enough.

- Data paths. The real sizes are 2^25 bytes for the byte rings, 2^18 for a DMA buffer, 32
  buffers, 128 descriptors and a delay of 4. What matters is how they compare: a byte ring
  that is no multiple of the DMA buffer, so that copies wrap at both parities (the real sizes
  do divide, which is the easier case; lengths are arbitrary, so unaligned ends occur
  in both); a ring larger than the delay; a stream long enough for both indices to go round
  twice; and a FIFO at least as deep as the Tx ring. `rx` takes a FIFO shallower than the
  ring, as then both arms of the MIN at 139 decide. For the safety properties the proofs
  remove the bounds altogether.
- Life cycle. Two buffers a ring give the unwinding a buffer below and one above `UnwindFrom`; a
  third process sees what the first two leave behind. `LeakBound` says how much may have leaked
  before the module is loaded again. Here too the safety properties are proved for all values.
- Pins. Two sessions put any two programs one after the other or at once, two runs of one chip
  included; two bits make a word in which order, loss and repetition of a bit show. Among the sessions are
  a negative argument, which passes the signed range check of 649 (`Accepted`) and sets bits
  outside its field, and GPIOout and RxBaseband, which share bit 30 of PIO5. `MaxExposed` is 1: sets
  overlap until a field is exposed, and then no more. A set that overlaps with another of its
  register may be lost, by either's `writel`; the three properties except just the fields,
  pins and chips this happened to. That the driver loses such sets is the case, and no document of it says
  otherwise; what the properties add is that nothing else is lost. The proofs have no such bounds.
- Radio. The frequencies are both ends of the range and of the oscillator's octaves, fractions
  on either side of a tie, one that rounds up to MOD, and one beyond either end. A second
  program shows what the first one's registers do to it. 2^32 Hz, where ChipTuned fails, is left to
  `radio_power_down`. ChipWithinLimits holds FRAC below MOD for all frequencies but those of
  `FractionIsOne`, for which the code loads FRAC = MOD; the reference driver
  (`libs/reference/adf4350.c:159-162`) carries into INT there, and what the chip does with such a word is
  not known here. It leaves out the limit that the prescaler sets to the oscillator: above 3 GHz
  the chip runs with the 4/5 prescaler, against `adf4351_regs.hpp:385`.
- Windows. Two reads and a write give a read in progress, one queued, and the write that
  takes the transaction. Two elements in a transfer and two transfers in a request show the table
  and the retriggering of the thread. A third of each adds no new state of the one transaction.

`StreamLen`, `MaxBlocks`, `LeakBound`, `MaxSessions`, `MaxExposed`, `MaxRuns` and `MaxFails` are the only bounds
in guards.

What the violations mean. Each shows the code doing otherwise than a comment or
message in it says; `PROJECT.json` quotes both. The receive thread tests the wrong buffer,
which with a slow reader overwrites unread samples. A stop at the top of the loop skips the
drain. A failed open leaves the mutex locked, and its unwinding frees the receive address
array twice. On Windows both bars are mapped from BAR0, so the DMA controllers never get a
descriptor and a read is completed with success without data. fsynth takes 2^32 Hz for 0, powers the
synthesizer down and reports success.

Limits of the code that the passing runs are stated around, each visible in a definition:
two writers, or two readers, at a time are unsound, as the room check is not kept until the copy
(`tx` and `rx` have one of each); a busy transmitter makes the receive thread lose DMA
buffers for good (`RxFindsNoRoom` and `skipped`; `ReceptionContinues` asks for `[]TxRoom`); an open
while the module loads is forgotten (`EarlyOpen`); a failed `create_dma_buffs` keeps the buffers
above 15 and frees one past its array (`MayLeak`, `misfreed`); a module whose probe failed
crashes its first open; a write on Windows is never completed and may take the read in progress
with it (`UnlessWritten` in two properties); a thread whose reference could not be had
outlives the device context (`Lost`).

## 4. Fairness

In `TxStream`, `RxStream` and `Lifecycle`, `FairSpec` adds weak fairness of each process inside
the driver and of each kernel thread (the scheduler runs what is runnable; every wait loop sleeps
and retries), and of the FPGA's engines while they have descriptors (the radio's clock does not
stop). In `RxStream` the engine delivers at most `MaxBlocks` blocks, so liveness is
stated up to that. In `Lifecycle` taking the mutex is strongly fair: a kernel mutex queues
its waiters. In `WinDriver` the threads run, the framework grants map registers and goes on with
a removal it has begun, and the fill level registers, external, read 0 again and again, so that
a poll ends. Nobody is obliged to call write, read, open, close, to stop or remove
anything, so the liveness properties are conditional on being stopped, closed or removed.
`PinBus` and `RadioTools` state no liveness and need no fairness.

## 5. Proofs

TLAPS checks, for all values of the constants that satisfy the named assumptions:

| Module | Theorem | Statement |
|---|---|---|
| `TxStreamProofs` | `TypeCorrect`, `AccountingHolds`, `BufferStable` | `Spec` implies always TypeOK, RingAccounting, DmaBufferStable |
| | `OneWriterKeepsToItsSide` | with one writer, always CopiesKeepToTheirSide |
| | `TxImplementsByteStream` | with one writer, `Spec` implies ImplementsByteStream: `TxStream` implements `ByteStream` |
| `RxStreamProofs` | `RxTypeCorrect`, `RxAccountingHolds`, `BlocksTakenInOrder` | always TypeOK, RingAccounting, TakesBlocksInOrder, for any number of readers |
| | `ReaderGetsStream` | with one reader, always ReadsContinueStream |
| `LifecycleProofs` | `TypesCorrect`, `HandlesAreCounted`, `CallsFindAll`, `ThreadsFindBuffers`, `LeavesNothingBehind` | if no open arrives during loading, always TypeOK, HandlesCounted, CallsAreServed, ThreadsHaveBuffers, NothingLeftBehind |
| | `CardIsWhole` | always CardAllOrNothing, whenever opens arrive |
| `PinsProofs` | `SetThenGet`, `SetLeavesOthers` | a get after a set returns the argument, and a set changes no field with other bits, for every field, word and argument that fits |
| `PinBusProofs` | `TypesCorrect`, `FieldsAsLastSet` | always TypeOK, FieldsHoldLastSet, for any programs, sessions and arguments |
| | `PowerFollows` | if `PeriphLeftAlone`, always PeriphFollowsPrograms |
| | `WordsTaken` | if `ChipsLeftAlone`, always ChipsLatchWhatWasSent, for words of any length |
| `RadioToolsProofs` | `EveryFrequencyIsPlanned` | every frequency from 34.375 MHz to 4.4 GHz gets R = 4, a band select clock of 125 kHz, INT of at least 23 and below 2^16, FRAC between 0 and MOD, and an error of at most half a channel step, which the returned frequency states exactly |
| | `TypesCorrect`, `GainsHeld` | always TypeOK, GainsKept, for every frequency, gain, option, series of runs and failing writes |
| | `TunesTheChip`, `WithinLimits`, `ResidueMadeUp` | if `NoneWraps`, always ChipTuned, ChipWithinLimits, DdcMakesUpResidue, for the same |
| `WinDriverProofs` | `TypesCorrect`, `ServesOwner`, `PollsMapped`, `ThreadsEnd` | always TypeOK, TransactionServesOwner, PollsMappedCard, ThreadsEndBeforeContext |
| | `PagesKept` | always TransfersKeepTheirPages, for a table of any size |
| | `PinsAsLastSet` | if `OneOfShared`, always PinsHoldLastSet |

The theorems of the two data paths are about a session that finds the FIFO empty (section 2).

**Transmit path.** `SizeAssumption`: a DMA buffer is smaller than the byte ring.
`RingAssumption`: both ring sizes are equal (dev_write_task uses one for the other
at 324 and 383), the FIFO is at least as deep as the ring, the delay is between 1 and
the ring size less one. `HardwareAssumption`: the FPGA has at most `DMATXDESCDELAY`
descriptors that the fill level no longer counts, which is what the delay is for.
`TypeOK /\ RingAccounting` is inductive. `TypeOK` alone is not: `DescLevel`
stays in range only because a descriptor is written for a filled buffer, and filled
buffers, descriptors and rounds left never exceed the ring. `RingAccounting`
says that (`PassAccounting`) and which buffers the descriptors name
(`DescriptorsInRingOrder`). While the thread fills a buffer, at least
`DMATXDESCDELAY + 1` buffers are neither filled nor counted by the fill level; at most
`DMATXDESCDELAY` of them can be in transfer, and they sit right behind `BuffStart`, so
`BuffEnd` is not one of them: that is `DmaBufferStable`.
For the byte ring, `WriteAccounting` carries what each wait loop established
over the release of the mutex: the room a writer saw can only grow while it is the only
writer, and the data the thread saw can only grow. The regions are then disjoint by
the lemmas of `CircBuffProofs`. With two writers `WriteAccounting` is not inductive, and
CopiesKeepToTheirSide fails.

The refinement of `ByteStream` needs to know where every accepted byte is. `Held` DMA buffers,
those in the FPGA and those filled for it, sit behind `BuffEnd`; `StreamInOrder` says that
they hold the bytes from `Len(out)` on, block by block, that the byte ring continues them
from `Oldest`, and that the bytes a writer has copied and the buffer the thread has filled
continue the part they will join when the index moves. Two steps of the system are steps of
`ByteStream`, `WriteReturn` and `FpgaComplete`; the others move a block from one place to the next and leave
`accepted` and `out` alone. `HeldFits` (from `PassAccounting`) bounds what waits by the
capacity and keeps the copy into `BuffEnd` off the buffers held.

**Receive path.** The assumptions are those of `RxStream`; the FIFO may be shallower than the ring.
`RxInv` is `TypeOK /\ RingAccounting /\ BlocksInOrder`. The last part is what makes the
others useful: of the buffers between `BuffStart` and `BuffEnd` the newest are in the FPGA, and
the others, `Complete` of them, hold the blocks `taken`, `taken + 1`, ... in ring order. A
thread at the copy has counted more than `DMARXDESCDELAY` completions; at most that many
buffers are in transfer, so `Complete` is at least 1 and the oldest buffer is the next
block. A skipped round leaves `BuffStart` where it is, so the order survives it. For one reader,
`StreamInOrder` adds the byte ring: while nothing was overrun, the bytes in use continue what
was returned, the block being copied follows them, and the reader's length is covered by
what it saw. The steps need that walking round the ring adds up (`AdvanceAdds`), that the cells in use
end at the end index (`UsedCellsReachEnd`), and that they lie behind the free ones as seen
from there (`UsedCellsBehindFree`), which is why a copy with enough room leaves them alone.

**Life cycle.** Assumes `LifecycleAssumption`, `DmaBuffsAssumption` and `EarlyOpen = FALSE`.
`At(l)` says what exists when the holder of the mutex is at location `l`, `Unlocked` when
there is no holder, `Lost` when the mutex was left locked; `Loading` covers the module before it
is loaded, `Carded` the card, `Accounted` the leaks. Their conjunction is inductive, one
lemma for each step of an open, its unwinding and a close.
`CardIsWhole` needs no `EarlyOpen = FALSE`: `CardInv`, which is `Carded` with everybody outside the
driver until `cdev_add`, is inductive by itself. An early open loses its count to
`OpenCtr = 0`, never the card. With `EarlyOpen = TRUE` in `Life.cfg`, TLC too finds CardAllOrNothing kept and the other five
invariants broken.

**Windows.** `OwnerHeld` (a transaction in use has an owner the driver holds) is inductive by
itself. `PollsMapped` needs where wake-ups come from: `Calls` says that a signalled or running read
processor means a held read, that there is one such wake-up at a time and none while a read
is still to be programmed, and that one of the write processor means a held write; `Mapped` that
a held request means mapped bars. `ThreadsEnd` follows from `Known`: a thread that was started is
referenced, or its reference was the failing step. Assumes `WinDeviceAssumption` and
`WinDmaAssumption`.

`PagesKept` keeps `Tabled` and `Leaves`: the table has its type and holds the frame of the transfer under
way, whose number is in the range of its request's list. It rests on the invariant above: a request whose
transaction is in use is held, so its list is not replaced (`OwnerHeld`), and the card is
mapped again, which writes to entry 0, only when no request is held (`Mapped`). `TypesCorrect` adds
`DriverTypes` and `WordTypes`. `PinsAsLastSet` keeps `PinsInv`, the property with the types; a set
changes no other field by `SetLeavesOthers`, except where two fields share bits: `OneOfShared` says
that programs do not set both `GPIOout` and `RxBaseband`, which the layout puts on bit 30 of PIO5.

**Pins.** `SetThenGet` and `SetLeavesOthers` show that one program's sets interfere only where the
layout overlaps or another program's set falls between `readl` and `writel`. `PinBusProofs` turns that
into the three properties of `PinBus`, along a chain of invariants.

- `Ordered`, without any hypothesis: what a program has still to set is the rest of its agenda (its
  script, or PowerPeriph), `OpenCtr` counts the programs that have the device open, and
  whoever powers the radio on or off is alone with the mutex.
- `Kept`, without any hypothesis: the word a program has read agrees with its register on every field that
  is not exposed (`Fresh`), programs amid sets of one register have exposed the fields they set
  (`Overlapped`), and fields that are not exposed hold what was last set in them. A `writel` puts the
  program's word back: what another `writel` changed in between was a field of an overlapping set, or one
  that set reached over. `SetOwnField` and `SetSparesUnreached` say what a set with any argument does
  to its own field and to those it does not reach.
- `Powered`: how many of the eleven sets of PowerPeriph are in force while one is running, and all
  of them while a program makes its calls (in `lastset`; `Kept` carries that to the pins that are not
  exposed). `PeriphLeftAlone`: langford_util is not given one of these pins.
- `Clocked`: how far each chip is with the word sent to it, if no two programs shared it and its pins are
  not exposed (`Sure`). Where a program is in its script gives the
  bits that its chip has shifted in and the levels of clock and latch; a set of another pin leaves the
  chip as it is. The three scripts are one shape, `IsAround`: a start, three sets for each bit, an end.
  `ChipsLeftAlone`: langford_util is not given a clock, data or latch pin.

The two hypotheses are about what langford_util is asked to set, which is the user's business; the
sessions of `MCPinBus` satisfy both. Without them the properties fail for want of meaning: a user who
sets a power pin has set it.

**Radio programs.** `EveryFrequencyIsPlanned` is arithmetic on a range that no enumeration covers:
R = 4 is the first divider that fits for every oscillator frequency. From there to the chip: the fields
of each register lie apart and above its number (`RegistersLaidOut`), so a chip takes a word for
the register it was made for (`WordHasNumber`) and reads in a field what `get_reg` put there
(`ReadsField`), if it fits; that bits at their weights add up to the number (`BitsAddUp`) is proved for
the sixteen bits of the widest field. The band select divider of 250 does not fit its int8_t, but its
eight bits do (`BandSelectBits`). `ChipReadsPlan` collects what the chip makes of a frequency. The
invariant `RadioInv` says that the writes a run has made are in force as long as none failed (`Running`:
registers 1 and 4 take effect only with the last of the six), and that what a successful run left in a
chip is there until another run for the same chip starts (`Kept`). `Freqs`,
`Gains` and `Options` are any sets, and the checks of `main` decide what is accepted. `NoneWraps` keeps the
multiples of 2^32 Hz other than 0 out of `Freqs`; of the accepted range that is 2^32 Hz alone. Where
FRAC = MOD, the accuracy that `ChipReadsPlan` gives puts the target within half a step of the next integer,
which is `FractionIsOne`.

**Only model-checked.** Liveness, which the provers cannot do: AcceptedBytesAreSent,
FittingWriteReturns and the two StopEnds, ReceptionContinues, OpenCallEndsUnlessLost,
ReadsCompleteUnlessWritten, RemovalEndsUnlessWritten. And the six violations, which are
counterexamples.

## 6. Plan

Done, in this order: `TxStream` with `CircBuff` and `ByteStream`; `RxStream`; `Lifecycle`; `Pins` and
`PinBus`; `DmaBuffs` and `DriverProbe`; the frequency plan and the radio programs; the Windows
driver; and the theorems of section 5 along with them. What is left: the composition of
`TxStream` and `RxStream` through the room check of line 196, in place of `TxRoom`.

## 7. Not modelled

In the Linux driver: memory barriers and `dma_sync_*` (the steps assume sequential consistency,
which the mutexes and barriers around the index updates provide); logging; the contents of
the bytes; interrupts, which the driver does not enable; a signal to a process inside
a wait loop, which the code ignores (`msleep`); a failing `copy_to_user` or
`copy_from_user`, whose result the code ignores; a `read` or `write` longer than the
byte ring can hold, or a write near that limit beside the up to DMABUFFSIZE bytes that
`dev_write_task` keeps back (340), which waits for ever by design of the loop (it is logged and
nothing else); `pci_register_driver` itself failing, which ends the load with nothing done;
the card being unplugged or unbound while the module is loaded; the wait inside `reset_dma`.

In the Windows driver: `MmMapIoSpace` failing, the thread handles that are never closed, the
interrupt and power callbacks, which only return a status, tracing.

In the radio programs: printing, argument parsing beyond the checks that decide what is
written, and `turn_on`, `turn_off` and `read_channel`, which nobody calls.

Other parts: `reference/adf4350.c`, `reference/driver1_util.cpp` and `libs/dev` are reference
material and older copies, not built (the chip model of `RadioTools` takes the register layout
from `adf4350.h`); the Windows test programs call ReadFile and DeviceIoControl once each; the DSP
program is sequential floating-point filtering; the flowgraphs and shell scripts define no
state; the firmware is there only as a binary.
