# Verification of BayTrail_2000

TLA+ models of the parts of this firmware whose correctness depends on
interleavings, interrupts, lost messages, power failures and half-finished
flash writes, with TLC runs on small instances and TLAPS proofs for every
instance.

## The system

The repository is an AMI Aptio V UEFI firmware for Intel Bay Trail boards: some
8,700 files, most of them EDK II, Intel reference code, CPU and chipset
initialisation, device drivers and the setup browser. It has no tests; what the
code is meant to do is stated in the `Help` texts of the `.sdl` files, in
function headers and in comments. Paths below are relative to `src/`.

### Components, their state and their operations

| Component | State it keeps | Operations | Interacts with | What makes it correct |
|---|---|---|---|---|
| NVRAM variable store (`AmiModulePkg/NVRAM`) | two flash regions with FFS file headers, a log of NVAR records in each; in memory the region in use, first and last record | SetVariable, GetVariable, GetNextVariableName, garbage collection, discovery at boot | flash driver (writes), PEI (which region), every driver | a request is atomic under power failures and flash errors; a valid store always exists; readers agree with flash |
| SMI rendezvous (`IA32FamilyCpuPkg/PiSmmCpuDxeSmm`) | arrival counter, one Run semaphore, Busy lock, Present flag and procedure per CPU, BSP index | SmiRendezvous, BSPHandler, APHandler, SmmStartupThisAp | chipset and APIC (SMIs), SMM core, MTRRs shared by threads | handlers run alone; nobody is left behind; MTRRs are given back; no signal leaks into the next SMI |
| BIOS update (`AmiModulePkg/Recovery/ReFlash`, `Recovery/FtRecovery`, `FlashDriver`, `Flash`) | flash contents, Top Swap bit, list of areas, list of volumes whose signature is held back | FtControlFlow, FwUpdate, FlashWalker, flash Update/Erase/Write | PEI (checks signatures, recovery mode), chipset (Top Swap), setup options | a boot block to start from at every moment; no torn volume is booted; the machine gets back to a normal boot |
| DXE events, timers, TPL (`MdeModulePkg/Core/Dxe/Event`) | notification queue per TPL, mask of the queues in use, sorted timer list, current TPL | CreateEvent, SignalEvent, CheckEvent, WaitForEvent, CloseEvent, SetTimer, RaiseTPL, RestoreTPL, timer tick | timer interrupt (`SmartTimer.c`), every driver | no signal is lost; code is preempted by higher TPLs only; timers fire; nothing refers to a closed event |
| MTFTP4 client (`AmiNetworkPkg/.../Mtftp4Dxe`) | pending operation, ranges of missing blocks, server port, last packet, retry and timeout counters | Configure, ReadFile, WriteFile, input callbacks, timer tick | UDP, a server, the user's callbacks | a success means a complete file; client and server stay in step; every operation ends |
| xHCI host controller driver (`AmiModulePkg/Usb/Rt/Xhci.c`) | transfer rings, command and event ring in memory shared with the controller, polls of periodic devices, reports held back | BulkTransfer, ActivatePolling, DeactivatePolling, ProcessInterrupt, recovery of endpoints | host controller (rings, doorbells), mass storage and keyboard drivers, periodic SMI | sizes are those really moved; a failed transfer leaves nothing on the rings; a keyboard keeps being polled; calls return |
| SMM core (`MdeModulePkg/Core/PiSmmCore`) | lists of SMI handlers, SMRAM state | register, unregister, dispatch, lock | rendezvous, SMM drivers | lists stay sound when handlers change them during dispatch |
| Flash through SMI (`SmiFlash`, `SecureFlash`, `Ofbd`) | update session, image buffer | load, verify, set method, write | flash utility, flash driver | only the verified image is written |
| Capsules, lock box, secure boot, boot selection, the rest of USB, storage, CSM, console, TPM | see `PROJECT.json` | | | |

### What is hard

* **Crash consistency.** NVRAM and the BIOS update overwrite the data the
  machine needs to start. Power can fail between any two flash writes, and a
  flash part can report an error after a write that did take effect.
* **Concurrency without an operating system.** Up to all CPUs of a package run
  the rendezvous with nothing but compare-exchange on shared memory, and CPUs
  may be late, absent or give up.
* **Interrupts.** The DXE core has one processor and no threads, but a timer
  interrupt can run notification functions at any instruction below
  TPL_HIGH_LEVEL, inside the core's own services too.
* **Unreliable networks.** Packets of a transfer are lost, duplicated and
  reordered, and block numbers have 16 bits.
* **Rings shared with hardware.** The USB controller works on the transfer rings
  while the driver fills, cleans up or abandons them, and the driver calls itself
  again while it drains the event ring.
* **Timeouts.** Both the BSP and the APs wait with a timer that may expire just
  when the other side arrives.

`PROJECT.json` lists these as hazards, each at its line.

## Modules

| Module | Models |
|---|---|
| `VariableStore` | abstract: a map of variables on which SetVariable is atomic |
| `NvramSwap` | the two regions of the fault tolerant garbage collection |
| `NvramSwapProofs` | its inductive invariant and the proof that it implements `VariableStore` |
| `NvramLog` | the record log inside a region |
| `MCNvramLog` | instances of `NvramLog` |
| `NvramLogStore` | `NvramLog` implements `VariableStore`; what the next boot would find is kept in a variable, so that TLC computes it once per step |
| `NvramLogProofs` | the inductive invariant of `NvramLog` and the proofs of its safety properties for a store of any size and any variables |
| `NvramStoreProofs` | the space that records take, the proof that `NvramLog` implements `VariableStore`, and its type correctness |
| `SmmRendezvous` | the SMI rendezvous |
| `SmmRendezvousProofs` | its inductive invariant and the proofs of its safety properties for any number of CPUs |
| `ReFlash` | the BIOS update |
| `MCReFlash` | builds of the firmware for `ReFlash` |
| `ReFlashProofs` | the inductive invariant of `ReFlash` and the proofs of its safety properties for any number of blocks and failures |
| `DxeEvent` | events, timers and TPLs of the DXE core |
| `MCDxeEvent` | a set of events for `DxeEvent` |
| `DxeEventProofs` | the inductive invariant of `DxeEvent` and the proofs of its safety properties for any events and any nesting of interrupts |
| `Mtftp4` | the MTFTP4 client, with a server and a network |
| `MCMtftp4` | files for `Mtftp4` |
| `Mtftp4Proofs` | the inductive invariant of `Mtftp4` and the proofs of its safety properties for any files and any number of rounds of block numbers |
| `Xhci` | bulk transfers, keyboard polling, commands and events of the xHCI driver, with a host controller |
| `MCXhci` | rings and a transfer for `Xhci` |
| `XhciProofs` | the inductive invariant of the keyboard's endpoint in `Xhci` and the proofs of `OnePollInFlight` and `FreedNotPolled` for rings of any size |

A definition whose comment begins with "Mutant" is a deliberately wrong variant
of the definition that follows it. No specification uses it; it shows that the
property it belongs to can fail.

### NvramSwap

State: `ffs` and `content` are the state byte of the FFS header and the
variables of each region; `main`, `pc`, `req`, `new` and `copied` are in memory
and are lost in `PowerFail`. The empty set in `ffs` stands for
`EFI_FILE_HEADER_INVALID`.

Actions: `PeiInitNVHelper` is the choice of a region at boot,
`DxeGetVariable`/`DxeSetVariable` begin with CheckStore, `WriteInStore` is an
update within the region (the subject of `NvramLog`), `RecoverSetVariable` and
`RecoverStore` start a garbage collection. From `EraseBytes` to `SwapStores` each
action is one flash write of `UpdateFtVarstore`. `DeviceError` is a write
that fails without effect; `MarkMain` and `SetDataValid` may also fail with effect.

Assumptions: the build has `FAULT_TOLERANT_NVRAM_UPDATE` on (its default); a
one-byte write is atomic; an interrupted header write never shows `DATA_VALID`,
which is not in the header that is written. The branch of `UpdateVarstore` that
rewrites the only store in place is modelled as the state `InPlace`, which is
proved unreachable.

### NvramLog

State: `log` is the sequence of NVAR records in flash, each with a name, a
value, a validity bit, a link to its newest data and how much of it was
written; `info` is `pFirstVar`/`pEndOfVars`. `last` remembers the last success.

Actions follow `DxeSetVariable`: `DeleteVariable`, `SameData`, `NoSpace`, the
write of header, body and link (`WriteHeader`, `WriteNewVar`, `WriteNewData`,
`WriteNext`), what
`RecoverFromFlashUpdateFailure` does when one of them fails (`HeaderFails`,
`HeaderRefused`, `BodyFails`, `NextFails`), and the two passes of the recovery of a full
store.

Assumptions: a garbage collection is one step (`NvramSwap` justifies it); the
3-byte `next` field is written atomically; an area that was partly programmed
accepts only the same record again; the hybrid copy equals the flash.
`ShortOfMemory` names the passes of the recovery in which the copy of the store
may not find memory; the static `SaveOnlyPreservedVars` is a variable, since
it outlives the call. Left out: the GUID table, checksums, the index cache, default
and volatile stores, append writes, authentication, the SMM handover and the
monotonic counter. In `MCNvramLog` the variable `setup` stands for the ones a
board always has (`Setup` and `AMITSESetup` are on the preserve list); the
`SetupAssumption` of `NvramLogStore` says so: one variable of the image is on the preserve
list, and no call deletes it. `nvram_empty` is the instance without it.

### SmmRendezvous

`pc[c]` is the line CPU `c` is at; an action is one access to shared memory and
a compare-exchange loop is the step in which it succeeds. `RaiseSmi` and
`TakeSmi` are the chipset and the processor: a CPU may take an SMI late or find
it already over. A sync timer may expire whenever it is polled, but
with `LongTimeout` only while every other CPU is outside SMM or is itself held
up: timeouts are longer than any path between two waits. `PromptWindows` names three windows (between
giving up and clearing Present, and before the Busy lock is initialised) in
which a CPU is not overtaken by a long path of another; the passing runs close
them.

Taken as atomic: the election (compare-exchange and the test of its result),
the two stores on entering BSPHandler, and the reading of Present before an SMI
IPI is sent. SmmStartupThisAp is called by the BSP from the SMM core.

### ReFlash

State: `build` has the build options and never changes (`Builds` is the set of
builds that a run covers); `flash` is the content of each block, as the image it belongs to and
whether the signature of the first block is there, or `Garbage` (erased,
half-written or with its signature destroyed); `topSwap` survives a power
failure; `updated` is `UpdatedArea` of the flash driver. `lapses` is a history of
what the code has not noticed, which the properties refer to; no guard depends on it.

Actions: `FtControlFlow` and `FwUpdate` start an update from the
setup or recovery page and from the operating system. `SkipArea` to `NextArea`
are one iteration of FlashWalker's loops, split at each flash
write. `BeforeErase`, `BeforeWrite` and `AfterWrite` are the flash driver's
signature protocol. `Boot` is
possible only when the boot block that Top Swap selects is complete.

Every erase and every write may fail. `EraseFails` and `ProgramFails` are the errors that
FlashWalker sees: it stops and the system is reset. The writes to a signature have a status
that the code ignores:

* `SetBackUpAreaFails`: FV_MAIN keeps its signature while the backup is copied over it, and
  FirstRun prevents another attempt (`ReFlashWorker.c:378-383`);
* `RestoreFails`: an area that is complete stays without its signature, is off `UpdatedArea`,
  and FlashWalker goes on as after a success (`Flash.c:418-422`);
* `KeepHeader`: BeforeErase could not destroy the signature (`Flash.c:317`), and the
  header is already the new one without it, so that Update does not erase it. When the
  erase follows, the failure of BeforeErase makes no difference; when the erase fails as well, the
  block is as before and the system is reset, which is `PowerFail`. So are errors of AllocatePool and
  Read before a block is touched. The epilogue finds no signature to restore (`UpdatedInv` below).

Assumptions: each area is one firmware volume (`FvLength` is the area size, and
the microcode in front of FV_MAIN and the separate FV_PRE_BB of a verified boot
are left out); Top Swap redirects the start of the processor, and the driver writes to
the places the ROM layout names; the hook `FtFvBeforePublishing` is that of `FtRecovery.c`
(`RomLayoutPei.c:99` has a stub of the same name). A
run-time backup lies inside FV_MAIN: the recovery volume 64 KB after its start,
the boot block at its end.

Builds: the module FtRecovery has `FtRecovery_SUPPORT` and `BUILD_TIME_BACKUP` on by default
(`FtRecovery.sdl:1-2`, `FtRecovery.sdl:16-17`), which is `BuildTime` of `MCReFlash`; with the second one off
the backup is made at run time (`RuntimeBackup`); the board turns the module off
(`BayTrailPkg/Crb.sdl:1028`, `Board`). All three are in the run `reflash`, and updates by the operating
system are possible in each.

### DxeEvent

State: `stack` is the stack of the processor, one record per call that has not
returned: the application at the bottom, notification functions, and the
services of the core between two of their steps. `tpl` and `intr` are
`gEfiCurrentTpl` and the interrupt flag, `queue` and `pending` are `gEventQueue`
and `gEventPending`, `sig` is SignalCount, `timers`, `trigger` and `period`
are the timer list, `sigList` is `gEventSignalQueue`.

Actions: a section under a lock of TPL_HIGH_LEVEL is one step, since nothing
can interrupt it; it ends with the `RestoreTpl` of the release on the stack.
`RestoreTplDispatch`, `RestoreTplNoMore` and `RestoreTplLower` are the loop of
CoreRestoreTpl, its end and the assignment that follows, with room for an
interrupt between any two. `DispatchNext` and `DispatchDone` are
CoreDispatchEventNotifies; the `CheckTimers` actions are CoreCheckTimers. Under
`mEfiTimerLock` interrupts stay enabled, so that SetTimer and CoreCheckTimers
are cut where a tick could see the list half changed. CloseEvent is cut at
each lock it takes (`CloseEvent`, `CloseEventUnlink`, `CloseEventFree`).
`TimerInterrupt` is possible whenever interrupts are enabled.

Assumptions about callers: a notification function arms and closes no timer
but that of its own event, an event is closed once, not while it is being waited
for, and not used afterwards; services are called at the TPLs that UEFI allows for them.
What else a caller of CloseEvent has to avoid is not assumed by `Spec` but stated by
`CarefulServices`: an event is not used between the first step of CloseEvent and its last, and is not closed
while CoreNotifySignalList, CheckEvent or WaitForEvent is about to use it. `CarefulSpec` is `Spec` for such callers.
The end of an interrupt handler is one step with the last
assignment of its RestoreTPL: handlers that nest there are left out.
`MaxTime` stops the clock but not the ticks.

### Mtftp4

State: the fields of the instance under the names of the code, the token of
the user (`token`, `Status`, `Buffer`, `BufferSize`), and outside the code the
sessions of the server and the packets under way. The content of a block is
its sender and its place in the file, so that blocks that are mixed up or
from two sessions can be told apart.

Actions: `Configure`, `ConfigureReset` and `Start` (Mtftp4Start with RrqStart and
WrqStart) are the calls of the user. `Input` is Mtftp4RrqInput or
Mtftp4WrqInput for one packet, with the handlers of DATA, ACK, OACK and ERROR
and with callbacks of the user that refuse a packet; `InputFails` is an error that UDP
reports; `OnTimerTick` is the tick of the service. All of these run at
TPL_CALLBACK and are one step each.

Assumptions: the server opens a session with a new port for every request that
reaches it, sends the next block after the ACK of the one before and nothing
else, and repeats its last packet `ServerRetries` times. A packet is lost at the
latest when `Window` later ones have been sent in its direction (block numbers
are reused after `Bound`, and `Window <= Bound`). Each operation has a UDP port
of its own, so packets of earlier ones do not reach it, and what the server
does after an operation has ended is left out. The server keeps the default
block size; the client is always the master; memory does not run out. Every
OACK or block starts the retries of the client anew, so that `OperationEnds` rests on the server
sending finitely many packets. Assertions are taken as those of a release build: an upload from PacketNeeded
whose last block has the number 0 ends with success in the model, while a debug build stops
at `ASSERT (Instance->LastBlock >= 1)` (`Mtftp4Wrq.c:181`).

### Xhci

State: `ring` is the transfer ring of each endpoint in memory with the
driver's `TRB_RING`, `hw` the endpoint context of the controller, `events` and
`cmds` the event and the command ring. `stack` is what the driver does next:
XHCI_ProcessInterrupt can recover an endpoint, which waits for a command, which
ends in XHCI_ProcessInterrupt. `xfer` are the locals of XHCI_BulkTransfer (its
result once it has returned), `moved` counts the bytes that the controller
moved for it, `polling`, `pending` and `processing` are `fpPollTDPtr`, the entries of
`PendingInterruptTransfer` and `ProcessingPeriodicList`.

Actions: `FillTrb`, `RingDoorbell`, `XferDone`, `XferTimeout` and `XferResult` are
XHCI_BulkTransfer, cut wherever the controller can see a difference; `Command`
to `AbortTimeout` are XHCI_ExecuteCommand with its abort; `ProcessPending` to
`RearmStalled` are XHCI_ProcessInterrupt with XHCI_ProcessXferEvt, one event per step.
The callers are mass storage (`BeginTransaction`, `BulkTransfer`, `ClearFeature`,
`EndTransaction`), the periodic SMI (`Poll`) and the connection of a
keyboard (`ActivatePolling`, `DeactivatePolling`). The `Hw` actions are the
controller, which is external and follows the use the driver makes of it.

Assumptions: the endpoint is seen Running right after the doorbell, before the
device can answer; the caller clears each stall before the next transfer, as
UsbMass does; keyboards come and go outside of mass storage transactions; the
ports stay enabled; no endpoint gets into the state XHCI_EP_STATE_ERROR. The control transfer of
ClearFeature is abstracted to what its end does with the rings. The constants `LateHalt`,
`SlowRetire` and `Aborts` open three windows that the run keeps closed.

## Runs

| Run | Distinct states | Shows |
|---|---|---|
| `nvram_swap` | 174,890 | a boot always finds a complete store and agrees with the running driver; refinement of `VariableStore` |
| `nvram_log` | 156,332 | a reported success survives a boot, reads match flash, a full or damaged store keeps the preserved variables, the others are given up only when the store is really full, even if memory ran out before; refinement of `VariableStore` |
| `smm_fixed_bsp` | 70,203 | three CPUs, CPU 0 is the BSP: handlers run alone, no token or procedure is left, nobody is admitted late |
| `smm_election` | 36,748 | two threads, overlapping SMIs, BSP election: MTRRs, reports to the BSP, every CPU resumes |
| `reflash` | 657,928 | updates of the three builds by the driver and by the operating system, any erase or write may fail: a fault tolerant build has a boot block to start from unless one of the lapses below happened, a torn volume is noticed by the next boot unless the flash error was on its last block or in SetBackUpArea, and a machine that can start gets back to a normal boot |
| `dxe_event` | 179,594 | an application and notification functions at two TPLs that call every service, as far as `CarefulServices` allows, with interrupts everywhere: no signal lost, no preemption at the same TPL, sound timer list, a closed event on no list, in no queue and in no call that goes on, every notification and timer is served |
| `mtftp4` | 322,502 | transfers, one after another, over a bad network, with block numbers that roll over twice: complete files, accurate sizes, client and server in step, every operation ends |
| `xhci` | 269,184 | transfers in several rounds that succeed, fall short, stall, fail or time out, with a keyboard on the same event ring: sizes are exact, nothing is left on the rings, exactly one poll is in flight, a freed buffer is not used, every call returns, polling goes on |

The other runs each show one disagreement between the code and what its
comments and assertions say:

| Run | Disagreement |
|---|---|
| `nvram_empty` | a failed write in an empty store leaves a hole as first record, which readers "assume" to be a variable; a later success is invisible |
| `smm_nonblocking` | a procedure scheduled without blocking can be dropped when the SMM core returns |
| `reflash_last_block` | the signature is restored even if the last block could not be written |
| `dxe_event_close` | a notification that runs inside CloseEvent can arm the timer of the event again, after the step that makes "sure it's not pending" |

The same modules show more, with other values of their constants:

* `NvramLog` with `ShortOfMemory = {"Recover", "SecondPass"}` violates
  `DroppedOnlyWhenFull`: `SaveOnlyPreservedVars` is reset only by CopyVariables
  (`NvramDxe.c:3495`), and the second pass that cannot allocate its copy leaves it set,
  so that a later, successful garbage collection of a store with enough room
  drops every variable that is not preserved.
* `SmmRendezvous` without `"ApInitBusy"` in `PromptWindows` violates
  `BusyWhileRunning`: an AP initialises its Busy lock (`MpService.c:455`) after
  it has reported to the BSP, which may have acquired the lock by then.
* `SmmRendezvous` with two CPUs, `BspElection = FALSE` and `PromptWindows =
  {"ApInitBusy"}` violates `RunDrained`: an AP that gives up can leave with a token in its
  Run semaphore, which the code asserts to be 0 (`MpService.c:409`, `MpService.c:815`).
* `ReFlash` violates `BootBlockIntact` without any one of the exceptions of `AtRisk`, and
  `OnlyLastBlockMissed` without its own. Each is something the code does not notice:
  * the signature of the boot block or of FV_RECOVERY could not be restored (`Flash.c:418`); FlashWalker
    reports success and Top Swap is switched off (`ReFlashWorker.c:256`), away from the complete backup;
  * the signature of FV_MAIN could not be destroyed before the backup is copied over it (`ReFlashWorker.c:383`);
    after a power failure a normal boot takes the volume. This lasts until the header of FV_MAIN is
    erased; it is the exception of `OnlyLastBlockMissed`;
  * with a build-time backup FtControlFlow switches to the backup without looking at it
    (`ReFlashWorker.c:748`), although an earlier update may have left it torn or without its signature;
  * in the same build, with the boot block update deselected, ApplyUserSelection has looked at Top Swap
    (`ReFlash.c:162`) before FtControlFlow switches it on. The backup areas are rewritten while the processor
    would start from them, and without any failure the update ends with Top Swap on;
  * `FwUpdate` calls FlashWalker without FtControlFlow (`Esrt.c:402`), so that the boot block is rewritten without a backup.
* `ReFlash` with the build `BuildTime` violates `InterruptionNoticed` even without flash errors: the backup areas are rewritten
  when Top Swap is off again and the old FV_MAIN is still valid, so that a power failure there is
  followed by a normal boot with a torn backup (the comment at `ReFlashWorker.c:682-686` is aware that nothing verifies them).
* In `DxeEvent` code can run while a notification of a higher TPL is queued,
  although "if the new priority unmasks events at a higher priority, they are
  dispatched" (`Tpl.c:90`): an interrupt after the loop of CoreRestoreTpl
  restores to the TPL that has not been lowered yet (`Tpl.c:132`). The
  notification waits for the next service or tick; `EventuallyNotified` holds.
* `DxeEvent` violates `ClosedUnused` when either part of `CarefulServices` is left out. Without
  the first, a notification inside CloseEvent arms the timer again (`dxe_event_close`). Without the
  second, a notification closes an event that is about to be used: CoreSignalEvent counts the signal and
  then calls CoreNotifySignalList (`Event.c:562`), which takes the event lock anew.
* `Mtftp4` with `Upload(3, "Buffer", 1)` and `Bound = 2`, that is with an upload whose
  last block has the highest number, violates `UploadWithinFile`. Mtftp4RemoveBlockNum
  rolls over, so the range does not get empty, "Block number
  rolls back, not supported" (`Mtftp4Wrq.c:189`) is never sent and the client
  goes on with block 0, read from in front of the buffer.
* `Mtftp4` with `Download(5, 1, 1)` and `Bound = 2`, that is with a last block of number 0
  that does not fit, violates `ResultAccurate`: `LastBlock != 0`
  (`Mtftp4Rrq.c:207`) takes it for a block in the middle, and the download of a
  truncated file succeeds.
* `Xhci` with `LateHalt = TRUE` violates `NothingLeftBehind`: a device that
  fails between the timeout of the driver and the Stop Endpoint command leaves a halted
  endpoint, which XHCI_ClearEndpointState (`Xhci.c:4126`) does not handle, nor
  does a later ClearFeature. The other invariants hold.
* `Xhci` with `SlowRetire = TRUE` violates `NothingLeftBehind` and `SizeAccurate`:
  the Chain flag of the Link is cleared (`Xhci.c:2738`) while the controller may
  still walk through a TD that a short packet ended; the rest is then a TD of its own.
* `Xhci` with a command in `Aborts`: the callers ignore the status of the
  command. For bulk, each of the three violates `NothingLeftBehind`; for the
  keyboard, Reset or Set TR Dequeue Pointer violates `OnePollInFlight` and Stop
  violates `FreedNotPolled`.

One disagreement is visible without a run: the NVRAM area is added to the list
of areas as `FvTypeCustom` (`ReFlashWorker.c:714`) and ApplyUserSelection looks for
`FvTypeNvRam`, so the setup option for NVRAM has no effect. `UpdateMain` is not
used either.

The `TypeOK` of `NvramLog`, `DxeEvent` and `Xhci` hold in the same instances
and are there for the proofs; their runs check the properties above.

### Bounds

* `NvramSwap` is finite without bounds: any number of requests, garbage
  collections and failures. Two variables (one preserved) and two values tell
  apart all outcomes of a request.
* `NvramLog`: a store of five small records holds three variables of mixed size
  plus an update and a hole, so that it fills up and is compacted; large values of
  all three do not fit, so that the second pass of the recovery happens, and
  fails when the two preserved ones leave no room. No bound on requests or failures.
* `SmmRendezvous`: `MaxSmi` and `MaxTasks` bound SMIs and procedures. Three CPUs
  are the fewest with two APs in different situations; two SMIs are the fewest
  in which state can leak from one to the next. `Uint32Max` is 15: only its
  distance from the number of CPUs matters. `CHECK_DEADLOCK FALSE` since
  the system rests when all SMIs are used up.
* `ReFlash`: two blocks per area (a first and a last), `MaxFailures` 2 so that
  a failure can hit an update and the recovery from it, or an ignored error be followed by a power
  failure, which is what every lapse needs to show. With 3 the run passes too (4 million states, nearly 5 minutes),
  and the invariants are proved for any number. Deadlock is not checked: without fault tolerance an interrupted boot block
  update leaves a machine that does not start.
* `DxeEvent`: four events are a timer with a notification function, a timer to
  wait for, and a group whose members have different TPLs. Three calls suffice for
  one call inside a notification inside another call; ticks are unbounded and
  the clock stops at 2, after two periods of a timer. They also suffice to violate
  `ClosedUnused` without either part of `CarefulServices`.
* `Mtftp4`: `Bound` 2 stands for 0xffff, so that a download of six blocks rolls
  over twice (the second round is longer than the first) and an upload of four from PacketNeeded once; the download fits
  exactly and has an empty last block; a buffer of one byte is too small for two
  blocks. Two sessions of the server are the fewest that can be mixed up. No
  bound on the number of operations. The timeout is one tick for the long files and two for
  the short ones, where it can be restarted before it expires.
* `Xhci`: rings of three TRBs and one TRB before the Link, and a transfer of three bytes at an
  odd address, which takes a round of two TRBs and one of a single TRB, so that TDs
  start at every place of the ring and cross the Link, after failures too. One report of the keyboard during each call
  (more arrive over several calls), one that is held back, an event
  ring of five entries, which is the controller's to fill. No bound on calls or failures.

### Fairness

* `SmmRendezvous`: weak fairness for each CPU inside SMM, as it cannot be
  preempted there; none for taking an SMI, and none for the chipset.
* `ReFlash`: the machine is switched on again, the driver does not stop by
  itself, and in recovery mode an image is provided. No fairness for a user who
  starts an update in a normal boot, and failures stop after `MaxFailures`.
* `DxeEvent`: the processor goes on with the core's code, the timer keeps
  interrupting, and its period is longer than its handler, so that what is
  interrupted goes on as well (strong fairness, since each disables the other
  again and again). None for the application and for notification functions
  to call services.
* `Mtftp4`: weak fairness for the tick of the service and nothing else.
  The server may stop and the network may lose every packet.
* `Xhci`: weak fairness for the driver's thread, for the controller's command
  ring and for its way over Links and the rest of an ended TD; strong fairness for the end of
  a transaction, for the ClearFeature after a stall and for the periodic
  SMI. No device has to answer.

## Proofs

`NvramSwapProofs` proves for all sets of variables, values and preserved
variables, from `NvramAssumption` (the special values are distinct and the preserve
list consists of variables):

* `TypeCorrect`, `Recoverable`, `Agreement`: the three invariants of the run
  `nvram_swap`;
* `Refinement`: `Spec => RefinesVariableStore`.

`AlwaysRecoverable` is not inductive: that *some* region is valid says nothing
about which one survives the next write. The inductive invariant `IInv` adds

* `FlashInv`: the region a boot would choose is the *only* candidate (if both
  have `DATA_VALID`, exactly the other one is marked) and is complete;
* `RequestInv`: a request is pending only while it is being worked on;
* `UpdateInv`: while a garbage collection runs, the region in use is the one a
  boot would choose, the memory store is one of the contents the request permits, the
  copied part of the backup equals it, the backup's header is not yet valid,
  and at the commit the backup is complete and the main store marked.

The core lemma is `ValidStoreIsChosen`: with one candidate, the check arrives at it
from whichever region it takes for the main one. For the refinement only
`SetDataValid` (commit), `WriteInStore` (commit) and the steps that drop the
request (abort) change the abstract state; all the other steps stutter.

### NvramLogProofs

From `LogAssumption` and `SetupAssumption`, for a store of any size, any variables
and data, any image, and whatever writes fail:

* `ReadsAgree`, `SuccessIsDurable`: the invariants `ReadsMatchFlash` and `SuccessDurable`;
* `PreservedStay`, `DropsOnlyWhenFull`: the action properties `PreservedKept` and
  `DroppedOnlyWhenFull` of `StoreSpec`.

`SuccessIsDurable` and `DropsOnlyWhenFull` have the hypothesis that the second pass of the recovery does not
run out of memory, as in the run `nvram_log`: otherwise `SaveOnlyPreservedVars` outlives its call (see above) and a
later compaction drops variables. The other results do not need it. The hypothesis stands
at the theorem and not among the assumptions; what the invariant says of the flag (`FlagInv`) begins with it.

None of the four is inductive, since they speak of what two walks find and not of why they
find it. `LogInv` says of the flash (`LogOK`) that record 1 is complete, a record without a size comes after
all complete ones, a `next` field leads to a later complete record of the same variable, and no
variable has two valid first records. It says of `pFirstVar` and `pEndOfVars` (`Usable`) that they enclose
all records that count but the one under way; between two writes that change the store they enclose
all (`Covers`). `WriteInv` says what the record under way is.

`Effect` is what a step may do to the variables that a boot finds: nothing, what the
request asks for, or dropping variables that are not preserved. There is one lemma per step; below them

* `UsableFacts`, `CoversFacts`, `InitCovers`: the walks of `NvGetNextNvar` and `EnumerateStore` in such a log
  visit exactly the complete records, and what `NvInitInfoBuffer` finds is good;
* `FollowUnfold`, `FollowSame`, `DataPlace`: `NvGetDataNvar` stops at the current data of the variable, and
  does not depend on records of other variables;
* `CopyFacts`, `CompactFacts`, `RecoverFacts`: a compaction has one record for each variable copied, with the data
  that the links led to;
* `DeleteFacts`, `ProgramFacts`, `SignFacts`, `LinkFacts`: one per group of flash writes, saying what it does to
  what a boot finds.

The walks and copies are recursive functions of a record number, and the inductions over that number are in
sets (`Upwards`, `Downwards`): the set of numbers for which the claim holds has no least exception. For this
`CopyVariables` and `Space` are written as such functions too.

### NvramStoreProofs

* `LogRefinement`: `StoreSpec => RefinesVariableStore`, with the hypothesis on the second pass from above;
* `LogTypeCorrect`: `TypeOK`, so the records never take more than the store has;
* `StoreNeverEmpty`: `FirstVarValid`. The run `nvram_empty` violates it with an image without
  variables, so `SetupAssumption` is what the code relies on.

The refinement maps the log to what a boot finds and the call under way to the pending request. The request
is committed by the signature of a new variable, by the link of an update, by the valid bit of a deletion or by a
compaction, also when the write is reported as failed and the error recovery goes on: then the
record already counts, and the second pass must not drop other variables any more, since `VariableStore` has nothing pending
that could be aborted. `RoomInv` says why it does not: a record is written only if it fits together with all records before
`pEndOfVars`, and the copies of those take no more space than they do (`CopySpace`), so the first
pass has room for it. `CopySpace` adds up the records that hold the data of
different variables: these are different records (`DataPlace`), so each is counted once.

`LogTypeCorrect` adds `FitInv`. Its interesting step is a header: it is appended if the space before `pEndOfVars`
suffices, but behind that there may be the rest of a failed attempt; it can be programmed only over the same record, of
the same size (`ProgramFits`).

### SmmRendezvousProofs

For any finite set of CPUs, any assignment of threads to cores and any number of SMIs
and procedures:

* `RendezvousTypeCorrect`: `TypeOK`, so the counts stay within UINT32;
* `CoreRunsAloneHolds`, `RunDrainedHolds`, `BusyWhileRunningHolds`,
  `PendingTasksCompletedHolds`, `MtrrsConsistentHolds`, `ApsReportToBspHolds`: the
  invariants of the runs `smm_fixed_bsp` and `smm_election`;
* `NoLateAdmissionHolds`: their action property.

The hypothesis `Premise` says what the code does not enforce: sync timeouts are longer
than any path between two waits (`LongTimeout`), the three windows of
`PromptWindows` are closed, and procedures are started with blocking calls
(`PcdCpuSmmBlockStartupThisAp`), or not at all. The default of
that token is FALSE (`IA32FamilyCpuPkg.dec:91`), with which TLC violates
`RunDrained` and `BusyWhileRunning` as well as `PendingTasksCompleted` once there
are procedures; what the windows are needed for is said with the runs above.

None of the invariants is inductive: what a CPU may do depends on where all the
others are. `IInv` adds

* `RoleInv`: one CPU at most is between election and release, `BspIndex` names it,
  and its locals agree with what each CPU has in the shared data;
* `PhasesInv`: the lines another CPU can be at, and whether it holds a token, for
  each line of the BSP;
* `CounterInv`: until the lock-down `Counter` is the number of the CPUs that
  have counted themselves and not given up, and afterwards nobody gets in;
* `ReportsInv`: the tokens in the BSP's Run semaphore plus the reports still to come
  are what the BSP is going to wait for, so that it does not go on
  early (that it does go on is liveness, left to TLC);
* `TaskInv`: a procedure that has not run yet is the one the BSP is blocked on;
* `MtrrInv`: which MTRRs a core has and which were saved, by the phase of its threads.

The theorems about counts rest on lemmas about cardinalities of sets that
gain or lose one CPU.

### ReFlashProofs

From `ReFlashAssumption` (an area has at least two blocks, and an erased block differs
from every block of an image), for any images, sizes and power failures, and errors of every erase and write,
the ignored ones included:

* `ReFlashTypeCorrect`: `TypeOK`, for every build;
* `BootBlockIntactHolds` and `OnlyLastBlockMissedHolds`: the invariants of the run
  `reflash`, for every build, with the exceptions stated in `AtRisk` and in the property and no other hypothesis;
* `InterruptionNoticedHolds`: without flash errors, in builds without a build-time backup
  (`NoBuildTimeBackup`), a normal boot has found every area
  complete. The run `reflash_last_block` shows that the first hypothesis is needed, and the list above the second.

That the boot block is complete says nothing about the copy the next step switches
to, and that FV_MAIN is complete when signed says nothing about a volume in the
middle of an update. `IInv` adds

* `WalkInv`: in the middle of an area FlashWalker is in one that is to be done;
* `LapseInv`: which lapses are possible in which build, and when;
* `UpdatedInv`: exactly the signature of the area in progress is held back, from the
  erase of its first block to the end of its last one, and none during a backup or
  when the update is over (so that disabling the flash writes restores nothing);
* `ProgressInv`: the blocks the pass has dealt with are those of the image, the
  first without its signature; an interrupted block is erased; FV_MAIN has no signature
  while the backup is written into it, unless SetBackUpArea's write failed;
* `MainInv`: a signed FV_MAIN is complete, but for an error in its last block, with the same exception;
* a boot that has started found the selected boot block complete;
* `SwapInv`: Top Swap is on from the end of the backup to the end of the new boot block;
* `CopyInv`: the copy that Top Swap selects is complete and of one image, the other
  one is complete up to the block that is reached.

The core lemmas are `OnlyDest` (a step writes no block but the one FlashWalker is at, or
the header of its area), `BackUpPlaces` (the places of the copies are distinct and
never the header of FV_MAIN) and `MainHidden`.

### DxeEventProofs

From `DxeEventAssumption` (notification functions run at TPL_CALLBACK or TPL_NOTIFY, and
`mEfiCheckTimerEvent` is not one of the drivers' events), for any events, groups, arrays to
wait for and numbers of calls, for any services called from notification functions, and
for interrupts that nest to any depth:

* `DxeTypeCorrect`: `TypeOK`;
* `PreemptedByHigherOnlyHolds`, `TimerLockExclusiveHolds`, `TimerListSoundHolds` and
  `NoSignalLostHolds`: invariants of the run `dxe_event`, and here of `Spec`: for careless callers of CloseEvent too;
* `ClosedUnusedHolds`: `ClosedUnused`, of the same run, for `CarefulSpec`.
  For `Spec` it is false, see above.

The properties speak of frames that may lie far apart on the stack, and a step sees only
the last two. `IInv` adds

* `StackOK`: which frame may lie on which (`Fits`), and that the TPL of the frames (`Floor`)
  never falls from the bottom to the top and rises strictly at every dispatch. So a holder of
  `mEfiTimerLock`, at TPL_HIGH_LEVEL - 1, has no second one above it: SetTimer would be called by code
  at TPL_NOTIFY or lower, and the dispatch of CoreCheckTimers would be above its own TPL;
* `RunsAt`: the current TPL is that of the last frame, except before RestoreTpl has lowered it;
* `ArmInv`: a timer that a suspended SetTimer or CoreCheckTimers is about to insert is not on
  the list, which is sorted. It is kept because there is only one such call (`LockAlone`);
* `CreatedInv` and `SignalInv`: an event that exists and has a notification function is on
  `gEventSignalQueue` unless it is being freed, so that CoreNotifySignalList finds it; a
  signalled event is queued, or a caller that will queue or free it is on the stack.

For `ClosedUnusedHolds`, `CloseInv` adds what a call on the stack still needs. The event of a CloseEvent
that goes on is off the timer list (it has been cancelled), and off the queues and `gEventSignalQueue`
before it is freed; every other call on the stack has an event that exists (`Needed`); and an event has
at most one CloseEvent on the stack (`OnceEach`). The two parts of `CarefulServices` are needed for calls that
may nest inside each other; two conflicts the code excludes by itself. No call about to insert a timer is
below code at TPL_NOTIFY or lower (`NoHolder`), so CloseEvent cannot run into SetTimer or CoreCheckTimers, and
nothing lies below a WaitForEvent (`ApplicationAlone`). `FramesStep`, `QueueStep` and `TimersStep` follow the
frames, the queues and the timer list through a step.

The lists rest on lemmas about what filtering, inserting and taking the first element do to
the elements and their order (`KeepFacts`, `InsertFacts`, `UnlinkFacts`, `TailFacts`). `KeepFacts` is proved
by induction along the list: `UpTo` is induction in the form of a least counterexample
(from `WFMin`), a fact about sets of numbers, which the provers can apply.

### Mtftp4Proofs

From `Mtftp4Assumption` (the greatest block number, the block size and the bounds are
numbers, the tokens are well-formed, and `Window <= Bound`), for files of any length, any
number of server sessions, retries and duplicates:

* `TypeCorrect`: `TypeOK`;
* `StaysInStep`, `SendsOnlyFile` and `TellsTheTruth`: `InStep`, `UploadWithinFile` and
  `ResultAccurate`, the invariants of the run `mtftp4`.

The hypothesis `Premise` says that the files are `Transferable`: it leaves out the two
cases in which TLC finds the code wrong (an upload that ends in a block with the
greatest number, a download that ends in block 0 and does not fit, see above) and uploads from a
buffer with more than `Bound` blocks, whose block numbers Mtftp4WrqSendBlock does not unroll. Uploads from
PacketNeeded and downloads may roll over any number of times.

`InStep` is not inductive: a packet is accepted by its block number alone, and the number of
an old block can be that of the next one. `Inv` adds

* `Ranges`: one range is left. It starts with block `Expected` of the file, with the round counted,
  and ends at `Bound`, or at the last block of an upload once that is sent;
* `Pending`: the packet to send again is the one for `Expected`;
* `InSession`: a session that the client listens to, or could still connect to, is at `Expected` or one
  block before it, and an upload session has got exactly the blocks up to there;
* `Sent` and `Answer`: a packet under way is about block `k` of the file, where `k` is no farther behind
  than later packets have been sent in its direction;
* `Way`: the packets under way have different ages, all less than `Window`.

With `Window <= Bound` it follows that a packet with the number of the block expected is that very block
(`Awaited`, from `Matching`: two blocks with the same number are at least `Bound + 1` apart). The core
lemmas about the code are `PlaceFacts` (what GetNextBlockNum, SetLastBlockNum, RemoveBlockNum and the
computation of TotalBlock do to the one range), `BackNumber` (the number of the ACK, computed back from the next
block across the roll-over) and `RrqBlock` (where Mtftp4RrqSaveBlock puts a block).

### XhciProofs

From `XhciAssumption` (rings with at least one TRB before the Link, positive bounds), for rings of
any size, any transfers and any number of reports:

* `PollNeverLost`: `OnePollInFlight`;
* `FreedBufferSafe`: `FreedNotPolled`, both invariants of the run `xhci`.

The hypothesis `Premise` says that no abort cancels a command for the keyboard's endpoint; with such a
command in `Aborts` TLC finds both properties violated (see above). It says nothing of the bulk endpoint: the two
theorems hold with `LateHalt`, `SlowRetire` and aborted bulk commands as well, which the run excludes because
other properties fail there.

The two properties count polls; they do not say why the next step keeps the count. `Inv` adds

* `Produced`: the TRBs before the enqueue pointer have the driver's cycle bit, the others and the Link do not,
  and the last one asks for an event. With it a controller that has caught up with the driver (`Caught`) finds no TRB,
  and one that is behind (`Armed`) finds exactly one, also when it still has to follow the Link;
* `Polled`: the poll is with the controller, in the event ring or held back, and what that says about the
  endpoint's state. A report is held back past the end of a transaction only until XHCI_ProcessInterrupt
  runs (`Quiet`), so a keyboard is never disconnected with one;
* `Recovering`: the stages of XHCI_ClearStalledEp and of the poll after it. Which steps are on the stack,
  whether the command is in the command ring, has been executed or is answered, and that Set TR
  Dequeue Pointer moves the controller to where the next TRB will be (`ToEnd`). A completion that comes after
  the timeout is found by the second wait, because a wait for a command ends without a
  completion only when the command ring is empty;
* `Stopping`: the same for XHCI_DeactivatePolling and XHCI_DeinitDeviceData. After the first Stop
  Endpoint command nothing makes the endpoint run again;
* `Absent`: without a keyboard, what the last one left in the event ring is drained before the driver
  returns.

The frames of the bulk endpoint below and above these steps are only known to be `Plain`, and all steps of the bulk
endpoint are covered by two lemmas, `BulkStep` for the driver and `OutsideStep` for the controller. The core
lemmas about the code are `AdvanceFacts` and `QueueFacts` (XHCI_AdvanceEnqueuePtr and the TRB of a poll, at the Link
and elsewhere) and `OutstandingFacts`.

### Only model-checked

* `SizeAccurate` and `NothingLeftBehind` of `Xhci`, not proved yet: they relate sums of sizes over
  the TRBs of a TD, which may wrap around the ring, to what the controller has reported so far.
* `InterruptionNoticed` with flash errors or a build-time backup, where it is false (see above).
* Since the prover does not handle fairness, the liveness properties `EveryCpuResumes`,
  `NormalBootAgain`, `EventuallyNotified`, `TimersFire`, `OperationEnds`, `CallsReturn`
  and `PollingGoesOn`.

## Plan

Done, in this order: `NvramSwap` with its proofs, `NvramLog`, `SmmRendezvous`,
`ReFlash`, `DxeEvent`, `Mtftp4`, `Xhci`, and the proofs of `SmmRendezvous`, `ReFlash`, `DxeEvent`, `Mtftp4`,
`Xhci` and `NvramLog`. Next:

1. Proofs: `NothingLeftBehind` of `Xhci`.
2. `SyncTimer`: the arithmetic of `SyncTimer.c` (a roll-over of the
   performance counter between two polls) against elapsed time, composed with
   the rendezvous.
3. `SmmCore`: `Smi.c` (handlers changed during dispatch) and the dispatcher.
4. `SecSmiFlash`: the update session between a utility and SMM.
5. NVRAM: the hybrid copy, the index cache; other clients of the flash driver (nested write enables, partial
   updates).

## Not modelled

Device drivers (the rest of USB, AHCI, NVMe, SDIO, PS/2, serial), PCI enumeration, memory
initialisation, the compatibility module, the setup browser, the network stack
apart from MTFTP4, cryptography and the TPM: their behaviour is determined by hardware, binary
code or presentation, and has little state shared between actors. Vendored
EDK II and OpenSSL code is left out except where it is on the plan.
`PROJECT.json` gives the reason for each component.

The repository has 1.9 million lines in some 4,700 source files, nearly all of
them register definitions, hardware initialisation and vendored protocol stacks.
The models cover the parts with the most shared state and the most failure cases,
a small share of these lines, and no set of models of this kind could cover a
large one.
