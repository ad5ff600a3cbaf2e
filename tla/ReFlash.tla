------------------------------- MODULE ReFlash -------------------------------
(***************************************************************************)
(* The BIOS update of the ReFlash driver, on top of the flash driver.      *)
(*                                                                         *)
(* An update walks through the areas of the flash part, block by block.    *)
(* The flash driver keeps the signature of a firmware volume destroyed     *)
(* until its last block is written, and the fault tolerant control flow    *)
(* keeps a copy of the boot block areas, which the chipset starts from     *)
(* when its Top Swap bit is on, until the new ones are complete.           *)
(*                                                                         *)
(* One step is one write to flash or to the Top Swap register.  The power  *)
(* may fail between any two steps and every erase and every write may      *)
(* fail.  The driver ignores the status of the writes to a signature.      *)
(***************************************************************************)
EXTENDS Integers, Sequences, Functions

CONSTANTS
  Images,           \* the BIOS images an update may be made with
  Garbage,          \* a block that is erased, half-written or has lost its signature
  Blocks,           \* the number of flash blocks of an area
  Builds,           \* the builds of the firmware: records of ft
                    \* (FtRecovery_SUPPORT), backup (BUILD_TIME_BACKUP: the
                    \* backup areas are part of the image) and capsules
                    \* (updates may be started by the operating system)
  BootBlockChoices, \* the values the setup option UpdateBb may have
  FlashErrors,      \* the flash part may report errors
  MaxFailures       \* bound on power failures and flash errors together

ASSUME ReFlashAssumption ==
  /\ Blocks \in Nat /\ Blocks > 1 /\ MaxFailures \in Nat
  /\ Builds \subseteq [ft : BOOLEAN, backup : BOOLEAN, capsules : BOOLEAN]
  /\ FlashErrors \in BOOLEAN
  /\ Garbage \notin [image : Images,
                    area : {"BB", "RECOVERY", "BB_BACKUP", "RECOVERY_BACKUP", "MAIN", "NVRAM"},
                    block : 1 .. (2 * Blocks + 1), signed : BOOLEAN]
  /\ BootBlockChoices \subseteq BOOLEAN

VARIABLES
  build,     \* the build of the firmware, which never changes
  flash,     \* flash: the content of every block
  topSwap,   \* the Top Swap bit, which survives a loss of power
  pc,        \* how far the driver is
  job,       \* the image, the user's selection and the BackUp flag of FlashWalker
  i, k,      \* FlashWalker's area and block
  updated,   \* UpdatedArea: the areas whose signature is held back
  failed,    \* Status is an error
  failures,  \* the power failures and flash errors so far
  lapses     \* history: what the code has not noticed (see Lapses)

vars == <<build, flash, topSwap, pc, job, i, k, updated, failed, failures, lapses>>
walk == <<job, i, k>>

FtRecovery == build.ft
BuildTimeBackup == build.backup
Capsules == build.capsules

NoJob == [image |-> Garbage, bb |-> FALSE, backUp |-> FALSE]
------------------------------------------------------------------------------
(***************************************************************************)
(* The ROM layout and the list of areas to update                          *)
(***************************************************************************)
TempRomLayout ==
  IF ~FtRecovery THEN <<"BB", "MAIN", "NVRAM">>
  ELSE IF BuildTimeBackup
       THEN <<"BB", "RECOVERY", "BB_BACKUP", "RECOVERY_BACKUP", "MAIN", "NVRAM">>
       ELSE <<"BB", "RECOVERY", "MAIN", "NVRAM">>

Areas == Range(TempRomLayout)
IsBootBlock(a) == a \in {"BB", "RECOVERY"}

\* Without build-time backups, FV_MAIN is large enough for its own header
\* block and for a copy of the two boot block areas behind it.
Size(a) == IF a = "MAIN" /\ ~BuildTimeBackup THEN 2 * Blocks + 1 ELSE Blocks
Addresses == UNION {{a} \X (1 .. Size(a)) : a \in Areas}

\* CreateFlashUpdateArea takes the areas of the layout in turn: a boot block goes
\* to the next place from the front, FV_MAIN to the last place and everything
\* else to the next place from the end.  That gives one list per layout.
BlocksToUpdate ==
  IF ~FtRecovery THEN <<"BB", "NVRAM", "MAIN">>
  ELSE IF BuildTimeBackup
       THEN <<"BB", "RECOVERY", "NVRAM", "RECOVERY_BACKUP", "BB_BACKUP", "MAIN">>
       ELSE <<"BB", "RECOVERY", "NVRAM", "MAIN">>

\* Mutant: the trigger is set on the first boot block area.
TriggerFirst(a) == FtRecovery /\ a = "BB"

\* The last boot block area of the list, which is FV_RECOVERY.
TopSwapTrigger(a) == FtRecovery /\ a = "RECOVERY"

BackUpAddress(a, b) ==
  IF BuildTimeBackup
  THEN <<IF a = "BB" THEN "BB_BACKUP" ELSE "RECOVERY_BACKUP", b>>
  ELSE <<"MAIN", IF a = "BB" THEN Blocks + 1 + b ELSE 1 + b>>

HasBackUp(a) == IsBootBlock(a) /\ ~BuildTimeBackup
------------------------------------------------------------------------------
(***************************************************************************)
(* What flash holds                                                        *)
(***************************************************************************)
\* A block of an image.  The backup areas of an image are copies.
Original(a) == CASE a = "BB_BACKUP" -> "BB" [] a = "RECOVERY_BACKUP" -> "RECOVERY"
                 [] OTHER -> a
ImageBlock(img, a, b) ==
  [image |-> img, area |-> Original(a), block |-> b, signed |-> TRUE]

\* A block with its signature put back or left out.
WithSignature(data, s) ==
  [image |-> data.image, area |-> data.area, block |-> data.block, signed |-> s]

\* Only the first block of an area holds a signature that can be missing.
Data == [image : Images, area : Areas, block : 1 .. (2 * Blocks + 1), signed : BOOLEAN]

Complete(a, img) == \A b \in 1 .. Size(a) : flash[<<a, b>>] = ImageBlock(img, a, b)

\* The signature check of a firmware volume.
FvValid(a) == flash[<<a, 1>>] # Garbage /\ flash[<<a, 1>>].signed

\* The block that the processor finds at block b of boot block area a when Top
\* Swap is on or off.
BootAddress(on, a, b) == IF on THEN BackUpAddress(a, b) ELSE <<a, b>>

\* The boot block areas found there are complete and of one image.
Intact(on) ==
  \E img \in Images : \A a \in {x \in Areas : IsBootBlock(x)} : \A b \in 1 .. Blocks :
    flash[BootAddress(on, a, b)] = ImageBlock(img, a, b)
Bootable == Intact(topSwap)

IsRecovery == topSwap \/ ~FvValid("MAIN")

\* What the code does not notice: that a write to the signature of an area failed
\* when it was to be restored (the area) or, for a backup, to be destroyed
\* ("SetBackUpArea"), that Top Swap selects a backup that is damaged or is going
\* to be rewritten ("FtControlFlow"), and that there is no backup ("FwUpdate").
Lapses == Areas \union {"SetBackUpArea", "FtControlFlow", "FwUpdate"}
------------------------------------------------------------------------------
Init ==
  /\ build \in Builds
  /\ \E img \in Images : flash = [x \in Addresses |-> ImageBlock(img, x[1], x[2])]
  /\ topSwap = FALSE
  /\ pc = "Off"
  /\ job = NoJob /\ i = 1 /\ k = 1
  /\ updated = {}
  /\ failed = FALSE
  /\ failures = 0
  /\ lapses = {}

\* What is in memory is lost.
Reset ==
  /\ pc' = "Off"
  /\ job' = NoJob /\ i' = 1 /\ k' = 1
  /\ updated' = {}
  /\ failed' = FALSE

\* A boot starts from an intact boot block; what is left is the signature of FV_MAIN.
Boot ==
  /\ pc = "Off" /\ Bootable
  /\ pc' = "Up"
  /\ lapses' = lapses \intersect {"SetBackUpArea"}
  /\ UNCHANGED <<flash, topSwap, walk, updated, failed, failures>>

\* Only boot block areas have a type that a selection applies to: NVRAM is
\* FvTypeCustom, and there is no case for FvTypeMain.
ApplyUserSelection(bb) == bb \/ (FtRecovery /\ topSwap)

\* With Top Swap on, or without fault tolerance, the image is written at
\* once.  A build-time backup is switched to before that, a run-time one
\* is made first.
FtControlFlow(img, bb) ==
  /\ pc = "Up"
  /\ topSwap' = (topSwap \/ (FtRecovery /\ BuildTimeBackup))
  /\ job' = [image |-> img, bb |-> ApplyUserSelection(bb),
             backUp |-> FtRecovery /\ ~topSwap /\ ~BuildTimeBackup]
  /\ i' = 1 /\ k' = 1
  /\ pc' = "Walk"
  /\ lapses' = IF topSwap' /\ ~topSwap /\ ~(Intact(TRUE) /\ bb)
               THEN lapses \union {"FtControlFlow"} ELSE lapses
  /\ UNCHANGED <<flash, updated, failed, failures>>

\* An update by the operating system does not use the control flow above.
FwUpdate(img, bb) ==
  /\ pc = "Up" /\ Capsules
  /\ job' = [image |-> img, bb |-> ApplyUserSelection(bb), backUp |-> FALSE]
  /\ i' = 1 /\ k' = 1
  /\ pc' = "Walk"
  /\ lapses' = IF FtRecovery /\ ~topSwap /\ bb THEN lapses \union {"FwUpdate"} ELSE lapses
  /\ UNCHANGED <<flash, topSwap, updated, failed, failures>>
------------------------------------------------------------------------------
(***************************************************************************)
(* FlashWalker: one block at a time                                        *)
(***************************************************************************)
Area   == BlocksToUpdate[i]
Source == IF job.backUp THEN flash[<<Area, k>>] ELSE ImageBlock(job.image, Area, k)
Dest   == IF job.backUp THEN BackUpAddress(Area, k) ELSE <<Area, k>>

\* Mutant: the areas without a setup option are not updated.
UpdateSelected(a) == IsBootBlock(a) /\ job.bb

Update(a) == IsBootBlock(a) => job.bb

SkipArea ==
  /\ pc = "Walk" /\ i <= Len(BlocksToUpdate)
  /\ ~Update(Area) \/ (job.backUp /\ ~HasBackUp(Area))
  /\ i' = i + 1
  /\ UNCHANGED <<flash, topSwap, pc, job, k, updated, failed, failures, lapses>>

\* SetBackUpArea destroys the signature of FV_MAIN before the first block (FirstRun).
\* If that write fails it is not tried again.
FirstRun == i = 1 /\ k = 1

AmiFlashBackUp ==
  /\ pc = "Walk" /\ i <= Len(BlocksToUpdate)
  /\ job.backUp /\ Update(Area) /\ HasBackUp(Area)
  /\ flash' = IF FirstRun THEN [flash EXCEPT ![<<"MAIN", 1>>] = Garbage] ELSE flash
  /\ lapses' = IF FirstRun THEN lapses \ {"SetBackUpArea"} ELSE lapses
  /\ pc' = "Erase"
  /\ UNCHANGED <<topSwap, walk, updated, failed, failures>>

SetBackUpAreaFails ==
  /\ pc = "Walk" /\ i <= Len(BlocksToUpdate)
  /\ job.backUp /\ Update(Area) /\ HasBackUp(Area) /\ FirstRun
  /\ FlashErrors /\ failures < MaxFailures
  /\ failures' = failures + 1
  /\ lapses' = lapses \union {"SetBackUpArea"}
  /\ pc' = "Erase"
  /\ UNCHANGED <<flash, topSwap, walk, updated, failed>>

AmiFlashProgram ==
  /\ pc = "Walk" /\ i <= Len(BlocksToUpdate)
  /\ ~job.backUp /\ Update(Area)
  /\ pc' = "Erase"
  /\ UNCHANGED <<flash, topSwap, walk, updated, failed, failures, lapses>>

\* AmiFlashProgramTs erases and writes without comparing first, because what
\* it would read is the other half of the swapped pair.
IsTopSwapArea == Area = "BB" /\ ~job.backUp

\* BeforeErase destroys the signature of an area when its first block is
\* erased, so that this block is never the same as the new one.
IsHeader(x) == x[2] = 1

\* Mutant: the signature is not held back.
HoldNothingBack(x) == updated

BeforeErase(x) == IF IsHeader(x) THEN updated \union {x[1]} ELSE updated

IsEqual == ~IsTopSwapArea /\ ~IsHeader(Dest) /\ flash[Dest] = Source

KeepBlock ==
  /\ pc = "Erase" /\ IsEqual
  /\ pc' = "AfterWrite"
  /\ UNCHANGED <<flash, topSwap, walk, updated, failed, failures, lapses>>

\* With its header FV_MAIN loses its signature after all.
Noticed == IF Dest = <<"MAIN", 1>> THEN lapses \ {"SetBackUpArea"} ELSE lapses

\* The write of BeforeErase failed, and the header is the new one without its
\* signature: so it is not erased.
KeepHeader ==
  /\ pc = "Erase" /\ ~IsTopSwapArea /\ IsHeader(Dest)
  /\ flash[Dest] = WithSignature(Source, FALSE)
  /\ FlashErrors /\ failures < MaxFailures
  /\ updated' = BeforeErase(Dest)
  /\ failures' = failures + 1
  /\ lapses' = Noticed
  /\ pc' = "AfterWrite"
  /\ UNCHANGED <<flash, topSwap, walk, failed>>

FlashEraseBlock ==
  /\ pc = "Erase" /\ ~IsEqual
  /\ flash' = [flash EXCEPT ![Dest] = Garbage]
  /\ updated' = BeforeErase(Dest)
  /\ lapses' = Noticed
  /\ pc' = "Program"
  /\ UNCHANGED <<topSwap, walk, failed, failures>>

\* Mutant: the first block is written with its signature.
WriteAsIs(x, data) == data

\* The signature of an area in UpdatedArea is left out of what is written.
BeforeWrite(x, data) ==
  IF IsHeader(x) /\ x[1] \in updated THEN WithSignature(data, FALSE) ELSE data

FlashProgram ==
  /\ pc = "Program"
  /\ flash' = [flash EXCEPT ![Dest] = BeforeWrite(Dest, Source)]
  /\ pc' = "AfterWrite"
  /\ UNCHANGED <<topSwap, walk, updated, failed, failures, lapses>>

\* A failed erase may leave the block as it was, but for a signature that BeforeErase
\* has destroyed.  It ends AmiFlashProgramTs; Update goes on to AfterWrite.
EraseFails ==
  /\ pc = "Erase" /\ ~IsEqual
  /\ FlashErrors /\ failures < MaxFailures
  /\ \/ flash' = [flash EXCEPT ![Dest] = Garbage]
     \/ ~IsHeader(Dest) /\ UNCHANGED flash
  /\ updated' = BeforeErase(Dest)
  /\ lapses' = Noticed
  /\ failed' = TRUE /\ failures' = failures + 1
  /\ pc' = IF IsTopSwapArea THEN "Failed" ELSE "AfterWrite"
  /\ UNCHANGED <<topSwap, walk>>

ProgramFails ==
  /\ pc = "Program"
  /\ FlashErrors /\ failures < MaxFailures
  /\ failed' = TRUE /\ failures' = failures + 1
  /\ pc' = "AfterWrite"
  /\ UNCHANGED <<flash, topSwap, walk, updated, lapses>>

Signed(a) == [flash EXCEPT ![<<a, 1>>] = IF @ = Garbage THEN @ ELSE WithSignature(@, TRUE)]

\* Once the last block of an area is dealt with, its signature is restored,
\* whether or not that block could be written.
Restores == Dest[2] = Size(Dest[1]) /\ Dest[1] \in updated

AfterWrite ==
  /\ pc = "AfterWrite"
  /\ flash' = IF Restores THEN Signed(Dest[1]) ELSE flash
  /\ updated' = IF Restores THEN updated \ {Dest[1]} ELSE updated
  /\ pc' = IF failed THEN "Failed" ELSE "NextBlock"
  /\ UNCHANGED <<topSwap, walk, failed, failures, lapses>>

\* The signature cannot be written, and the Status of the update does not say so.
RestoreFails ==
  /\ pc = "AfterWrite" /\ Restores
  /\ FlashErrors /\ failures < MaxFailures
  /\ updated' = updated \ {Dest[1]}
  /\ failures' = failures + 1
  /\ lapses' = lapses \union {Dest[1]}
  /\ pc' = IF failed THEN "Failed" ELSE "NextBlock"
  /\ UNCHANGED <<flash, topSwap, walk, failed>>

\* Mutant: one block too many.
IsPastLast(b, n) == b > n

IsLastBlock(b, n) == b = n

NextBlock ==
  /\ pc = "NextBlock" /\ ~IsLastBlock(k, IF job.backUp THEN Blocks ELSE Size(Area))
  /\ k' = k + 1
  /\ pc' = "Walk"
  /\ UNCHANGED <<flash, topSwap, job, i, updated, failed, failures, lapses>>

SetTopSwap(a) == IF TopSwapTrigger(a) THEN job.backUp ELSE topSwap

NextArea ==
  /\ pc = "NextBlock" /\ IsLastBlock(k, IF job.backUp THEN Blocks ELSE Size(Area))
  /\ topSwap' = SetTopSwap(Area)
  /\ lapses' = IF TopSwapTrigger(Area) /\ ~job.backUp THEN lapses \ {"FwUpdate"} ELSE lapses
  /\ i' = i + 1 /\ k' = 1
  /\ pc' = "Walk"
  /\ UNCHANGED <<flash, job, updated, failed, failures>>

\* The backup is complete: FtControlFlow walks through the areas again.
EndOfBackUp ==
  /\ pc = "Walk" /\ i > Len(BlocksToUpdate) /\ job.backUp
  /\ job' = [job EXCEPT !.backUp = FALSE]
  /\ i' = 1
  /\ UNCHANGED <<flash, topSwap, pc, k, updated, failed, failures, lapses>>

EndOfUpdate ==
  /\ pc = "Walk" /\ i > Len(BlocksToUpdate) /\ ~job.backUp
  /\ pc' = "Epilogue"
  /\ UNCHANGED <<flash, topSwap, walk, updated, failed, failures, lapses>>

\* Disabling the flash writes restores the signatures that are still held
\* back; then the system is reset.
Epilogue ==
  /\ pc = "Epilogue"
  /\ flash' = [x \in Addresses |->
       IF IsHeader(x) /\ x[1] \in updated /\ flash[x] # Garbage
       THEN WithSignature(flash[x], TRUE) ELSE flash[x]]
  /\ Reset
  /\ UNCHANGED <<topSwap, failures, lapses>>

\* After an error the system is reset, with the flash writes still enabled.
ResetSystem ==
  /\ pc = "Failed"
  /\ Reset
  /\ UNCHANGED <<flash, topSwap, failures, lapses>>

PowerFail ==
  /\ pc # "Off" /\ failures < MaxFailures
  /\ Reset
  /\ failures' = failures + 1
  /\ UNCHANGED <<flash, topSwap, lapses>>
------------------------------------------------------------------------------
Start == \E img \in Images, bb \in BootBlockChoices :
           FtControlFlow(img, bb) \/ FwUpdate(img, bb)

FlashWalker ==
  \/ SkipArea \/ AmiFlashBackUp \/ AmiFlashProgram
  \/ KeepBlock \/ FlashEraseBlock \/ FlashProgram
  \/ AfterWrite \/ NextBlock \/ NextArea
  \/ EndOfBackUp \/ EndOfUpdate \/ Epilogue \/ ResetSystem

FlashFails ==
  \/ SetBackUpAreaFails \/ KeepHeader \/ EraseFails \/ ProgramFails \/ RestoreFails

Next == /\ Boot \/ Start \/ FlashWalker \/ FlashFails \/ PowerFail
        /\ UNCHANGED build

Spec == Init /\ [][Next]_vars

\* The machine is switched on again, the driver does not stop by itself, and
\* in recovery mode a recovery image is provided.
FairSpec ==
  Spec /\ WF_vars(Boot /\ UNCHANGED build) /\ WF_vars(FlashWalker /\ UNCHANGED build)
       /\ WF_vars(IsRecovery /\ Start /\ UNCHANGED build)
------------------------------------------------------------------------------
\* The types of flash and of the driver's data; FlashWalker's block number stays
\* within the area.
TypeOK ==
  /\ build \in Builds
  /\ flash \in [Addresses -> Data \union {Garbage}]
  /\ topSwap \in BOOLEAN /\ failed \in BOOLEAN
  /\ pc \in {"Off", "Up", "Walk", "Erase", "Program", "AfterWrite", "NextBlock",
             "Epilogue", "Failed"}
  /\ job \in [image : Images \union {Garbage}, bb : BOOLEAN, backUp : BOOLEAN]
  /\ i \in 1 .. (Len(BlocksToUpdate) + 1)
  /\ k \in Nat /\ k > 0 /\ (i <= Len(BlocksToUpdate) => k <= Size(Area))
  /\ updated \subseteq Areas
  /\ failures \in 0 .. MaxFailures
  /\ lapses \subseteq Lapses

\* What the code has not noticed and puts the selected boot block at risk.
AtRisk ==
  IF topSwap THEN "FtControlFlow" \in lapses
             ELSE lapses \intersect {"BB", "RECOVERY", "FwUpdate"} # {}

\* Fault tolerant update: whenever the power fails, or an erase or a write does, the
\* boot block and the recovery volume that the processor will start from are complete
\* and belong to the same image (FtControlFlow and the Top Swap bit).  The exceptions
\* are those of AtRisk: the signature of a boot block area could not be restored, the
\* selected backup was damaged or is rewritten, or there is no backup.
BootBlockIntact == FtRecovery /\ ~AtRisk => Bootable

\* A boot that does not go to recovery mode has found every area complete,
\* except NVRAM, which its driver repairs: an update that was interrupted, or
\* failed, is noticed (BeforeErase, BeforeWrite and AfterWrite).
InterruptionNoticed ==
  (pc = "Up" /\ ~IsRecovery) =>
    \A a \in Areas \ {"NVRAM"} : \E img \in Images : Complete(a, img)

\* The same for the areas that take part in a boot, with a flash part that
\* reports errors: only an error in the last block of an area goes unnoticed,
\* and one of the write of SetBackUpArea.
OnlyLastBlockMissed ==
  (pc = "Up" /\ ~IsRecovery /\ "SetBackUpArea" \notin lapses) =>
    \A a \in Areas \intersect {"BB", "RECOVERY", "MAIN"} : \E img \in Images :
      \A b \in 1 .. (Size(a) - 1) : flash[<<a, b>>] = ImageBlock(img, a, b)

\* Once failures stop, the machine gets back to a normal boot, unless it has lost
\* its boot block (BootBlockIntact says when).
NormalBootAgain == []<>((pc = "Up" /\ ~IsRecovery) \/ (pc = "Off" /\ ~Bootable))
==============================================================================
