---------------------------- MODULE ReFlashProofs ----------------------------
(***************************************************************************)
(* Proofs about ReFlash, for any images, any number of blocks and failures:*)
(* how far a pass of FlashWalker is, which signatures are held back then,  *)
(* and which copy of the boot block is complete.                           *)
(***************************************************************************)
EXTENDS ReFlash, TLAPS

\* The builds whose backup is made at run time, or that have none.
NoBuildTimeBackup == \A x \in Builds : ~(x.ft /\ x.backup)
------------------------------------------------------------------------------
(***************************************************************************)
(* The inductive invariant                                                 *)
(***************************************************************************)
Working == {"Erase", "Program", "AfterWrite", "NextBlock"}
Walking == Working \union {"Walk"}

InList == i <= Len(BlocksToUpdate)
Limit  == IF job.backUp THEN Blocks ELSE Size(Area)

\* FlashWalker is in the middle of an area only if that area is to be done, and a
\* backup is made at run time only.
WalkInv ==
  /\ pc \in Walking => job.image \in Images
  /\ k > 1 \/ pc \in Working =>
       InList /\ Update(Area) /\ (job.backUp => HasBackUp(Area)) /\ k <= Limit
  /\ failed => FlashErrors /\ pc \in {"AfterWrite", "Failed"}
  /\ job.backUp => FtRecovery /\ ~BuildTimeBackup

\* A boot notices everything but a header of FV_MAIN that has kept its signature, and
\* nothing else goes unnoticed while a backup is made.
LapseInv ==
  /\ pc = "Up" \/ (pc \in Walking /\ job.backUp) => lapses \subseteq {"SetBackUpArea"}
  /\ "SetBackUpArea" \in lapses => FlashErrors

\* The signature of the area that is being written is held back from the erase
\* of its first block to the end of its last one, and no other signature is.
HeldBack ==
  /\ ~job.backUp /\ InList
  /\ k > 1 \/ pc \in {"Program", "AfterWrite", "NextBlock"}
  /\ ~(pc = "NextBlock" /\ k = Size(Area))
UpdatedInv ==
  /\ pc \in Walking => updated = IF HeldBack THEN {Area} ELSE {}
  /\ pc \in {"Off", "Up", "Epilogue"} => updated = {}

\* The blocks of the area that this pass has written.
Written(b) == b < k \/ (b = k /\ (pc = "NextBlock" \/ (pc = "AfterWrite" /\ ~failed)))

\* What they hold, unless a signature could not be restored.  A backup has destroyed
\* the signature of FV_MAIN, unless that went unnoticed.
WrittenBlock(b) ==
  IF b = 1 /\ Area \in updated THEN WithSignature(ImageBlock(job.image, Area, b), FALSE)
                               ELSE ImageBlock(job.image, Area, b)
Known(b) == b > 1 \/ Area \in updated \/ Area \notin lapses
ProgressInv ==
  /\ pc \in Walking /\ InList /\ ~job.backUp /\ Update(Area) =>
       \A b \in 1 .. Size(Area) : Written(b) /\ Known(b) => flash[<<Area, b>>] = WrittenBlock(b)
  /\ pc \in Walking /\ job.backUp /\ job.bb /\ ~(pc = "Walk" /\ FirstRun) =>
       flash[<<"MAIN", 1>>] = Garbage \/ "SetBackUpArea" \in lapses

\* An area that has its signature is complete, but for an error in its last block.
NearlyComplete(a, img) ==
  /\ \A b \in 1 .. (Size(a) - 1) : flash[<<a, b>>] = ImageBlock(img, a, b)
  /\ flash[<<a, Size(a)>>] = ImageBlock(img, a, Size(a)) \/ FlashErrors
MainInv ==
  "SetBackUpArea" \notin lapses /\ FvValid("MAIN") => \E img \in Images : NearlyComplete("MAIN", img)

\* The boot block areas and their copies.
BootBlocks == {"BB", "RECOVERY"}
BootComplete(img)   == \A a \in BootBlocks : Complete(a, img)
BackUpComplete(img) ==
  \A a \in BootBlocks : \A b \in 1 .. Blocks : flash[BackUpAddress(a, b)] = ImageBlock(img, a, b)

\* Top Swap is on from the end of the backup to the end of the new boot block, but for
\* an update without a backup and a backup that is selected though the boot block is not.
SwapInv ==
  pc \in Walking =>
    IF job.bb
    THEN \/ topSwap = IF job.backUp THEN i > 2 ELSE i <= 2
         \/ "FwUpdate" \in lapses /\ ~topSwap /\ ~job.backUp
    ELSE ~topSwap \/ ("FtControlFlow" \in lapses /\ ~job.backUp)

\* The copy that Top Swap selects is complete, the one that is being made is so up
\* to the block that is reached.
Copied(a, b) == (a = "BB" /\ i = 2) \/ (a = Area /\ Written(b))
CopyInv ==
  /\ topSwap /\ "FtControlFlow" \notin lapses => \E img \in Images : BackUpComplete(img)
  /\ ~topSwap /\ lapses \intersect {"BB", "RECOVERY", "FwUpdate"} = {} => \E img \in Images :
       /\ BootComplete(img)
       /\ pc \in Walking /\ job.backUp /\ job.bb =>
            \A a \in BootBlocks : \A b \in 1 .. Blocks :
              Copied(a, b) => flash[BackUpAddress(a, b)] = ImageBlock(img, a, b)
  /\ pc \in Walking /\ ~job.backUp /\ job.bb /\ i = 2 /\ "BB" \notin lapses =>
       Complete("BB", job.image)

IInv ==
  /\ TypeOK
  /\ WalkInv
  /\ LapseInv
  /\ UpdatedInv
  /\ ProgressInv
  /\ MainInv
  /\ pc = "Up" => Bootable
  /\ FtRecovery => SwapInv /\ CopyInv
------------------------------------------------------------------------------
(***************************************************************************)
(* The layout                                                              *)
(***************************************************************************)
\* What the proofs use of ReFlashAssumption.
LEMMA Numbers == Blocks \in Nat /\ Blocks > 1 /\ MaxFailures \in Nat
BY ReFlashAssumption DEF ReFlashAssumption

\* The options of a build.
LEMMA BuildTyped ==
  ASSUME build \in Builds
  PROVE  /\ build \in [ft : BOOLEAN, backup : BOOLEAN, capsules : BOOLEAN]
         /\ build.ft \in BOOLEAN /\ build.backup \in BOOLEAN /\ build.capsules \in BOOLEAN
BY ReFlashAssumption DEF ReFlashAssumption

\* Every area has at least two blocks; only FV_MAIN may have more than Blocks.
LEMMA Sizes ==
  \A a : /\ Size(a) \in Nat /\ Size(a) > 1 /\ Size(a) >= Blocks /\ Size(a) <= 2 * Blocks + 1
         /\ a # "MAIN" => Size(a) = Blocks
BY Numbers DEF Size

\* The areas of each build.
LEMMA AreaNames ==
  ASSUME build \in Builds
  PROVE  /\ Areas \subseteq {"BB", "RECOVERY", "BB_BACKUP", "RECOVERY_BACKUP", "MAIN", "NVRAM"}
         /\ "BB" \in Areas /\ "MAIN" \in Areas /\ "NVRAM" \in Areas
         /\ "RECOVERY" \in Areas <=> FtRecovery
         /\ \A a \in Areas : Original(a) \in Areas
         /\ {"BB_BACKUP", "RECOVERY_BACKUP"} \intersect Areas =
              IF FtRecovery /\ BuildTimeBackup THEN {"BB_BACKUP", "RECOVERY_BACKUP"} ELSE {}
<1>1. CASE ~FtRecovery
  <2>1. Areas = {"BB", "MAIN", "NVRAM"}
    BY <1>1 DEF Areas, TempRomLayout, Range
  <2>2. QED
    BY <1>1, <2>1 DEF Original
<1>2. CASE FtRecovery /\ BuildTimeBackup
  <2>1. Areas = {"BB", "RECOVERY", "BB_BACKUP", "RECOVERY_BACKUP", "MAIN", "NVRAM"}
    BY <1>2 DEF Areas, TempRomLayout, Range
  <2>2. QED
    BY <1>2, <2>1 DEF Original
<1>3. CASE FtRecovery /\ ~BuildTimeBackup
  <2>1. Areas = {"BB", "RECOVERY", "MAIN", "NVRAM"}
    BY <1>3 DEF Areas, TempRomLayout, Range
  <2>2. QED
    BY <1>3, <2>1 DEF Original
<1>4. QED
  BY <1>1, <1>2, <1>3

\* The list of areas: its length, what it holds, the places of the boot blocks of a
\* fault tolerant build, and of FV_MAIN.
LEMMA List ==
  ASSUME build \in Builds
  PROVE  /\ Len(BlocksToUpdate) \in Nat /\ Len(BlocksToUpdate) >= 3
         /\ \A n \in 1 .. Len(BlocksToUpdate) :
              /\ BlocksToUpdate[n] \in Areas
              /\ BlocksToUpdate[n] = "MAIN" <=> n = Len(BlocksToUpdate)
         /\ FtRecovery =>
              /\ Len(BlocksToUpdate) >= 4
              /\ BlocksToUpdate[1] = "BB" /\ BlocksToUpdate[2] = "RECOVERY"
              /\ \A n \in 3 .. Len(BlocksToUpdate) : BlocksToUpdate[n] \notin BootBlocks
<1>1. CASE ~FtRecovery
  <2>1. BlocksToUpdate = <<"BB", "NVRAM", "MAIN">>
    BY <1>1 DEF BlocksToUpdate
  <2>2. QED
    BY <1>1, <2>1, AreaNames
<1>2. CASE FtRecovery /\ BuildTimeBackup
  <2>1. BlocksToUpdate = <<"BB", "RECOVERY", "NVRAM", "RECOVERY_BACKUP", "BB_BACKUP", "MAIN">>
    BY <1>2 DEF BlocksToUpdate
  <2>2. Areas = {"BB", "RECOVERY", "BB_BACKUP", "RECOVERY_BACKUP", "MAIN", "NVRAM"}
    BY <1>2 DEF Areas, TempRomLayout, Range
  <2>3. QED
    BY <1>2, <2>1, <2>2 DEF BootBlocks
<1>3. CASE FtRecovery /\ ~BuildTimeBackup
  <2>1. BlocksToUpdate = <<"BB", "RECOVERY", "NVRAM", "MAIN">>
    BY <1>3 DEF BlocksToUpdate
  <2>2. QED
    BY <1>3, <2>1, AreaNames DEF BootBlocks
<1>4. QED
  BY <1>1, <1>2, <1>3

\* The blocks of the flash part.
LEMMA Address ==
  /\ \A a, b : <<a, b>> \in Addresses <=> a \in Areas /\ b \in 1 .. Size(a)
  /\ \A x \in Addresses : x = <<x[1], x[2]>> /\ x[1] \in Areas /\ x[2] \in 1 .. Size(x[1])
<1>1. \A x : x \in Addresses <=> \E a \in Areas : x \in {a} \X (1 .. Size(a))
  BY DEF Addresses
<1>2. QED
  BY <1>1

\* The layout does not change.
LEMMA SameLayout ==
  ASSUME build' = build
  PROVE  /\ FtRecovery' = FtRecovery /\ BuildTimeBackup' = BuildTimeBackup /\ Capsules' = Capsules
         /\ Areas' = Areas /\ Addresses' = Addresses /\ BlocksToUpdate' = BlocksToUpdate
         /\ \A a : Size(a)' = Size(a)
         /\ \A a, b : BackUpAddress(a, b)' = BackUpAddress(a, b)
         /\ \A a : HasBackUp(a)' = HasBackUp(a)
<1>1. FtRecovery' = FtRecovery /\ BuildTimeBackup' = BuildTimeBackup /\ Capsules' = Capsules
  BY DEF FtRecovery, BuildTimeBackup, Capsules
<1>2. TempRomLayout' = TempRomLayout /\ BlocksToUpdate' = BlocksToUpdate
  BY <1>1 DEF TempRomLayout, BlocksToUpdate
<1>3. Areas' = Areas /\ \A a : Size(a)' = Size(a)
  BY <1>1, <1>2 DEF Areas, Size
<1>4. Addresses' = Addresses
  BY <1>3 DEF Addresses
<1>5. /\ \A a, b : BackUpAddress(a, b)' = BackUpAddress(a, b)
      /\ \A a : HasBackUp(a)' = HasBackUp(a)
  BY <1>1 DEF BackUpAddress, HasBackUp
<1>6. QED
  BY <1>1, <1>2, <1>3, <1>4, <1>5

\* The block that FlashWalker works on.  A backup goes into FV_MAIN, behind its
\* header block.
LEMMA DestBlock ==
  ASSUME IInv, pc \in Working
  PROVE  /\ Area \in Areas /\ k \in 1 .. Size(Area) /\ <<Area, k>> \in Addresses
         /\ Dest \in Addresses
         /\ ~job.backUp => Dest = <<Area, k>> /\ Dest[1] = Area /\ Dest[2] = k
         /\ job.backUp => /\ Area \in BootBlocks /\ ~BuildTimeBackup /\ k \in 1 .. Blocks
                          /\ Dest = <<"MAIN", Dest[2]>> /\ Dest[1] = "MAIN"
                          /\ Dest[2] \in 2 .. Size("MAIN")
                          /\ Dest[2] = IF Area = "BB" THEN Blocks + 1 + k ELSE 1 + k
<1>1. /\ build \in Builds /\ i \in 1 .. (Len(BlocksToUpdate) + 1) /\ k \in Nat /\ k > 0
      /\ i <= Len(BlocksToUpdate) /\ k <= Limit /\ (job.backUp => HasBackUp(Area))
  BY DEF IInv, TypeOK, WalkInv, InList
<1>2. Area \in Areas
  BY <1>1, List DEF Area
<1>3. k \in 1 .. Size(Area)
  BY <1>1, Sizes, Numbers DEF Limit
<1>4. <<Area, k>> \in Addresses
  BY <1>2, <1>3, Address
<1>5. CASE ~job.backUp
  BY <1>2, <1>3, <1>4, <1>5 DEF Dest
<1>6. CASE job.backUp
  <2>1. Area \in BootBlocks /\ ~BuildTimeBackup /\ k \in 1 .. Blocks
    BY <1>1, <1>6, Numbers DEF HasBackUp, IsBootBlock, BootBlocks, Limit
  <2>2. Dest = <<"MAIN", IF Area = "BB" THEN Blocks + 1 + k ELSE 1 + k>>
    BY <1>6, <2>1 DEF Dest, BackUpAddress
  <2>3. Size("MAIN") = 2 * Blocks + 1
    BY <2>1 DEF Size
  <2>4. (IF Area = "BB" THEN Blocks + 1 + k ELSE 1 + k) \in 2 .. Size("MAIN")
    BY <2>1, <2>3, Numbers
  <2>5. Dest \in Addresses
    BY <1>1, <2>2, <2>4, AreaNames, Address
  <2>6. QED
    BY <1>2, <1>3, <1>4, <1>6, <2>1, <2>2, <2>4, <2>5
<1>7. QED
  BY <1>5, <1>6
------------------------------------------------------------------------------
(***************************************************************************)
(* Types and control                                                       *)
(***************************************************************************)
\* What FlashWalker may put into a block is data of an image or nothing.
LEMMA BlockTyped ==
  ASSUME build \in Builds, NEW img \in Images, NEW a \in Areas, NEW b \in 1 .. Size(a)
  PROVE  /\ ImageBlock(img, a, b) \in Data
         /\ WithSignature(ImageBlock(img, a, b), FALSE) \in Data
<1>1. Original(a) \in Areas
  BY AreaNames
<1>2. b \in 1 .. (2 * Blocks + 1)
  BY Sizes, Numbers
<1>3. QED
  BY <1>1, <1>2 DEF ImageBlock, Data, WithSignature

\* The data written to a block, and flash once a signature is put back.
LEMMA WriteTyped ==
  ASSUME IInv
  PROVE  /\ pc \in Working => Source \in Data \union {Garbage}
         /\ pc \in Working => BeforeWrite(Dest, Source) \in Data \union {Garbage}
         /\ \A x \in Data : WithSignature(x, TRUE) \in Data
         /\ \A a \in Areas : Signed(a) \in [Addresses -> Data \union {Garbage}]
<1>1. build \in Builds /\ flash \in [Addresses -> Data \union {Garbage}]
  BY DEF IInv, TypeOK
<1>2. \A x \in Data : WithSignature(x, TRUE) \in Data /\ WithSignature(x, FALSE) \in Data
  BY DEF Data, WithSignature
<1>3. \A a \in Areas : Signed(a) \in [Addresses -> Data \union {Garbage}]
  BY <1>1, <1>2, Address, Sizes DEF Signed
<1>4. pc \in Working => Source \in Data \union {Garbage}
  <2>1. SUFFICES ASSUME pc \in Working PROVE Source \in Data \union {Garbage}
    OBVIOUS
  <2>2. job.image \in Images
    BY <2>1 DEF IInv, WalkInv, Walking
  <2>3. QED
    BY <1>1, <2>1, <2>2, DestBlock, BlockTyped DEF Source
<1>5. pc \in Working => BeforeWrite(Dest, Source) \in Data \union {Garbage}
  <2>1. SUFFICES ASSUME pc \in Working PROVE BeforeWrite(Dest, Source) \in Data \union {Garbage}
    OBVIOUS
  <2>2. CASE IsHeader(Dest) /\ Dest[1] \in updated
    <3>1. ~job.backUp
      BY <2>1, <2>2, DestBlock DEF IInv, UpdatedInv, HeldBack, Walking
    <3>2. Source \in Data
      <4>1. job.image \in Images
        BY <2>1 DEF IInv, WalkInv, Walking
      <4>2. QED
        BY <1>1, <2>1, <3>1, <4>1, DestBlock, BlockTyped DEF Source
    <3>3. QED
      BY <1>2, <2>2, <3>2 DEF BeforeWrite
  <2>3. CASE ~(IsHeader(Dest) /\ Dest[1] \in updated)
    BY <1>4, <2>1, <2>3 DEF BeforeWrite
  <2>4. QED
    BY <2>2, <2>3
<1>6. QED
  BY <1>2, <1>3, <1>4, <1>5

\* What goes unnoticed is one of Lapses.
LEMMA LapsesTyped ==
  ASSUME IInv, Next
  PROVE  lapses' \subseteq Lapses /\ Lapses' = Lapses
<1>1. lapses \subseteq Lapses /\ build' = build
  BY DEF IInv, TypeOK, Next
<1>2. Lapses' = Lapses
  BY <1>1, SameLayout DEF Lapses
<1>3. pc \in Working => Dest[1] \in Lapses
  BY DestBlock, Address DEF Lapses
<1>4. {"SetBackUpArea", "FtControlFlow", "FwUpdate"} \subseteq Lapses
  BY DEF Lapses
<1>5. CASE Boot \/ PowerFail
  BY <1>1, <1>2, <1>5 DEF Boot, PowerFail
<1>6. CASE Start
  BY <1>1, <1>2, <1>4, <1>6 DEF Start, FtControlFlow, FwUpdate
<1>7. CASE FlashWalker
  BY <1>1, <1>2, <1>7
     DEF FlashWalker, SkipArea, AmiFlashBackUp, AmiFlashProgram, KeepBlock, FlashEraseBlock, Noticed,
         FlashProgram, AfterWrite, NextBlock, NextArea, EndOfBackUp, EndOfUpdate, Epilogue, ResetSystem
<1>8. CASE FlashFails
  BY <1>1, <1>2, <1>3, <1>4, <1>8
     DEF FlashFails, SetBackUpAreaFails, KeepHeader, EraseFails, Noticed, ProgramFails, RestoreFails,
         Working
<1>9. QED
  BY <1>5, <1>6, <1>7, <1>8 DEF Next

\* The start of an update: only a build-time backup is switched to at once.
LEMMA StartEffect ==
  ASSUME build \in Builds, topSwap \in BOOLEAN, NEW img, NEW bb \in BOOLEAN,
         FtControlFlow(img, bb) \/ FwUpdate(img, bb)
  PROVE  /\ pc = "Up" /\ pc' = "Walk" /\ i' = 1 /\ k' = 1
         /\ UNCHANGED <<flash, updated, failed, failures>>
         /\ job'.image = img /\ job'.bb = ApplyUserSelection(bb) /\ job'.backUp \in BOOLEAN
         /\ job' = [image |-> img, bb |-> ApplyUserSelection(bb), backUp |-> job'.backUp]
         /\ job'.backUp => FtRecovery /\ ~BuildTimeBackup /\ ~topSwap /\ lapses' = lapses
         /\ lapses \subseteq lapses' /\ lapses' \subseteq lapses \union {"FtControlFlow", "FwUpdate"}
         /\ topSwap' \in BOOLEAN /\ (topSwap => topSwap' = TRUE)
<1>1. BuildTimeBackup \in BOOLEAN /\ FtRecovery \in BOOLEAN
  BY BuildTyped DEF BuildTimeBackup, FtRecovery
<1>2. CASE FtControlFlow(img, bb)
  <2>1. PICK f \in BOOLEAN : f = (FtRecovery /\ ~topSwap /\ ~BuildTimeBackup)
    OBVIOUS
  <2>2. /\ pc = "Up" /\ pc' = "Walk" /\ i' = 1 /\ k' = 1
        /\ UNCHANGED <<flash, updated, failed, failures>>
        /\ job' = [image |-> img, bb |-> ApplyUserSelection(bb), backUp |-> f]
    BY <1>2, <2>1 DEF FtControlFlow
  <2>3. topSwap' = (topSwap \/ (FtRecovery /\ BuildTimeBackup))
    BY <1>2 DEF FtControlFlow
  <2>4. /\ lapses \subseteq lapses' /\ lapses' \subseteq lapses \union {"FtControlFlow"}
        /\ topSwap' = topSwap => lapses' = lapses
    BY <1>2 DEF FtControlFlow
  <2>5. f => topSwap' = topSwap /\ FtRecovery /\ ~BuildTimeBackup /\ ~topSwap
    BY <1>1, <2>1, <2>3
  <2>6. QED
    BY <2>2, <2>3, <2>4, <2>5
<1>3. CASE FwUpdate(img, bb)
  <2>1. /\ pc = "Up" /\ pc' = "Walk" /\ i' = 1 /\ k' = 1
        /\ UNCHANGED <<flash, topSwap, updated, failed, failures>>
        /\ job' = [image |-> img, bb |-> ApplyUserSelection(bb), backUp |-> FALSE]
    BY <1>3 DEF FwUpdate
  <2>2. lapses \subseteq lapses' /\ lapses' \subseteq lapses \union {"FwUpdate"}
    BY <1>3 DEF FwUpdate
  <2>3. QED
    BY <2>1, <2>2
<1>4. QED
  BY <1>2, <1>3

\* The types survive every step.
LEMMA TypeStep ==
  ASSUME IInv, Next
  PROVE  TypeOK'
<1>0. /\ build \in Builds /\ build' = build /\ flash \in [Addresses -> Data \union {Garbage}]
      /\ topSwap \in BOOLEAN /\ failed \in BOOLEAN
      /\ job \in [image : Images \union {Garbage}, bb : BOOLEAN, backUp : BOOLEAN]
      /\ i \in 1 .. (Len(BlocksToUpdate) + 1)
      /\ k \in Nat /\ k > 0 /\ (i <= Len(BlocksToUpdate) => k <= Size(Area))
      /\ updated \subseteq Areas /\ failures \in 0 .. MaxFailures
      /\ BootBlockChoices \subseteq BOOLEAN /\ build.ft \in BOOLEAN /\ build.backup \in BOOLEAN
  BY ReFlashAssumption, BuildTyped DEF IInv, TypeOK, Next, ReFlashAssumption
<1>1. Data' = Data /\ Addresses' = Addresses /\ Areas' = Areas /\ BlocksToUpdate' = BlocksToUpdate
      /\ \A a : Size(a)' = Size(a)
  BY <1>0, SameLayout DEF Data
<1>2. /\ i' = i => Area' = Area
      /\ Len(BlocksToUpdate) \in Nat /\ Len(BlocksToUpdate) >= 3
  BY <1>0, <1>1, List DEF Area
<1>3. \A n : n \in Nat /\ n > 1 => Size(BlocksToUpdate[n]) \in Nat /\ 1 <= Size(BlocksToUpdate[n])
  BY Sizes
<1> DEFINE FlashTyped == flash' \in [Addresses -> Data \union {Garbage}]
           WalkTyped ==
             /\ job' \in [image : Images \union {Garbage}, bb : BOOLEAN, backUp : BOOLEAN]
             /\ i' \in 1 .. (Len(BlocksToUpdate) + 1)
             /\ k' \in Nat /\ k' > 0
             /\ i' <= Len(BlocksToUpdate) => k' <= Size(BlocksToUpdate[i'])
           RestTyped ==
             /\ topSwap' \in BOOLEAN /\ failed' \in BOOLEAN
             /\ pc' \in {"Off", "Up"} \union Walking \union {"Epilogue", "Failed"}
             /\ updated' \subseteq Areas /\ failures' \in 0 .. MaxFailures
<1>4. SUFFICES FlashTyped /\ WalkTyped /\ RestTyped
  BY <1>0, <1>1, LapsesTyped DEF TypeOK, Area, Walking, Working
<1>5. UNCHANGED walk => WalkTyped
  BY <1>0 DEF walk, Area
<1>6. UNCHANGED flash => FlashTyped
  BY <1>0
<1>7. Reset => WalkTyped
  <2>1. NoJob \in [image : Images \union {Garbage}, bb : BOOLEAN, backUp : BOOLEAN]
    BY DEF NoJob
  <2>2. QED
    BY <1>2, <2>1, Sizes DEF Reset
<1> HIDE DEF FlashTyped, WalkTyped
<1>8. CASE Boot \/ AmiFlashProgram \/ KeepBlock \/ EndOfUpdate
  BY <1>0, <1>5, <1>6, <1>8 DEF Boot, AmiFlashProgram, KeepBlock, EndOfUpdate, Walking, Working
<1>9. CASE Start
  <2>1. PICK img \in Images, bb \in BootBlockChoices : FtControlFlow(img, bb) \/ FwUpdate(img, bb)
    BY <1>9 DEF Start
  <2>2. bb \in BOOLEAN /\ ApplyUserSelection(bb) \in BOOLEAN
    BY <1>0 DEF ApplyUserSelection, FtRecovery
  <2>3. /\ pc' = "Walk" /\ i' = 1 /\ k' = 1 /\ UNCHANGED <<flash, updated, failed, failures>>
        /\ topSwap' \in BOOLEAN /\ job'.backUp \in BOOLEAN
        /\ job' = [image |-> img, bb |-> ApplyUserSelection(bb), backUp |-> job'.backUp]
    BY <1>0, <2>1, <2>2, StartEffect
  <2>4. job' \in [image : Images \union {Garbage}, bb : BOOLEAN, backUp : BOOLEAN]
    BY <2>2, <2>3
  <2>5. WalkTyped
    BY <1>2, <2>3, <2>4, Sizes DEF WalkTyped
  <2>6. QED
    BY <1>0, <1>6, <2>3, <2>5 DEF Walking
<1>10. CASE SkipArea
  <2>1. k = 1
    BY <1>0, <1>10 DEF SkipArea, IInv, WalkInv
  <2>2. WalkTyped
    BY <1>0, <1>2, <1>10, <2>1, Sizes DEF SkipArea, WalkTyped
  <2>3. QED
    BY <1>0, <1>6, <1>10, <2>2 DEF SkipArea, Walking
<1>11. CASE AmiFlashBackUp \/ SetBackUpAreaFails
  <2>1. FlashTyped
    BY <1>0, <1>11 DEF AmiFlashBackUp, SetBackUpAreaFails, FlashTyped
  <2>2. failures' \in 0 .. MaxFailures
    BY <1>0, <1>11, Numbers DEF AmiFlashBackUp, SetBackUpAreaFails
  <2>3. QED
    BY <1>0, <1>5, <1>11, <2>1, <2>2 DEF AmiFlashBackUp, SetBackUpAreaFails, Walking, Working
<1>12. CASE KeepHeader \/ FlashEraseBlock \/ EraseFails
  <2>1. pc \in Working /\ UNCHANGED <<walk, topSwap>>
        /\ (flash' = flash \/ flash' = [flash EXCEPT ![Dest] = Garbage])
        /\ updated' = BeforeErase(Dest) /\ pc' \in {"Program", "Failed", "AfterWrite"}
    BY <1>12 DEF KeepHeader, FlashEraseBlock, EraseFails, Working
  <2>2. updated' \subseteq Areas
    BY <1>0, <2>1, DestBlock, AreaNames DEF BeforeErase
  <2>3. FlashTyped
    BY <1>0, <2>1 DEF FlashTyped
  <2>4. failed' \in BOOLEAN /\ failures' \in 0 .. MaxFailures
    <3>1. CASE FlashEraseBlock
      BY <1>0, <3>1 DEF FlashEraseBlock
    <3>2. CASE KeepHeader
      BY <1>0, <3>2, Numbers DEF KeepHeader
    <3>3. CASE EraseFails
      <4>1. failed' = TRUE /\ failures < MaxFailures /\ failures' = failures + 1
        BY <3>3 DEF EraseFails
      <4>2. QED
        BY <1>0, <4>1, Numbers
    <3>4. QED
      BY <1>12, <3>1, <3>2, <3>3
  <2>5. QED
    BY <1>0, <1>5, <2>1, <2>2, <2>3, <2>4 DEF Walking, Working
<1>13. CASE FlashProgram
  <2>1. FlashTyped
    BY <1>0, <1>13, WriteTyped DEF FlashProgram, FlashTyped, Working
  <2>2. QED
    BY <1>0, <1>5, <1>13, <2>1 DEF FlashProgram, Walking, Working
<1>14. CASE ProgramFails
  BY <1>0, <1>5, <1>6, <1>14, Numbers DEF ProgramFails, Walking, Working
<1>15. CASE AfterWrite \/ RestoreFails
  <2>1. FlashTyped
    BY <1>0, <1>15, WriteTyped, DestBlock DEF AfterWrite, RestoreFails, Restores, FlashTyped, Working
  <2>2. failures' \in 0 .. MaxFailures
    BY <1>0, <1>15, Numbers DEF AfterWrite, RestoreFails
  <2>3. QED
    BY <1>0, <1>5, <1>15, <2>1, <2>2 DEF AfterWrite, RestoreFails, Walking, Working
<1>16. CASE NextBlock
  <2>1. InList /\ k <= Limit /\ k # Limit
    BY <1>16 DEF NextBlock, IInv, WalkInv, Working, IsLastBlock, Limit
  <2>2. k + 1 <= Size(Area)
    BY <1>0, <2>1, Sizes, Numbers DEF Limit
  <2>3. WalkTyped
    BY <1>0, <1>16, <2>2 DEF NextBlock, WalkTyped, Area
  <2>4. QED
    BY <1>0, <1>6, <1>16, <2>3 DEF NextBlock, Walking, Working
<1>17. CASE NextArea
  <2>1. InList
    BY <1>17 DEF NextArea, IInv, WalkInv, Working
  <2>2. WalkTyped
    BY <1>0, <1>2, <1>17, <2>1, Sizes DEF NextArea, WalkTyped, InList
  <2>3. topSwap' \in BOOLEAN
    BY <1>0, <1>17 DEF NextArea, SetTopSwap
  <2>4. QED
    BY <1>0, <1>6, <1>17, <2>2, <2>3 DEF NextArea, Walking, Working
<1>18. CASE EndOfBackUp
  <2>1. k = 1
    BY <1>0, <1>2, <1>18 DEF EndOfBackUp, IInv, WalkInv, InList
  <2>2. WalkTyped
    <3>1. job' \in [image : Images \union {Garbage}, bb : BOOLEAN, backUp : BOOLEAN]
      BY <1>0, <1>18 DEF EndOfBackUp
    <3>2. 1 <= Size(BlocksToUpdate[1])
      BY Sizes
    <3>3. i' = 1 /\ k' = 1
      BY <1>18, <2>1 DEF EndOfBackUp
    <3>4. QED
      BY <1>2, <3>1, <3>2, <3>3 DEF WalkTyped
  <2>3. QED
    BY <1>0, <1>6, <1>18, <2>2 DEF EndOfBackUp, Walking, Working
<1>19. CASE Epilogue
  <2>1. FlashTyped
    BY <1>0, <1>19, WriteTyped DEF Epilogue, FlashTyped
  <2>2. QED
    BY <1>0, <1>7, <1>19, <2>1 DEF Epilogue, Reset
<1>20. CASE ResetSystem \/ PowerFail
  <2>1. failures' \in 0 .. MaxFailures
    BY <1>0, <1>20, Numbers DEF ResetSystem, PowerFail
  <2>2. UNCHANGED <<flash, topSwap>> /\ Reset
    BY <1>20 DEF ResetSystem, PowerFail
  <2>3. topSwap' \in BOOLEAN /\ failed' \in BOOLEAN /\ updated' \subseteq Areas /\ pc' = "Off"
    BY <1>0, <2>2 DEF Reset
  <2>4. QED
    BY <1>6, <1>7, <2>1, <2>2, <2>3
<1>21. QED
  BY <1>8, <1>9, <1>10, <1>11, <1>12, <1>13, <1>14, <1>15, <1>16, <1>17, <1>18, <1>19, <1>20
     DEF Next, FlashWalker, FlashFails

\* While the job and the area stay the same, so does what they determine.
LEMMA SameArea ==
  ASSUME UNCHANGED <<build, job, i>>
  PROVE  /\ Area' = Area /\ InList' = InList /\ Limit' = Limit /\ (\A a : Update(a)' = Update(a))
         /\ k' = k => Dest' = Dest
<1>1. /\ BlocksToUpdate' = BlocksToUpdate /\ (\A a : Size(a)' = Size(a))
      /\ \A a, b : BackUpAddress(a, b)' = BackUpAddress(a, b)
  BY SameLayout
<1>2. Area' = Area
  BY <1>1 DEF Area
<1>3. InList' = InList /\ Limit' = Limit
  BY <1>1, <1>2 DEF InList, Limit
<1>4. \A a : Update(a)' = Update(a)
  BY DEF Update
<1>5. k' = k => Dest' = Dest
  BY <1>1, <1>2 DEF Dest
<1>6. QED
  BY <1>2, <1>3, <1>4, <1>5

\* A step on a block: it does not move on and changes no more than flash, what is
\* held back and the status.
BlockStep ==
  \/ KeepBlock \/ KeepHeader \/ FlashEraseBlock \/ FlashProgram \/ AfterWrite
  \/ EraseFails \/ ProgramFails \/ RestoreFails
LEMMA BlockStepEffect ==
  ASSUME BlockStep
  PROVE  /\ pc \in Working /\ pc' \in {"Program", "AfterWrite", "NextBlock", "Failed"}
         /\ UNCHANGED <<topSwap, job, i, k>>
BY DEF BlockStep, KeepBlock, KeepHeader, FlashEraseBlock, FlashProgram, EraseFails, ProgramFails,
       AfterWrite, RestoreFails, Working, walk

\* FlashWalker stays within an area that is to be done.
LEMMA WalkStep ==
  ASSUME IInv, Next
  PROVE  WalkInv'
<1>0. /\ build \in Builds /\ build' = build /\ WalkInv /\ k \in Nat /\ k > 0
      /\ i \in 1 .. (Len(BlocksToUpdate) + 1) /\ failed \in BOOLEAN
      /\ job \in [image : Images \union {Garbage}, bb : BOOLEAN, backUp : BOOLEAN]
      /\ topSwap \in BOOLEAN /\ BootBlockChoices \subseteq BOOLEAN
  BY ReFlashAssumption DEF IInv, TypeOK, Next, ReFlashAssumption
<1>1. /\ \A a : HasBackUp(a)' = HasBackUp(a)
      /\ FtRecovery' = FtRecovery /\ BuildTimeBackup' = BuildTimeBackup
  BY <1>0, SameLayout
<1> DEFINE Inside == InList /\ Update(Area) /\ (job.backUp => HasBackUp(Area)) /\ k <= Limit
<1>2. ASSUME UNCHANGED <<job, i, k>>, Inside PROVE Inside'
  BY <1>0, <1>1, <1>2, SameArea
<1>3. SUFFICES /\ pc' \in Walking => job'.image \in Images
               /\ k' > 1 \/ pc' \in Working => Inside'
               /\ failed' => FlashErrors /\ pc' \in {"AfterWrite", "Failed"}
               /\ job'.backUp => FtRecovery /\ ~BuildTimeBackup
  BY <1>1 DEF WalkInv
<1> HIDE DEF Inside
<1>4. k > 1 \/ pc \in Working => Inside
  BY <1>0 DEF WalkInv, Inside
<1>5. pc \in Walking => job.image \in Images
  BY <1>0 DEF WalkInv
<1>6. pc \notin {"AfterWrite", "Failed"} => ~failed
  BY <1>0 DEF WalkInv
<1>7. job.backUp => FtRecovery /\ ~BuildTimeBackup
  BY <1>0 DEF WalkInv
<1>8. CASE BlockStep
  <2>1. Inside' /\ job' = job /\ job'.image \in Images
    BY <1>2, <1>4, <1>5, <1>8, BlockStepEffect DEF Walking
  <2>2. failed' => FlashErrors /\ pc' \in {"AfterWrite", "Failed"}
    BY <1>0, <1>8 DEF BlockStep, KeepBlock, KeepHeader, FlashEraseBlock, FlashProgram, EraseFails,
                      ProgramFails, AfterWrite, RestoreFails, WalkInv
  <2>3. QED
    BY <1>7, <2>1, <2>2
<1>9. CASE AmiFlashBackUp \/ SetBackUpAreaFails \/ AmiFlashProgram
  <2>1. UNCHANGED <<job, i, k, failed>> /\ pc = "Walk" /\ pc' = "Erase"
    BY <1>9 DEF AmiFlashBackUp, SetBackUpAreaFails, AmiFlashProgram, walk
  <2>2. InList /\ Update(Area) /\ (job.backUp => HasBackUp(Area))
    BY <1>9 DEF AmiFlashBackUp, SetBackUpAreaFails, AmiFlashProgram, InList
  <2>3. k <= Limit
    BY <1>0, <1>4, <2>2, Sizes, Numbers DEF Inside, Limit
  <2>4. Inside'
    BY <1>2, <2>1, <2>2, <2>3 DEF Inside
  <2>5. QED
    BY <1>5, <1>6, <1>7, <2>1, <2>4 DEF Walking
<1>10. CASE NextBlock
  <2>1. UNCHANGED <<job, i, failed>> /\ k' = k + 1 /\ pc' = "Walk" /\ pc = "NextBlock" /\ k # Limit
    BY <1>10 DEF NextBlock, IsLastBlock, Limit
  <2>2. Inside
    BY <1>4, <2>1 DEF Working
  <2>3. Limit \in Nat
    BY Sizes, Numbers DEF Limit
  <2>4. k + 1 <= Limit
    BY <1>0, <2>1, <2>2, <2>3 DEF Inside
  <2>5. Inside'
    BY <1>0, <1>1, <2>1, <2>2, <2>4, SameArea DEF Inside
  <2>6. QED
    BY <1>5, <1>6, <1>7, <2>1, <2>5 DEF Walking, Working
<1>11. CASE SkipArea \/ NextArea \/ EndOfBackUp
  <2>1. pc \in {"Walk", "NextBlock"} /\ pc' = "Walk" /\ job'.image = job.image /\ failed' = failed
    BY <1>0, <1>11 DEF SkipArea, NextArea, EndOfBackUp
  <2>2. k' = 1
    <3>1. CASE SkipArea
      BY <1>0, <1>4, <3>1 DEF SkipArea, Inside
    <3>2. CASE NextArea
      BY <3>2 DEF NextArea
    <3>3. CASE EndOfBackUp
      BY <1>0, <1>4, <3>3, List DEF EndOfBackUp, Inside, InList
    <3>4. QED
      BY <1>11, <3>1, <3>2, <3>3
  <2>3. job'.backUp => job.backUp
    BY <1>0, <1>11 DEF SkipArea, NextArea, EndOfBackUp
  <2>4. QED
    BY <1>5, <1>6, <1>7, <2>1, <2>2, <2>3 DEF Walking, Working
<1>12. CASE Start
  <2>1. PICK img \in Images, bb \in BootBlockChoices : FtControlFlow(img, bb) \/ FwUpdate(img, bb)
    BY <1>12 DEF Start
  <2>2. /\ job'.image = img /\ k' = 1 /\ pc' = "Walk" /\ pc = "Up" /\ failed' = failed
        /\ job'.backUp => FtRecovery /\ ~BuildTimeBackup
    BY <1>0, <2>1, StartEffect
  <2>3. QED
    BY <1>6, <2>2 DEF Walking, Working
<1>13. CASE Boot \/ EndOfUpdate
  <2>1. UNCHANGED <<job, i, k, failed>> /\ pc' \notin Walking /\ pc \notin {"AfterWrite", "Failed"}
    BY <1>13 DEF Boot, EndOfUpdate, walk, Walking, Working
  <2>2. k' > 1 => Inside'
    BY <1>2, <1>4, <2>1
  <2>3. QED
    BY <1>6, <1>7, <2>1, <2>2 DEF Walking
<1>14. CASE Epilogue \/ ResetSystem \/ PowerFail
  <2>1. pc' = "Off" /\ k' = 1 /\ ~failed' /\ job' = NoJob
    BY <1>14 DEF Epilogue, ResetSystem, PowerFail, Reset
  <2>2. QED
    BY <2>1 DEF Walking, Working, NoJob
<1>15. QED
  BY <1>8, <1>9, <1>10, <1>11, <1>12, <1>13, <1>14 DEF Next, FlashWalker, FlashFails, BlockStep

\* No other signature than that of the area being written is held back.
LEMMA UpdatedStep ==
  ASSUME IInv, Next
  PROVE  UpdatedInv'
<1>0. /\ build \in Builds /\ build' = build /\ UpdatedInv /\ WalkInv /\ k \in Nat /\ k > 0
      /\ i \in 1 .. (Len(BlocksToUpdate) + 1)
  BY DEF IInv, TypeOK, Next
<1>1. pc \in Walking => updated = IF HeldBack THEN {Area} ELSE {}
  BY <1>0 DEF UpdatedInv
<1>2. \A a : Size(a)' = Size(a)
  BY <1>0, SameLayout
<1>3. k > 1 \/ pc \in Working => InList
  BY <1>0 DEF WalkInv
<1>4. CASE KeepBlock \/ KeepHeader \/ FlashEraseBlock \/ EraseFails
  <2>1. pc = "Erase" /\ pc \in Working /\ pc' \in {"Program", "AfterWrite", "Failed"} /\ InList
    BY <1>3, <1>4 DEF KeepBlock, KeepHeader, FlashEraseBlock, EraseFails, Working
  <2>2. UNCHANGED <<job, i, k>> /\ Area' = Area /\ InList' = InList
    <3>1. UNCHANGED <<job, i, k>>
      BY <1>4 DEF KeepBlock, KeepHeader, FlashEraseBlock, EraseFails, walk
    <3>2. QED
      BY <1>0, <3>1, SameArea
  <2>3. HeldBack <=> ~job.backUp /\ k > 1
    BY <2>1 DEF HeldBack
  <2>4. pc' # "Failed" => (HeldBack' <=> ~job.backUp)
    BY <2>1, <2>2 DEF HeldBack
  <2>5. updated' = IF ~job.backUp THEN {Area} ELSE {}
    <3>1. CASE KeepBlock
      <4>1. updated' = updated /\ Dest[2] # 1
        BY <3>1 DEF KeepBlock, IsEqual, IsHeader
      <4>2. ~job.backUp => k > 1
        BY <1>0, <2>1, <4>1, DestBlock
      <4>3. QED
        BY <1>1, <2>1, <2>3, <4>1, <4>2 DEF Walking
    <3>2. CASE KeepHeader \/ FlashEraseBlock \/ EraseFails
      <4>1. updated' = IF Dest[2] = 1 THEN updated \union {Dest[1]} ELSE updated
        BY <3>2 DEF KeepHeader, FlashEraseBlock, EraseFails, BeforeErase, IsHeader
      <4>2. CASE job.backUp
        <5>1. Dest[2] # 1
          BY <2>1, <4>2, DestBlock
        <5>2. QED
          BY <1>1, <2>1, <2>3, <4>1, <4>2, <5>1 DEF Walking
      <4>3. CASE ~job.backUp
        <5>1. Dest[2] = k /\ Dest[1] = Area
          BY <2>1, <4>3, DestBlock
        <5>2. QED
          BY <1>0, <1>1, <2>1, <2>3, <4>1, <4>3, <5>1 DEF Walking
      <4>4. QED
        BY <4>2, <4>3
    <3>3. QED
      BY <1>4, <3>1, <3>2
  <2>6. QED
    BY <2>1, <2>2, <2>4, <2>5 DEF UpdatedInv, Walking, Working
<1>5. CASE FlashProgram \/ ProgramFails
  <2>1. pc = "Program" /\ pc' = "AfterWrite" /\ UNCHANGED <<job, i, k, updated>>
    BY <1>5 DEF FlashProgram, ProgramFails, walk
  <2>2. HeldBack' <=> HeldBack
    BY <1>0, <2>1, SameArea DEF HeldBack
  <2>3. QED
    BY <1>0, <1>1, <2>1, <2>2, SameArea DEF UpdatedInv, Walking, Working
<1>6. CASE AfterWrite \/ RestoreFails
  <2>1. pc = "AfterWrite" /\ pc \in Working /\ pc' \in {"NextBlock", "Failed"}
        /\ UNCHANGED <<job, i, k>> /\ InList
    BY <1>3, <1>6 DEF AfterWrite, RestoreFails, walk, Working
  <2>2. Area' = Area /\ InList' = InList
    BY <1>0, <2>1, SameArea
  <2>3. HeldBack <=> ~job.backUp
    BY <2>1 DEF HeldBack
  <2>4. updated' = IF Dest[2] = Size(Dest[1]) /\ Dest[1] \in updated THEN updated \ {Dest[1]}
                                                                     ELSE updated
    BY <1>6 DEF AfterWrite, RestoreFails, Restores
  <2>5. pc' = "NextBlock" => (HeldBack' <=> ~job.backUp /\ k # Size(Area))
    BY <1>2, <2>1, <2>2 DEF HeldBack
  <2>6. updated' = IF ~job.backUp /\ k # Size(Area) THEN {Area} ELSE {}
    <3>1. CASE job.backUp
      BY <1>1, <2>1, <2>3, <2>4, <3>1 DEF Walking
    <3>2. CASE ~job.backUp
      <4>1. Dest[2] = k /\ Dest[1] = Area /\ updated = {Area}
        BY <1>1, <2>1, <2>3, <3>2, DestBlock DEF Walking
      <4>2. QED
        BY <2>4, <3>2, <4>1
    <3>3. QED
      BY <3>1, <3>2
  <2>7. QED
    BY <2>1, <2>2, <2>5, <2>6 DEF UpdatedInv, Walking, Working
<1>7. CASE AmiFlashBackUp \/ SetBackUpAreaFails \/ AmiFlashProgram
  <2>1. pc = "Walk" /\ pc' = "Erase" /\ UNCHANGED <<job, i, k, updated>>
    BY <1>7 DEF AmiFlashBackUp, SetBackUpAreaFails, AmiFlashProgram, walk
  <2>2. HeldBack' <=> HeldBack
    BY <1>0, <2>1, SameArea DEF HeldBack
  <2>3. QED
    BY <1>0, <1>1, <2>1, <2>2, SameArea DEF UpdatedInv, Walking, Working
<1>8. CASE NextBlock
  <2>1. pc = "NextBlock" /\ pc' = "Walk" /\ UNCHANGED <<job, i, updated>> /\ k' = k + 1 /\ k # Limit
    BY <1>8 DEF NextBlock, IsLastBlock, Limit
  <2>2. HeldBack <=> ~job.backUp
    BY <1>3, <2>1 DEF HeldBack, Limit, Working
  <2>3. HeldBack' <=> ~job.backUp
    BY <1>0, <1>3, <2>1, SameArea DEF HeldBack, Working
  <2>4. QED
    BY <1>0, <1>1, <2>1, <2>2, <2>3, SameArea DEF UpdatedInv, Walking, Working
<1>9. CASE SkipArea \/ NextArea \/ EndOfBackUp
  <2>1. pc' = "Walk" /\ updated' = updated /\ pc \in {"Walk", "NextBlock"}
    BY <1>9 DEF SkipArea, NextArea, EndOfBackUp
  <2>2. ~HeldBack /\ k' = 1
    <3>1. CASE SkipArea
      BY <1>0, <3>1 DEF SkipArea, WalkInv, HeldBack
    <3>2. CASE NextArea
      BY <3>2 DEF NextArea, HeldBack, IsLastBlock
    <3>3. CASE EndOfBackUp
      BY <1>0, <1>3, <3>3, List DEF EndOfBackUp, HeldBack, InList
    <3>4. QED
      BY <1>9, <3>1, <3>2, <3>3
  <2>3. ~HeldBack'
    BY <2>1, <2>2 DEF HeldBack
  <2>4. QED
    BY <1>1, <2>1, <2>2, <2>3 DEF UpdatedInv, Walking, Working
<1>10. CASE Start
  <2>1. pc = "Up" /\ pc' = "Walk" /\ updated' = updated /\ k' = 1
    BY <1>10 DEF Start, FtControlFlow, FwUpdate
  <2>2. ~HeldBack'
    BY <2>1 DEF HeldBack
  <2>3. QED
    BY <1>0, <2>1, <2>2 DEF UpdatedInv
<1>11. CASE Boot
  BY <1>0, <1>11 DEF Boot, UpdatedInv, Walking, Working
<1>12. CASE EndOfUpdate
  <2>1. ~HeldBack /\ pc \in Walking /\ pc' = "Epilogue" /\ updated' = updated
    BY <1>0, <1>12, List DEF EndOfUpdate, HeldBack, InList, Walking
  <2>2. QED
    BY <1>1, <2>1 DEF UpdatedInv, Walking, Working
<1>13. CASE Epilogue \/ ResetSystem \/ PowerFail
  <2>1. pc' = "Off" /\ updated' = {}
    BY <1>13 DEF Epilogue, ResetSystem, PowerFail, Reset
  <2>2. QED
    BY <2>1 DEF UpdatedInv, Walking, Working
<1>14. QED
  BY <1>4, <1>5, <1>6, <1>7, <1>8, <1>9, <1>10, <1>11, <1>12, <1>13 DEF Next, FlashWalker,
     FlashFails
------------------------------------------------------------------------------
(***************************************************************************)
(* What a pass has written                                                 *)
(***************************************************************************)
\* An image's block is not an erased one.
LEMMA NotGarbage ==
  ASSUME build \in Builds, NEW img \in Images, NEW a \in Areas, NEW b \in 1 .. Size(a)
  PROVE  /\ ImageBlock(img, a, b) # Garbage
         /\ WithSignature(ImageBlock(img, a, b), FALSE) # Garbage
         /\ ImageBlock(img, a, b).signed
         /\ ~WithSignature(ImageBlock(img, a, b), FALSE).signed
         /\ WithSignature(WithSignature(ImageBlock(img, a, b), FALSE), TRUE)
              = ImageBlock(img, a, b)
<1>1. ImageBlock(img, a, b) \in Data /\ WithSignature(ImageBlock(img, a, b), FALSE) \in Data
  BY BlockTyped
<1>2. Garbage \notin Data
  <2>1. Data \subseteq [image : Images,
                        area : {"BB", "RECOVERY", "BB_BACKUP", "RECOVERY_BACKUP", "MAIN", "NVRAM"},
                        block : 1 .. (2 * Blocks + 1), signed : BOOLEAN]
    BY AreaNames DEF Data
  <2>2. QED
    BY <2>1, ReFlashAssumption DEF ReFlashAssumption
<1>3. /\ ImageBlock(img, a, b) # Garbage
      /\ WithSignature(ImageBlock(img, a, b), FALSE) # Garbage
  BY <1>1, <1>2
<1>4. /\ ImageBlock(img, a, b).signed
      /\ ~WithSignature(ImageBlock(img, a, b), FALSE).signed
  BY DEF ImageBlock, WithSignature
<1>5. WithSignature(WithSignature(ImageBlock(img, a, b), FALSE), TRUE)
        = ImageBlock(img, a, b)
  BY DEF ImageBlock, WithSignature
<1>6. QED
  BY <1>3, <1>4, <1>5

\* What is held back while a block is being worked on.
LEMMA HeldWhileWorking ==
  ASSUME IInv, pc \in Working
  PROVE  /\ job.image \in Images /\ InList /\ Update(Area) /\ k \in Nat /\ k > 0
         /\ job.backUp => updated = {}
         /\ ~job.backUp /\ pc \in {"Program", "AfterWrite"} => updated = {Area}
         /\ ~job.backUp /\ pc = "Erase" => updated = IF k > 1 THEN {Area} ELSE {}
         /\ ~job.backUp /\ pc = "NextBlock" => updated = IF k # Size(Area) THEN {Area} ELSE {}
<1>1. pc \in Walking /\ WalkInv /\ UpdatedInv /\ k \in Nat /\ k > 0
  BY DEF IInv, TypeOK, Walking
<1>2. job.image \in Images /\ InList /\ Update(Area)
  BY <1>1 DEF WalkInv
<1>3. updated = IF HeldBack THEN {Area} ELSE {}
  BY <1>1 DEF UpdatedInv
<1>4. QED
  BY <1>1, <1>2, <1>3 DEF HeldBack

\* A step on a block writes only there, or restores the signature of its area.
LEMMA OnlyDest ==
  ASSUME IInv, BlockStep
  PROVE  \A x \in Addresses : x # Dest /\ ~(~job.backUp /\ pc = "AfterWrite" /\ x = <<Area, 1>>) =>
           flash'[x] = flash[x]
<1>1. pc \in Working /\ flash \in [Addresses -> Data \union {Garbage}]
  BY BlockStepEffect DEF IInv, TypeOK
<1>2. CASE KeepBlock \/ KeepHeader \/ ProgramFails \/ RestoreFails
  BY <1>2 DEF KeepBlock, KeepHeader, ProgramFails, RestoreFails
<1>3. CASE FlashEraseBlock \/ FlashProgram \/ EraseFails
  <2>1. flash' = flash \/ \E v : flash' = [flash EXCEPT ![Dest] = v]
    BY <1>3 DEF FlashEraseBlock, FlashProgram, EraseFails
  <2>2. QED
    BY <1>1, <2>1
<1>4. CASE AfterWrite
  <2>1. /\ pc = "AfterWrite"
        /\ flash' = IF Dest[2] = Size(Dest[1]) /\ Dest[1] \in updated THEN Signed(Dest[1]) ELSE flash
    BY <1>4 DEF AfterWrite, Restores
  <2>2. CASE job.backUp
    BY <1>1, <2>1, <2>2, HeldWhileWorking
  <2>3. CASE ~job.backUp
    <3>1. Dest[1] = Area
      BY <1>1, <2>3, DestBlock
    <3>2. \A x \in Addresses : x # <<Area, 1>> => Signed(Area)[x] = flash[x]
      BY <1>1 DEF Signed
    <3>3. QED
      BY <2>1, <2>3, <3>1, <3>2
  <2>4. QED
    BY <2>2, <2>3
<1>5. QED
  BY <1>2, <1>3, <1>4 DEF BlockStep

\* A step on a block only adds that the signature of its area could not be restored, and
\* takes away no more than that of FV_MAIN, with its header.
LEMMA BlockLapses ==
  ASSUME IInv, BlockStep
  PROVE  /\ lapses' \subseteq lapses \union {Area} /\ lapses \ {"SetBackUpArea"} \subseteq lapses'
         /\ job.backUp \/ Dest # <<"MAIN", 1>> => lapses \subseteq lapses'
         /\ job.backUp => lapses' = lapses
         /\ "SetBackUpArea" \in lapses' => "SetBackUpArea" \in lapses
<1>1. /\ pc \in Working /\ build \in Builds /\ Area \in Areas
      /\ job.backUp => Dest # <<"MAIN", 1>> /\ updated = {}
      /\ ~job.backUp => Dest[1] = Area
  BY BlockStepEffect, DestBlock, HeldWhileWorking DEF IInv, TypeOK
<1>2. Area # "SetBackUpArea"
  BY <1>1, AreaNames
<1>3. CASE KeepBlock \/ FlashProgram \/ ProgramFails \/ AfterWrite
  BY <1>3 DEF KeepBlock, FlashProgram, ProgramFails, AfterWrite
<1>4. CASE KeepHeader \/ FlashEraseBlock \/ EraseFails
  BY <1>1, <1>2, <1>4 DEF KeepHeader, FlashEraseBlock, EraseFails, Noticed
<1>5. CASE RestoreFails
  <2>1. ~job.backUp /\ lapses' = lapses \union {Area}
    BY <1>1, <1>5 DEF RestoreFails, Restores
  <2>2. QED
    BY <1>2, <1>5, <2>1
<1>6. QED
  BY <1>3, <1>4, <1>5 DEF BlockStep

\* Nothing but the signature of FV_MAIN is overlooked at a boot or in a backup.
LEMMA LapseStep ==
  ASSUME IInv, Next
  PROVE  LapseInv'
<1>0. /\ LapseInv /\ build \in Builds /\ topSwap \in BOOLEAN /\ BootBlockChoices \subseteq BOOLEAN
      /\ job \in [image : Images \union {Garbage}, bb : BOOLEAN, backUp : BOOLEAN]
  BY ReFlashAssumption DEF IInv, TypeOK, ReFlashAssumption
<1>1. CASE BlockStep
  <2>1. pc \in Walking /\ job' = job /\ pc' # "Up"
    BY <1>1, BlockStepEffect DEF Walking
  <2>2. QED
    BY <1>0, <1>1, <2>1, BlockLapses DEF LapseInv
<1>2. CASE Boot
  BY <1>0, <1>2 DEF Boot, LapseInv, Walking, Working
<1>3. CASE Start
  <2>1. PICK img \in Images, bb \in BootBlockChoices : FtControlFlow(img, bb) \/ FwUpdate(img, bb)
    BY <1>3 DEF Start
  <2>2. /\ pc = "Up" /\ pc' = "Walk" /\ (job'.backUp => lapses' = lapses)
        /\ lapses' \subseteq lapses \union {"FtControlFlow", "FwUpdate"}
    BY <1>0, <2>1, StartEffect
  <2>3. QED
    BY <1>0, <2>2 DEF LapseInv
<1>4. CASE AmiFlashBackUp \/ SetBackUpAreaFails
  <2>1. /\ pc = "Walk" /\ pc' = "Erase" /\ job' = job /\ job.backUp
        /\ lapses' \subseteq lapses \union {"SetBackUpArea"}
    BY <1>4 DEF AmiFlashBackUp, SetBackUpAreaFails, walk
  <2>2. "SetBackUpArea" \in lapses' => FlashErrors
    BY <1>0, <1>4 DEF AmiFlashBackUp, SetBackUpAreaFails, LapseInv
  <2>3. QED
    BY <1>0, <2>1, <2>2 DEF LapseInv, Walking
<1>5. CASE SkipArea \/ AmiFlashProgram \/ NextBlock \/ NextArea \/ EndOfBackUp
  <2>1. /\ pc \in Walking /\ pc' # "Up" /\ lapses' \subseteq lapses
        /\ job'.backUp => job.backUp
    BY <1>0, <1>5
       DEF SkipArea, AmiFlashProgram, NextBlock, NextArea, EndOfBackUp, walk, Walking, Working
  <2>2. QED
    BY <1>0, <2>1 DEF LapseInv
<1>6. CASE EndOfUpdate \/ Epilogue \/ ResetSystem \/ PowerFail
  <2>1. pc' \in {"Epilogue", "Off"} /\ lapses' = lapses
    BY <1>6 DEF EndOfUpdate, Epilogue, ResetSystem, PowerFail, Reset
  <2>2. QED
    BY <1>0, <2>1 DEF LapseInv, Walking, Working
<1>7. QED
  BY <1>1, <1>2, <1>3, <1>4, <1>5, <1>6 DEF Next, FlashWalker, FlashFails, BlockStep

\* The blocks that are written, one step on a block later.
LEMMA WrittenByBlockStep ==
  ASSUME IInv, Next, BlockStep, ~job.backUp, pc' \in Walking,
         NEW b \in 1 .. Size(Area), Written(b)', Known(b)'
  PROVE  flash'[<<Area, b>>] = WrittenBlock(b)'
<1>0. /\ build \in Builds /\ build' = build /\ k \in Nat /\ k > 0
      /\ flash \in [Addresses -> Data \union {Garbage}] /\ failed \in BOOLEAN
      /\ pc \notin {"AfterWrite", "Failed"} => ~failed
  BY DEF IInv, TypeOK, Next, WalkInv
<1>1. /\ pc \in Working /\ UNCHANGED <<job, i, k>> /\ Area' = Area
      /\ InList /\ Update(Area) /\ job.image \in Images /\ b \in Nat
      /\ Area \in Areas /\ Dest = <<Area, k>> /\ Dest[1] = Area /\ Dest[2] = k /\ k \in 1 .. Size(Area)
  BY <1>0, BlockStepEffect, SameArea, HeldWhileWorking, DestBlock
<1>2. Written(b) /\ Known(b) => flash[<<Area, b>>] = WrittenBlock(b)
  BY <1>1 DEF IInv, ProgressInv, Walking
<1>3. <<Area, b>> \in Addresses /\ <<Area, 1>> \in Addresses
  BY <1>1, Address, Sizes
<1>4. WrittenBlock(b)' = IF b = 1 /\ Area \in updated'
                         THEN WithSignature(ImageBlock(job.image, Area, b), FALSE)
                         ELSE ImageBlock(job.image, Area, b)
  BY <1>1 DEF WrittenBlock, ImageBlock, WithSignature
<1>5. b < k \/ b = k
  BY <1>1 DEF Written
\* The signature is held back before the last block is dealt with.
<1>6. pc \in {"Erase", "Program", "AfterWrite"} /\ b < k => Known(b)
  BY <1>0, <1>1, HeldWhileWorking DEF Known
<1>7. CASE KeepBlock
  <2>1. pc = "Erase" /\ UNCHANGED <<flash, updated>> /\ k # 1 /\ flash[<<Area, k>>] = Source
    BY <1>1, <1>7 DEF KeepBlock, IsEqual, IsHeader
  <2>2. CASE b < k
    BY <1>2, <1>4, <1>6, <2>1, <2>2 DEF Written, WrittenBlock
  <2>3. CASE b = k
    BY <1>4, <2>1, <2>3 DEF Source
  <2>4. QED
    BY <1>5, <2>2, <2>3
<1>8. CASE KeepHeader
  <2>1. /\ pc = "Erase" /\ flash' = flash /\ k = 1 /\ updated' = updated \union {Area}
        /\ flash[<<Area, k>>] = WithSignature(Source, FALSE)
    BY <1>1, <1>8 DEF KeepHeader, BeforeErase, IsHeader
  <2>2. b = 1
    BY <1>1, <1>5, <2>1
  <2>3. QED
    BY <1>4, <2>1, <2>2 DEF Source
<1>9. CASE FlashEraseBlock \/ EraseFails
  <2>1. pc = "Erase" /\ b < k
    BY <1>0, <1>1, <1>9 DEF FlashEraseBlock, EraseFails, Written
  <2>2. flash'[<<Area, b>>] = flash[<<Area, b>>]
    BY <1>1, <1>3, <2>1, OnlyDest
  <2>3. updated' = updated
    BY <1>0, <1>1, <1>9, <2>1 DEF FlashEraseBlock, EraseFails, BeforeErase, IsHeader
  <2>4. QED
    BY <1>2, <1>4, <1>6, <2>1, <2>2, <2>3 DEF Written, WrittenBlock
<1>10. CASE FlashProgram
  <2>1. pc = "Program" /\ updated' = updated /\ updated = {Area}
        /\ flash' = [flash EXCEPT ![<<Area, k>>] = BeforeWrite(Dest, Source)]
    BY <1>1, <1>10, HeldWhileWorking DEF FlashProgram
  <2>2. CASE b < k
    <3>1. flash'[<<Area, b>>] = flash[<<Area, b>>]
      BY <1>0, <1>1, <1>3, <2>1, <2>2
    <3>2. QED
      BY <1>2, <1>4, <1>6, <2>1, <2>2, <3>1 DEF Written, WrittenBlock
  <2>3. CASE b = k
    <3>1. flash'[<<Area, b>>] = BeforeWrite(Dest, Source)
      BY <1>0, <1>3, <2>1, <2>3
    <3>2. BeforeWrite(Dest, Source) = IF k = 1 THEN WithSignature(ImageBlock(job.image, Area, k), FALSE)
                                               ELSE ImageBlock(job.image, Area, k)
      BY <1>1, <2>1 DEF BeforeWrite, IsHeader, Source
    <3>3. QED
      BY <1>4, <2>1, <2>3, <3>1, <3>2
  <2>4. QED
    BY <1>5, <2>2, <2>3
<1>11. CASE ProgramFails
  <2>1. pc = "Program" /\ UNCHANGED <<flash, updated>> /\ b < k
    BY <1>0, <1>1, <1>11 DEF ProgramFails, Written
  <2>2. QED
    BY <1>2, <1>4, <1>6, <2>1 DEF Written, WrittenBlock
<1>12. CASE AfterWrite
  <2>1. /\ pc = "AfterWrite" /\ ~failed
        /\ flash' = IF k = Size(Area) /\ Area \in updated THEN Signed(Area) ELSE flash
        /\ updated' = IF k = Size(Area) /\ Area \in updated THEN updated \ {Area} ELSE updated
    BY <1>1, <1>12 DEF AfterWrite, Restores, Walking, Working
  <2>2. updated = {Area} /\ Written(b) /\ Known(b)
    BY <1>1, <1>5, <2>1, HeldWhileWorking DEF Written, Known
  <2>3. flash[<<Area, b>>] = IF b = 1 THEN WithSignature(ImageBlock(job.image, Area, b), FALSE)
                                      ELSE ImageBlock(job.image, Area, b)
    BY <1>2, <2>2 DEF WrittenBlock
  <2>4. CASE k # Size(Area)
    BY <1>4, <2>1, <2>2, <2>3, <2>4
  <2>5. CASE k = Size(Area)
    <3>1. WrittenBlock(b)' = ImageBlock(job.image, Area, b)
      BY <1>4, <2>1, <2>2, <2>5
    <3>2. flash' = Signed(Area)
      BY <2>1, <2>2, <2>5
    <3>3. CASE b # 1
      BY <1>0, <1>3, <2>3, <3>1, <3>2, <3>3 DEF Signed
    <3>4. CASE b = 1
      <4>1. flash[<<Area, 1>>] # Garbage
        <5>1. WithSignature(ImageBlock(job.image, Area, b), FALSE) # Garbage
          BY <1>0, <1>1, NotGarbage
        <5>2. flash[<<Area, b>>] = WithSignature(ImageBlock(job.image, Area, b), FALSE)
          BY <2>3, <3>4
        <5>3. QED
          BY <3>4, <5>1, <5>2
      <4>2. flash'[<<Area, 1>>] = WithSignature(flash[<<Area, 1>>], TRUE)
        BY <1>0, <1>3, <3>2, <4>1 DEF Signed
      <4>3. WithSignature(WithSignature(ImageBlock(job.image, Area, b), FALSE), TRUE)
              = ImageBlock(job.image, Area, b)
        BY DEF ImageBlock, WithSignature
      <4>4. QED
        BY <2>3, <3>1, <3>4, <4>2, <4>3
    <3>5. QED
      BY <3>3, <3>4
  <2>6. QED
    BY <2>4, <2>5
\* The first block is not Known then.
<1>13. CASE RestoreFails
  <2>1. /\ pc = "AfterWrite" /\ ~failed /\ flash' = flash /\ updated' = updated \ {Area}
        /\ Area \in lapses'
    BY <1>1, <1>13 DEF RestoreFails, Restores, Walking, Working
  <2>2. b # 1 /\ updated = {Area} /\ Written(b) /\ Known(b)
    BY <1>1, <1>5, <2>1, HeldWhileWorking DEF Written, Known
  <2>3. QED
    BY <1>2, <1>4, <2>1, <2>2 DEF WrittenBlock
<1>14. QED
  BY <1>7, <1>9, <1>10, <1>11, <1>12, <1>8, <1>13 DEF BlockStep

\* What the pass has written stays, and a backup has destroyed the signature of FV_MAIN.
LEMMA ProgressStep ==
  ASSUME IInv, Next
  PROVE  ProgressInv'
<1>0. /\ build \in Builds /\ build' = build /\ k \in Nat /\ k > 0 /\ failed \in BOOLEAN
      /\ flash \in [Addresses -> Data \union {Garbage}] /\ ProgressInv /\ WalkInv
      /\ pc \notin {"AfterWrite", "Failed"} => ~failed
      /\ job \in [image : Images \union {Garbage}, bb : BOOLEAN, backUp : BOOLEAN]
      /\ i \in 1 .. (Len(BlocksToUpdate) + 1)
  BY DEF IInv, TypeOK, Next, WalkInv
<1>1. /\ "MAIN" \in Areas /\ <<"MAIN", 1>> \in Addresses /\ (\A a : Size(a)' = Size(a))
  BY <1>0, AreaNames, Address, Sizes, SameLayout
<1> DEFINE Done == \A b \in 1 .. Size(Area) :
                     Written(b) /\ Known(b) => flash[<<Area, b>>] = WrittenBlock(b)
           P1 == pc \in Walking /\ InList /\ ~job.backUp /\ Update(Area) => Done
           Hidden == flash[<<"MAIN", 1>>] = Garbage \/ "SetBackUpArea" \in lapses
           P2 == pc \in Walking /\ job.backUp /\ job.bb /\ ~(pc = "Walk" /\ FirstRun) => Hidden
<1>2. SUFFICES P1' /\ P2'
  BY DEF ProgressInv
<1>3. P1 /\ P2
  BY <1>0 DEF ProgressInv
<1>4. CASE BlockStep
  <2>1. /\ pc \in Working /\ pc \in Walking /\ pc # "Walk" /\ UNCHANGED <<job, i, k>>
        /\ Area' = Area /\ Dest \in Addresses /\ (job.backUp => Dest # <<"MAIN", 1>>)
    <3>1. pc \in Working /\ UNCHANGED <<job, i, k>>
      BY <1>4, BlockStepEffect
    <3>2. QED
      BY <1>0, <3>1, SameArea, DestBlock DEF Walking, Working
  <2>2. P1'
    BY <1>1, <1>4, <2>1, WrittenByBlockStep
  <2>3. job.backUp => flash'[<<"MAIN", 1>>] = flash[<<"MAIN", 1>>] /\ lapses' = lapses
    BY <1>1, <1>4, <2>1, OnlyDest, BlockLapses
  <2>4. P2'
    BY <1>3, <2>1, <2>3
  <2>5. QED
    BY <2>2, <2>4
<1>5. CASE NextBlock \/ AmiFlashProgram
  <2>1. /\ UNCHANGED <<job, i, flash, updated, lapses>> /\ pc \in {"NextBlock", "Walk"}
        /\ pc' \in {"Walk", "Erase"} /\ (pc = "NextBlock" => k' = k + 1)
        /\ (pc = "Walk" => k' = k /\ ~job.backUp)
    BY <1>5 DEF NextBlock, AmiFlashProgram, walk
  <2>2. Area' = Area /\ InList' = InList /\ Update(Area)' = Update(Area)
    BY <1>0, <2>1, SameArea
  <2>3. \A b \in 1 .. Size(Area) : (Written(b)' => Written(b)) /\ Known(b)' = Known(b)
    <3>1. \A b : Known(b)' = Known(b)
      BY <2>1, <2>2 DEF Known
    <3>2. \A b \in 1 .. Size(Area) : Written(b)' => Written(b)
      BY <1>0, <2>1, Sizes DEF Written
    <3>3. QED
      BY <3>1, <3>2
  <2>4. \A b \in 1 .. Size(Area) : WrittenBlock(b)' = WrittenBlock(b)
    BY <2>1, <2>2 DEF WrittenBlock, ImageBlock, WithSignature
  <2>5. P1'
    BY <1>1, <1>3, <2>1, <2>2, <2>3, <2>4 DEF Walking, Working
  <2>6. P2'
    BY <1>3, <2>1 DEF Walking, Working
  <2>7. QED
    BY <2>5, <2>6
<1>6. CASE AmiFlashBackUp \/ SetBackUpAreaFails
  <2>1. pc = "Walk" /\ pc' = "Erase" /\ UNCHANGED job /\ job.backUp
    BY <1>6 DEF AmiFlashBackUp, SetBackUpAreaFails, walk
  <2>2. job.bb => Hidden'
    <3>1. CASE SetBackUpAreaFails
      BY <3>1 DEF SetBackUpAreaFails
    <3>2. CASE AmiFlashBackUp /\ FirstRun
      BY <1>0, <1>1, <3>2 DEF AmiFlashBackUp
    <3>3. CASE AmiFlashBackUp /\ ~FirstRun
      BY <1>3, <2>1, <3>3 DEF AmiFlashBackUp, Walking
    <3>4. QED
      BY <1>6, <3>1, <3>2, <3>3
  <2>3. QED
    BY <2>1, <2>2
<1>7. CASE Start \/ SkipArea \/ NextArea \/ EndOfBackUp
  <2>1. k' = 1 /\ pc' = "Walk"
    <3>1. CASE Start
      BY <3>1 DEF Start, FtControlFlow, FwUpdate
    <3>2. CASE SkipArea
      BY <1>0, <3>2 DEF SkipArea, WalkInv
    <3>3. CASE NextArea
      BY <3>3 DEF NextArea
    <3>4. CASE EndOfBackUp
      <4>1. Len(BlocksToUpdate) \in Nat
        BY <1>0, List
      <4>2. QED
        BY <1>0, <3>4, <4>1 DEF EndOfBackUp, WalkInv, InList
    <3>5. QED
      BY <1>7, <3>1, <3>2, <3>3, <3>4
  <2>2. \A b \in 1 .. Size(Area)' : ~Written(b)'
    BY <1>1, <2>1, Sizes DEF Written
  <2>3. P2'
    <3>1. CASE Start
      BY <3>1 DEF Start, FtControlFlow, FwUpdate, FirstRun
    <3>2. CASE SkipArea
      <4>1. SUFFICES ASSUME job.backUp, job.bb PROVE Hidden'
        BY <3>2 DEF SkipArea
      <4>2. FtRecovery /\ ~BuildTimeBackup
        BY <1>0, <4>1 DEF WalkInv
      <4>3. BlocksToUpdate[1] = "BB"
        BY <1>0, <4>2, List
      <4>4. i # 1
        BY <3>2, <4>1, <4>2, <4>3 DEF SkipArea, Area, Update, HasBackUp, IsBootBlock
      <4>5. QED
        BY <1>3, <3>2, <4>1, <4>4 DEF SkipArea, FirstRun, Walking
    <3>3. CASE NextArea
      <4>1. /\ pc = "NextBlock" /\ UNCHANGED <<flash, job>> /\ (job.backUp => lapses' = lapses)
        BY <3>3 DEF NextArea
      <4>2. QED
        BY <1>3, <4>1 DEF Walking, Working
    <3>4. CASE EndOfBackUp
      BY <1>0, <3>4 DEF EndOfBackUp
    <3>5. QED
      BY <1>7, <3>1, <3>2, <3>3, <3>4
  <2>4. QED
    BY <2>1, <2>2, <2>3
<1>8. CASE Boot \/ EndOfUpdate \/ Epilogue \/ ResetSystem \/ PowerFail
  <2>1. pc' \in {"Up", "Epilogue", "Off"}
    BY <1>8 DEF Boot, EndOfUpdate, Epilogue, ResetSystem, PowerFail, Reset
  <2>2. QED
    BY <2>1 DEF Walking, Working
<1>9. QED
  BY <1>4, <1>5, <1>6, <1>7, <1>8 DEF Next, FlashWalker, FlashFails, BlockStep

\* No signature is held back at the end of an update, so that nothing is written.
LEMMA EpilogueWritesNothing ==
  ASSUME IInv, Epilogue
  PROVE  flash' = flash
<1>1. updated = {} /\ flash \in [Addresses -> Data \union {Garbage}]
  BY DEF IInv, TypeOK, UpdatedInv, Epilogue
<1>2. flash' = [x \in Addresses |-> flash[x]]
  BY <1>1 DEF Epilogue
<1>3. QED
  BY <1>1, <1>2

\* The steps that write to flash.
LEMMA Writers ==
  ASSUME IInv, Next
  PROVE  flash' = flash \/ AmiFlashBackUp \/ BlockStep
BY EpilogueWritesNothing
   DEF Next, FlashWalker, FlashFails, BlockStep, Boot, Start, FtControlFlow, FwUpdate, SkipArea,
       AmiFlashProgram, SetBackUpAreaFails, NextBlock, NextArea, EndOfBackUp, EndOfUpdate, ResetSystem,
       PowerFail

\* The signature of FV_MAIN stops being overlooked only when it is destroyed.
LEMMA StillOverlooked ==
  ASSUME IInv, Next, "SetBackUpArea" \notin lapses', "SetBackUpArea" \in lapses
  PROVE  AmiFlashBackUp \/ (BlockStep /\ Dest = <<"MAIN", 1>>)
BY BlockLapses
   DEF Next, FlashWalker, FlashFails, BlockStep, Boot, Start, FtControlFlow, FwUpdate, SkipArea,
       AmiFlashProgram, SetBackUpAreaFails, NextBlock, NextArea, EndOfBackUp, EndOfUpdate, Epilogue,
       ResetSystem, PowerFail

\* FV_MAIN is invalid while one of its later blocks is written.
LEMMA MainHidden ==
  ASSUME IInv, pc \in {"Erase", "Program"}, Dest[1] = "MAIN", Dest[2] # 1
  PROVE  ~FvValid("MAIN") \/ "SetBackUpArea" \in lapses
<1>1. /\ pc \in Working /\ pc \in Walking /\ build \in Builds /\ k \in Nat /\ k > 0
      /\ InList /\ Update(Area) /\ job.image \in Images /\ ProgressInv
  BY HeldWhileWorking DEF IInv, TypeOK, Walking, Working
<1>2. CASE job.backUp
  <2>1. HasBackUp(Area)
    BY <1>1, <1>2 DEF IInv, WalkInv
  <2>2. job.bb
    BY <1>1, <2>1 DEF Update, HasBackUp
  <2>3. QED
    BY <1>1, <1>2, <2>2 DEF ProgressInv, FvValid
<1>3. CASE ~job.backUp
  <2>1. Area = "MAIN" /\ Area \in Areas /\ Dest[2] = k /\ 1 \in 1 .. Size(Area)
    BY <1>1, <1>3, DestBlock, Sizes
  <2>2. k > 1
    BY <1>1, <2>1
  <2>3. updated = {Area}
    BY <1>1, <1>3, <2>2, HeldWhileWorking
  <2>4. Written(1) /\ Known(1)
    BY <2>2, <2>3 DEF Written, Known
  <2>5. flash[<<"MAIN", 1>>] = WrittenBlock(1)
    BY <1>1, <1>3, <2>1, <2>4 DEF ProgressInv
  <2>6. WrittenBlock(1) = WithSignature(ImageBlock(job.image, Area, 1), FALSE)
    BY <2>3 DEF WrittenBlock
  <2>7. ~WrittenBlock(1).signed
    BY <2>6 DEF WithSignature
  <2>8. QED
    BY <2>5, <2>7 DEF FvValid
<1>4. QED
  BY <1>2, <1>3

\* A valid FV_MAIN is complete, but for an error in its last block.
LEMMA MainStep ==
  ASSUME IInv, Next
  PROVE  MainInv'
<1>0. /\ build \in Builds /\ build' = build /\ k \in Nat /\ k > 0 /\ failed \in BOOLEAN
      /\ flash \in [Addresses -> Data \union {Garbage}] /\ MainInv /\ ProgressInv
      /\ failed => FlashErrors
  BY DEF IInv, TypeOK, Next, WalkInv
<1>1. /\ "MAIN" \in Areas /\ Size("MAIN") \in Nat /\ Size("MAIN") > 1 /\ 1 \in 1 .. Size("MAIN")
      /\ Size("MAIN")' = Size("MAIN") /\ <<"MAIN", 1>> \in Addresses
      /\ \A b \in 1 .. Size("MAIN") : <<"MAIN", b>> \in Addresses
  <2>1. "MAIN" \in Areas /\ Size("MAIN")' = Size("MAIN")
    BY <1>0, AreaNames, SameLayout
  <2>2. Size("MAIN") \in Nat /\ Size("MAIN") > 1
    BY Sizes
  <2>3. 1 \in 1 .. Size("MAIN")
    BY <2>2
  <2>4. QED
    BY <2>1, <2>2, <2>3, Address
<1>2. SUFFICES ASSUME FvValid("MAIN")', "SetBackUpArea" \notin lapses'
               PROVE  \E img \in Images : NearlyComplete("MAIN", img)'
  BY DEF MainInv
<1>3. ASSUME \A b \in 1 .. Size("MAIN") : flash'[<<"MAIN", b>>] = flash[<<"MAIN", b>>],
             "SetBackUpArea" \notin lapses
      PROVE  \E img \in Images : NearlyComplete("MAIN", img)'
  <2>1. FvValid("MAIN")
    BY <1>1, <1>2, <1>3 DEF FvValid
  <2>2. PICK img \in Images : NearlyComplete("MAIN", img)
    BY <1>0, <1>3, <2>1 DEF MainInv
  <2>3. /\ \A b \in 1 .. (Size("MAIN") - 1) : flash'[<<"MAIN", b>>] = ImageBlock(img, "MAIN", b)
        /\ flash'[<<"MAIN", Size("MAIN")>>] = flash[<<"MAIN", Size("MAIN")>>]
    BY <1>1, <1>3, <2>2 DEF NearlyComplete
  <2>4. NearlyComplete("MAIN", img)'
    BY <1>1, <2>2, <2>3 DEF NearlyComplete, ImageBlock
  <2>5. QED
    BY <2>4
<1>4. CASE flash' = flash /\ "SetBackUpArea" \notin lapses
  BY <1>3, <1>4
<1>5. CASE AmiFlashBackUp
  <2>1. CASE FirstRun
    BY <1>0, <1>1, <1>2, <1>5, <2>1 DEF AmiFlashBackUp, FvValid
  <2>2. CASE ~FirstRun
    BY <1>2, <1>4, <1>5, <2>2 DEF AmiFlashBackUp
  <2>3. QED
    BY <2>1, <2>2
<1>6. CASE BlockStep
  <2>1. /\ pc \in Working /\ UNCHANGED <<job, i, k>> /\ Area' = Area /\ Dest \in Addresses
        /\ InList /\ Update(Area) /\ job.image \in Images /\ Area \in Areas
        /\ Dest = <<Dest[1], Dest[2]>> /\ Dest[2] \in 1 .. Size(Dest[1])
    <3>1. pc \in Working /\ UNCHANGED <<job, i, k>>
      BY <1>6, BlockStepEffect
    <3>2. QED
      BY <1>0, <3>1, SameArea, DestBlock, HeldWhileWorking, Address
  <2>2. Dest # <<"MAIN", 1>> => "SetBackUpArea" \notin lapses
    BY <1>2, <1>6, BlockLapses
  <2>3. CASE Dest[1] # "MAIN"
    <3>1. ~job.backUp => Area # "MAIN"
      BY <2>1, <2>3, DestBlock
    <3>2. \A b \in 1 .. Size("MAIN") : flash'[<<"MAIN", b>>] = flash[<<"MAIN", b>>]
      <4>1. TAKE b \in 1 .. Size("MAIN")
      <4>2. <<"MAIN", b>> # Dest /\ ~(~job.backUp /\ <<"MAIN", b>> = <<Area, 1>>)
        BY <2>1, <2>3, <3>1
      <4>3. QED
        BY <1>1, <1>6, <4>2, OnlyDest
    <3>3. QED
      BY <1>3, <2>3, <2>2, <3>2
  <2>4. CASE Dest[1] = "MAIN" /\ (KeepBlock \/ ProgramFails \/ RestoreFails)
    <3>1. flash' = flash /\ lapses \subseteq lapses'
      BY <2>4 DEF KeepBlock, ProgramFails, RestoreFails
    <3>2. QED
      BY <1>2, <1>4, <3>1
  <2>5. CASE Dest[1] = "MAIN" /\ KeepHeader
    <3>1. /\ pc = "Erase" /\ Dest = <<"MAIN", 1>> /\ flash' = flash
          /\ flash[Dest] = WithSignature(Source, FALSE)
      BY <2>1, <2>5 DEF KeepHeader, IsHeader
    <3>2. ~flash'[<<"MAIN", 1>>].signed
      BY <3>1 DEF WithSignature
    <3>3. QED
      BY <1>2, <3>2 DEF FvValid
  <2>6. CASE Dest[1] = "MAIN" /\ (FlashEraseBlock \/ EraseFails \/ FlashProgram)
    <3>1. pc \in {"Erase", "Program"}
      BY <2>6 DEF FlashEraseBlock, EraseFails, FlashProgram
    <3>2. CASE Dest[2] # 1
      <4>1. flash'[<<"MAIN", 1>>] = flash[<<"MAIN", 1>>]
        <5>1. <<"MAIN", 1>> # Dest
          BY <3>2
        <5>2. QED
          BY <1>1, <1>6, <3>1, <5>1, OnlyDest
      <4>2. ~FvValid("MAIN")
        BY <2>6, <2>2, <3>1, <3>2, MainHidden
      <4>3. QED
        BY <1>2, <4>1, <4>2 DEF FvValid
    <3>3. CASE Dest[2] = 1 /\ (FlashEraseBlock \/ EraseFails)
      <4>1. flash'[<<"MAIN", 1>>] = Garbage
        BY <1>0, <2>1, <2>6, <3>3 DEF FlashEraseBlock, EraseFails, IsHeader
      <4>2. QED
        BY <1>2, <4>1 DEF FvValid
    <3>4. CASE Dest[2] = 1 /\ FlashProgram
      <4>1. ~job.backUp /\ Area = "MAIN" /\ k = 1 /\ pc = "Program"
        BY <2>1, <2>6, <3>4, DestBlock DEF FlashProgram
      <4>2. updated = {"MAIN"}
        BY <2>1, <4>1, HeldWhileWorking
      <4>3. flash'[<<"MAIN", 1>>] = WithSignature(ImageBlock(job.image, "MAIN", 1), FALSE)
        <5>1. BeforeWrite(Dest, Source) = WithSignature(Source, FALSE) /\ Dest = <<"MAIN", 1>>
          BY <2>1, <2>6, <3>4, <4>2 DEF BeforeWrite, IsHeader
        <5>2. Source = ImageBlock(job.image, "MAIN", 1)
          BY <4>1 DEF Source
        <5>3. QED
          BY <1>0, <1>1, <3>4, <5>1, <5>2 DEF FlashProgram
      <4>4. ~WithSignature(ImageBlock(job.image, "MAIN", 1), FALSE).signed
        BY <1>0, <1>1, <2>1, NotGarbage
      <4>5. QED
        BY <1>2, <4>3, <4>4 DEF FvValid
    <3>5. QED
      BY <2>6, <3>2, <3>3, <3>4
  <2>7. CASE Dest[1] = "MAIN" /\ AfterWrite
    <3>1. /\ pc = "AfterWrite"
          /\ flash' = IF Dest[2] = Size("MAIN") /\ "MAIN" \in updated THEN Signed("MAIN") ELSE flash
          /\ lapses' = lapses
      BY <2>7 DEF AfterWrite, Restores
    <3>2. CASE ~(Dest[2] = Size("MAIN") /\ "MAIN" \in updated)
      BY <1>2, <1>4, <3>1, <3>2
    <3>3. CASE Dest[2] = Size("MAIN") /\ "MAIN" \in updated
      <4>1. /\ ~job.backUp /\ Area = "MAIN" /\ k = Size("MAIN") /\ flash' = Signed("MAIN")
            /\ updated = {Area} /\ Dest = <<"MAIN", k>>
        BY <2>1, <2>7, <3>1, <3>3, DestBlock, HeldWhileWorking
      <4>2. \A b \in 1 .. Size("MAIN") : Written(b) => flash[<<"MAIN", b>>] = WrittenBlock(b)
        <5>1. \A b : Known(b)
          BY <4>1 DEF Known
        <5>2. QED
          BY <1>0, <2>1, <4>1, <5>1 DEF ProgressInv, Walking
      <4>3. Written(1) /\ flash[<<"MAIN", 1>>] = WithSignature(ImageBlock(job.image, "MAIN", 1), FALSE)
        <5>1. Written(1)
          BY <1>1, <4>1 DEF Written
        <5>2. WrittenBlock(1) = WithSignature(ImageBlock(job.image, "MAIN", 1), FALSE)
          BY <4>1 DEF WrittenBlock
        <5>3. QED
          BY <1>1, <4>2, <5>1, <5>2
      <4>4. flash'[<<"MAIN", 1>>] = ImageBlock(job.image, "MAIN", 1)
        <5>1. flash[<<"MAIN", 1>>] # Garbage
          BY <1>0, <1>1, <2>1, <4>3, NotGarbage
        <5>2. flash'[<<"MAIN", 1>>] = WithSignature(flash[<<"MAIN", 1>>], TRUE)
          BY <1>0, <1>1, <4>1, <5>1 DEF Signed
        <5>3. WithSignature(WithSignature(ImageBlock(job.image, "MAIN", 1), FALSE), TRUE)
                = ImageBlock(job.image, "MAIN", 1)
          BY DEF ImageBlock, WithSignature
        <5>4. QED
          BY <4>3, <5>2, <5>3
      <4>5. \A b \in 2 .. Size("MAIN") : flash'[<<"MAIN", b>>] = flash[<<"MAIN", b>>]
        <5>1. TAKE b \in 2 .. Size("MAIN")
        <5>2. <<"MAIN", b>> \in Addresses /\ <<"MAIN", b>> # <<"MAIN", 1>>
          BY <1>1
        <5>3. QED
          BY <1>0, <4>1, <5>2 DEF Signed
      <4>6. \A b \in 2 .. (Size("MAIN") - 1) : flash[<<"MAIN", b>>] = ImageBlock(job.image, "MAIN", b)
        <5>1. TAKE b \in 2 .. (Size("MAIN") - 1)
        <5>2. b \in 1 .. Size("MAIN") /\ b < k /\ b # 1
          BY <1>1, <4>1
        <5>3. QED
          BY <4>1, <4>2, <5>2 DEF Written, WrittenBlock
      <4>7. flash[<<"MAIN", k>>] = ImageBlock(job.image, "MAIN", k) \/ FlashErrors
        <5>1. CASE failed
          BY <1>0, <5>1
        <5>2. CASE ~failed
          <6>1. k \in 1 .. Size("MAIN") /\ k # 1
            BY <1>1, <4>1
          <6>2. Written(k)
            BY <3>1, <5>2 DEF Written
          <6>3. QED
            BY <4>1, <4>2, <6>1, <6>2 DEF WrittenBlock
        <5>3. QED
          BY <5>1, <5>2
      <4>8. NearlyComplete("MAIN", job.image)'
        <5>1. \A b \in 1 .. (Size("MAIN") - 1) : flash'[<<"MAIN", b>>] = ImageBlock(job.image, "MAIN", b)
          <6>1. TAKE b \in 1 .. (Size("MAIN") - 1)
          <6>2. CASE b = 1
            BY <4>4, <6>2
          <6>3. CASE b # 1
            <7>1. b \in 2 .. (Size("MAIN") - 1) /\ b \in 2 .. Size("MAIN")
              BY <1>1, <6>3
            <7>2. QED
              BY <4>5, <4>6, <7>1
          <6>4. QED
            BY <6>2, <6>3
        <5>2. flash'[<<"MAIN", Size("MAIN")>>] = flash[<<"MAIN", k>>]
          BY <1>1, <4>1, <4>5
        <5>3. QED
          BY <1>1, <2>1, <4>1, <4>7, <5>1, <5>2 DEF NearlyComplete, ImageBlock
      <4>9. QED
        BY <2>1, <4>8
    <3>4. QED
      BY <3>2, <3>3
  <2>8. QED
    BY <1>6, <2>3, <2>4, <2>6, <2>7, <2>5 DEF BlockStep
<1>7. QED
  BY <1>2, <1>4, <1>5, <1>6, Writers, StillOverlooked
------------------------------------------------------------------------------
(***************************************************************************)
(* The copies of the boot block                                            *)
(***************************************************************************)
\* Where the copies are: in areas of their own or behind the header block of FV_MAIN, each
\* block in a place of its own.
LEMMA BackUpPlaces ==
  ASSUME build \in Builds, FtRecovery
  PROVE  /\ \A a \in BootBlocks : \A b \in 1 .. Blocks :
              /\ BackUpAddress(a, b) \in Addresses
              /\ BackUpAddress(a, b)[1] \notin BootBlocks /\ BackUpAddress(a, b) # <<"MAIN", 1>>
              /\ \A c \in BootBlocks : \A d \in 1 .. Blocks :
                   BackUpAddress(a, b) = BackUpAddress(c, d) => a = c /\ b = d
         /\ \A a \in BootBlocks : Size(a) = Blocks /\ a # "MAIN" /\ a \in Areas
<1>1. \A a \in BootBlocks : Size(a) = Blocks /\ a # "MAIN" /\ a \in Areas
  BY Sizes, AreaNames DEF BootBlocks
<1>2. SUFFICES ASSUME NEW a \in BootBlocks, NEW b \in 1 .. Blocks
               PROVE  /\ BackUpAddress(a, b) \in Addresses
                      /\ BackUpAddress(a, b)[1] \notin BootBlocks /\ BackUpAddress(a, b) # <<"MAIN", 1>>
                      /\ \A c \in BootBlocks : \A d \in 1 .. Blocks :
                           BackUpAddress(a, b) = BackUpAddress(c, d) => a = c /\ b = d
  BY <1>1
<1>3. CASE BuildTimeBackup
  <2>1. \A c, d : BackUpAddress(c, d) = <<IF c = "BB" THEN "BB_BACKUP" ELSE "RECOVERY_BACKUP", d>>
    BY <1>3 DEF BackUpAddress
  <2>2. /\ "BB_BACKUP" \in Areas /\ "RECOVERY_BACKUP" \in Areas
        /\ Size("BB_BACKUP") = Blocks /\ Size("RECOVERY_BACKUP") = Blocks
    BY <1>3, AreaNames, Sizes
  <2>3. BackUpAddress(a, b) \in Addresses
    BY <2>1, <2>2, Address
  <2>4. BackUpAddress(a, b)[1] \notin BootBlocks /\ BackUpAddress(a, b) # <<"MAIN", 1>>
    BY <2>1 DEF BootBlocks
  <2>5. ASSUME NEW c \in BootBlocks, NEW d \in 1 .. Blocks, BackUpAddress(a, b) = BackUpAddress(c, d)
        PROVE  a = c /\ b = d
    BY <2>1, <2>5 DEF BootBlocks
  <2>6. QED
    BY <2>3, <2>4, <2>5
<1>4. CASE ~BuildTimeBackup
  <2>1. Size("MAIN") = 2 * Blocks + 1 /\ "MAIN" \in Areas
    BY <1>4, AreaNames DEF Size
  <2>2. \A c, d : BackUpAddress(c, d) = <<"MAIN", IF c = "BB" THEN Blocks + 1 + d ELSE 1 + d>>
    BY <1>4 DEF BackUpAddress
  <2>3. (IF a = "BB" THEN Blocks + 1 + b ELSE 1 + b) \in 2 .. (2 * Blocks + 1)
    BY Numbers
  <2>4. BackUpAddress(a, b) \in Addresses
    BY <2>1, <2>2, <2>3, Address
  <2>5. BackUpAddress(a, b)[1] \notin BootBlocks /\ BackUpAddress(a, b) # <<"MAIN", 1>>
    BY <2>2, <2>3 DEF BootBlocks
  <2>6. ASSUME NEW c \in BootBlocks, NEW d \in 1 .. Blocks, BackUpAddress(a, b) = BackUpAddress(c, d)
        PROVE  a = c /\ b = d
    <3>1. (IF a = "BB" THEN Blocks + 1 + b ELSE 1 + b) = (IF c = "BB" THEN Blocks + 1 + d ELSE 1 + d)
      BY <2>2, <2>6
    <3>2. QED
      BY <2>6, <3>1, Numbers DEF BootBlocks
  <2>7. QED
    BY <2>4, <2>5, <2>6
<1>5. QED
  BY <1>3, <1>4

\* What the processor finds is the boot block areas or their copies.
LEMMA IntactCopies ==
  ASSUME build \in Builds, FtRecovery
  PROVE  /\ Intact(TRUE) <=> \E img \in Images : BackUpComplete(img)
         /\ Intact(FALSE) <=> \E img \in Images : BootComplete(img)
<1>1. {x \in Areas : IsBootBlock(x)} = BootBlocks
  BY BackUpPlaces DEF IsBootBlock, BootBlocks
<1>2. \A a, b : BootAddress(TRUE, a, b) = BackUpAddress(a, b) /\ BootAddress(FALSE, a, b) = <<a, b>>
  BY DEF BootAddress
<1>3. \A a \in BootBlocks : Size(a) = Blocks
  BY BackUpPlaces
<1>4. ASSUME NEW img
      PROVE  /\ (\A a \in {x \in Areas : IsBootBlock(x)} : \A b \in 1 .. Blocks :
                  flash[BootAddress(TRUE, a, b)] = ImageBlock(img, a, b)) <=> BackUpComplete(img)
             /\ (\A a \in {x \in Areas : IsBootBlock(x)} : \A b \in 1 .. Blocks :
                  flash[BootAddress(FALSE, a, b)] = ImageBlock(img, a, b)) <=> BootComplete(img)
  <2>1. \A a \in BootBlocks : Complete(a, img) <=>
          \A b \in 1 .. Blocks : flash[<<a, b>>] = ImageBlock(img, a, b)
    BY <1>3 DEF Complete
  <2>2. (\A a \in BootBlocks : \A b \in 1 .. Blocks :
           flash[BootAddress(TRUE, a, b)] = ImageBlock(img, a, b)) <=> BackUpComplete(img)
    BY <1>2 DEF BackUpComplete
  <2>3. (\A a \in BootBlocks : \A b \in 1 .. Blocks :
           flash[BootAddress(FALSE, a, b)] = ImageBlock(img, a, b)) <=> BootComplete(img)
    <3>1. (\A a \in BootBlocks : \A b \in 1 .. Blocks :
             flash[BootAddress(FALSE, a, b)] = ImageBlock(img, a, b))
          <=> \A a \in BootBlocks : \A b \in 1 .. Blocks : flash[<<a, b>>] = ImageBlock(img, a, b)
      BY <1>2
    <3>2. QED
      BY <2>1, <3>1 DEF BootComplete
  <2>4. QED
    BY <1>1, <2>2, <2>3
<1>5. QED
  BY <1>4 DEF Intact

\* The blocks that are not written to keep their content.
LEMMA KeptBoot ==
  ASSUME build' = build, NEW a, NEW img, a # "MAIN", Complete(a, img),
         \A b \in 1 .. Blocks : flash'[<<a, b>>] = flash[<<a, b>>]
  PROVE  Complete(a, img)'
<1>1. Size(a) = Blocks /\ Size(a)' = Blocks
  BY Sizes, SameLayout
<1>2. QED
  BY <1>1 DEF Complete, ImageBlock

LEMMA KeptBackUp ==
  ASSUME build' = build, NEW img, BackUpComplete(img),
         \A a \in BootBlocks : \A b \in 1 .. Blocks :
           flash'[BackUpAddress(a, b)] = flash[BackUpAddress(a, b)]
  PROVE  BackUpComplete(img)'
<1>1. \A a, b : BackUpAddress(a, b)' = BackUpAddress(a, b)
  BY SameLayout
<1>2. QED
  BY <1>1 DEF BackUpComplete, ImageBlock

\* Which area is reached, and what Top Swap is then.
LEMMA FtPlaces ==
  ASSUME IInv, FtRecovery
  PROVE  /\ Len(BlocksToUpdate) \in Nat /\ Len(BlocksToUpdate) >= 4
         /\ i \in 1 .. (Len(BlocksToUpdate) + 1)
         /\ i = 1 => Area = "BB"
         /\ i = 2 => Area = "RECOVERY"
         /\ InList => (Area \in BootBlocks <=> i <= 2)
         /\ InList /\ job.backUp => (HasBackUp(Area) <=> i <= 2)
         /\ pc \in Working /\ job.backUp => i <= 2 /\ job.bb /\ ~topSwap
         /\ pc \in Working /\ ~job.backUp /\ topSwap /\ "FtControlFlow" \notin lapses => i <= 2
         /\ pc \in Working /\ ~job.backUp /\ ~topSwap /\ "FwUpdate" \notin lapses => i > 2
         /\ pc \in Working /\ i <= 2 => job.bb
<1>0. build \in Builds /\ i \in 1 .. (Len(BlocksToUpdate) + 1) /\ SwapInv /\ WalkInv
      /\ topSwap \in BOOLEAN /\ job.bb \in BOOLEAN /\ job.backUp \in BOOLEAN
  BY DEF IInv, TypeOK
<1>1. /\ Len(BlocksToUpdate) \in Nat /\ Len(BlocksToUpdate) >= 4
      /\ BlocksToUpdate[1] = "BB" /\ BlocksToUpdate[2] = "RECOVERY"
      /\ \A n \in 3 .. Len(BlocksToUpdate) : BlocksToUpdate[n] \notin BootBlocks
  BY <1>0, List
<1>2. (i = 1 => Area = "BB") /\ (i = 2 => Area = "RECOVERY")
  BY <1>1 DEF Area
<1>3. InList => (Area \in BootBlocks <=> i <= 2)
  <2>1. i = 1 \/ i = 2 \/ (InList => i \in 3 .. Len(BlocksToUpdate))
    BY <1>0, <1>1 DEF InList
  <2>2. QED
    BY <1>0, <1>1, <1>2, <2>1 DEF Area, BootBlocks
<1>4. InList /\ job.backUp => (HasBackUp(Area) <=> i <= 2)
  BY <1>0, <1>3 DEF WalkInv, BootBlocks, HasBackUp, IsBootBlock
<1>5. pc \in Working => InList /\ Update(Area) /\ (job.backUp => HasBackUp(Area)) /\ pc \in Walking
  BY <1>0 DEF WalkInv, Walking
<1>6. InList /\ Update(Area) /\ i <= 2 => job.bb
  BY <1>3 DEF Update, IsBootBlock, BootBlocks
<1>7. pc \in Working /\ job.backUp => i <= 2 /\ job.bb /\ ~topSwap
  BY <1>0, <1>1, <1>4, <1>5, <1>6 DEF SwapInv
<1>8. /\ pc \in Working /\ ~job.backUp /\ topSwap /\ "FtControlFlow" \notin lapses => i <= 2
      /\ pc \in Working /\ ~job.backUp /\ ~topSwap /\ "FwUpdate" \notin lapses => i > 2
  BY <1>0, <1>1, <1>5, <1>6 DEF SwapInv
<1>9. QED
  BY <1>0, <1>1, <1>2, <1>3, <1>4, <1>5, <1>6, <1>7, <1>8

\* Top Swap is changed at the start of an update, at the end of the backup and at the end of
\* the boot block only.
LEMMA SwapStep ==
  ASSUME IInv, Next, FtRecovery
  PROVE  SwapInv'
<1>0. /\ build \in Builds /\ build' = build /\ SwapInv /\ WalkInv
      /\ topSwap \in BOOLEAN /\ job.bb \in BOOLEAN /\ job.backUp \in BOOLEAN /\ i \in Nat
      /\ BootBlockChoices \subseteq BOOLEAN /\ BuildTimeBackup \in BOOLEAN
      /\ job \in [image : Images \union {Garbage}, bb : BOOLEAN, backUp : BOOLEAN]
  BY FtPlaces, BuildTyped, ReFlashAssumption
     DEF IInv, TypeOK, Next, ReFlashAssumption, BuildTimeBackup
<1>1. CASE BlockStep \/ NextBlock \/ AmiFlashBackUp \/ SetBackUpAreaFails \/ AmiFlashProgram
  <2>1. UNCHANGED <<topSwap, job, i>> /\ pc \in Walking
    BY <1>1, BlockStepEffect
       DEF NextBlock, AmiFlashBackUp, SetBackUpAreaFails, AmiFlashProgram, walk, Walking, Working
  <2>2. lapses \ {"SetBackUpArea"} \subseteq lapses'
    BY <1>1, BlockLapses DEF NextBlock, AmiFlashBackUp, SetBackUpAreaFails, AmiFlashProgram
  <2>3. QED
    BY <1>0, <2>1, <2>2 DEF SwapInv
<1>2. CASE SkipArea
  <2>1. /\ pc = "Walk" /\ InList /\ UNCHANGED <<topSwap, job, lapses>> /\ i' = i + 1
        /\ ~Update(Area) \/ (job.backUp /\ ~HasBackUp(Area))
    BY <1>2 DEF SkipArea, InList
  <2>2. ~Update(Area) => ~job.bb
    BY DEF Update
  <2>3. ~job.bb \/ (job.backUp /\ i > 2)
    BY <1>0, <2>1, <2>2, FtPlaces
  <2>4. QED
    BY <1>0, <2>1, <2>3 DEF SwapInv, Walking
<1>3. CASE NextArea
  <2>1. /\ pc = "NextBlock" /\ pc \in Working /\ job' = job /\ i' = i + 1 /\ pc' = "Walk"
        /\ topSwap' = IF Area = "RECOVERY" THEN job.backUp ELSE topSwap
        /\ Area # "RECOVERY" => lapses' = lapses
    BY <1>3 DEF NextArea, SetTopSwap, TopSwapTrigger, Working
  <2>2. InList /\ Update(Area)
    BY <2>1, HeldWhileWorking
  <2>3. CASE i = 2
    <3>1. Area = "RECOVERY" /\ job.bb
      BY <2>2, <2>3, FtPlaces DEF Update, IsBootBlock
    <3>2. topSwap' = job.backUp /\ i' = 3
      BY <2>1, <2>3, <3>1
    <3>3. QED
      BY <1>0, <2>1, <3>1, <3>2 DEF SwapInv
  <2>4. CASE i # 2
    <3>1. Area # "RECOVERY"
      BY <1>0, <2>2, <2>4, FtPlaces DEF BootBlocks
    <3>2. i \in Nat /\ i > 0
      BY FtPlaces
    <3>3. (i' > 2 <=> i > 2) /\ (i' <= 2 <=> i <= 2)
      BY <2>1, <2>4, <3>2
    <3>4. topSwap' = topSwap /\ lapses' = lapses /\ pc \in Walking
      BY <2>1, <3>1 DEF Walking
    <3>5. QED
      BY <1>0, <2>1, <3>3, <3>4 DEF SwapInv
  <2>5. QED
    BY <2>3, <2>4
<1>4. CASE EndOfBackUp
  <2>1. /\ pc = "Walk" /\ i > 4 /\ job.backUp /\ UNCHANGED <<topSwap, lapses>> /\ i' = 1
        /\ job'.bb = job.bb /\ job'.backUp = FALSE
    BY <1>0, <1>4, FtPlaces DEF EndOfBackUp
  <2>2. topSwap = job.bb
    BY <1>0, <2>1 DEF SwapInv, Walking
  <2>3. QED
    BY <1>0, <2>1, <2>2 DEF SwapInv
<1>5. CASE Start
  <2>1. PICK img \in Images, bb \in BootBlockChoices : FtControlFlow(img, bb) \/ FwUpdate(img, bb)
    BY <1>5 DEF Start
  <2>2. /\ pc = "Up" /\ i' = 1 /\ job'.bb = ApplyUserSelection(bb) /\ bb \in BOOLEAN
        /\ job'.backUp \in BOOLEAN /\ (job'.backUp => ~topSwap /\ ~BuildTimeBackup)
        /\ topSwap' \in BOOLEAN /\ (topSwap => topSwap' = TRUE)
    BY <1>0, <2>1, StartEffect
  <2>3. CASE topSwap
    <3>1. ApplyUserSelection(bb) = TRUE
      BY <2>3 DEF ApplyUserSelection
    <3>2. topSwap' = TRUE /\ job'.backUp = FALSE /\ (i' <= 2) = TRUE
      BY <2>2, <2>3
    <3>3. QED
      BY <2>2, <3>1, <3>2 DEF SwapInv
  <2>4. ~topSwap => job'.bb = bb
    BY <2>2 DEF ApplyUserSelection
  <2>5. CASE ~topSwap /\ FtControlFlow(img, bb) /\ ~BuildTimeBackup
    <3>1. topSwap' = FALSE
      BY <1>0, <2>5 DEF FtControlFlow
    <3>2. job'.backUp = TRUE
      <4>1. PICK f \in BOOLEAN : f = (FtRecovery /\ ~topSwap /\ ~BuildTimeBackup)
        OBVIOUS
      <4>2. job'.backUp = f
        BY <2>5, <4>1 DEF FtControlFlow
      <4>3. QED
        BY <2>5, <4>1, <4>2
    <3>3. (i' > 2) = FALSE
      BY <2>2
    <3>4. QED
      BY <3>1, <3>2, <3>3 DEF SwapInv
  <2>6. CASE ~topSwap /\ FtControlFlow(img, bb) /\ BuildTimeBackup
    <3>1. topSwap' = TRUE
      BY <1>0, <2>6 DEF FtControlFlow
    <3>2. ~bb => "FtControlFlow" \in lapses'
      BY <2>6, <3>1 DEF FtControlFlow
    <3>3. job'.backUp = FALSE /\ (i' <= 2) = TRUE
      BY <2>2, <2>6
    <3>4. QED
      BY <2>4, <2>6, <3>1, <3>2, <3>3 DEF SwapInv
  <2>7. CASE ~topSwap /\ FwUpdate(img, bb)
    <3>1. topSwap' = FALSE
      BY <1>0, <2>7 DEF FwUpdate
    <3>2. bb => "FwUpdate" \in lapses'
      BY <2>7 DEF FwUpdate
    <3>3. job'.backUp = FALSE
      BY <2>7 DEF FwUpdate
    <3>4. QED
      BY <2>4, <2>7, <3>1, <3>2, <3>3 DEF SwapInv
  <2>8. QED
    BY <1>0, <2>1, <2>3, <2>5, <2>6, <2>7
<1>6. CASE Boot \/ EndOfUpdate \/ Epilogue \/ ResetSystem \/ PowerFail
  <2>1. pc' \in {"Up", "Epilogue", "Off"}
    BY <1>6 DEF Boot, EndOfUpdate, Epilogue, ResetSystem, PowerFail, Reset
  <2>2. QED
    BY <2>1 DEF SwapInv, Walking, Working
<1>7. QED
  BY <1>1, <1>2, <1>3, <1>4, <1>5, <1>6 DEF Next, FlashWalker, FlashFails, BlockStep

\* The copies survive a step on a block of a backup.
LEMMA CopyBlockStep ==
  ASSUME IInv, Next, BlockStep, FtRecovery, job.backUp
  PROVE  CopyInv'
<1>0. /\ build \in Builds /\ build' = build /\ k \in Nat /\ CopyInv
      /\ flash \in [Addresses -> Data \union {Garbage}] /\ failed \in BOOLEAN
      /\ pc \notin {"AfterWrite", "Failed"} => ~failed
  BY DEF IInv, TypeOK, Next, WalkInv
<1>1. /\ pc \in Working /\ UNCHANGED <<topSwap, job, i, k>> /\ Area' = Area
      /\ Area \in BootBlocks /\ k \in 1 .. Blocks /\ i <= 2 /\ job.bb /\ ~topSwap
      /\ Dest = BackUpAddress(Area, k) /\ Dest[1] = "MAIN" /\ Dest[2] # 1
      /\ i = 2 => Area = "RECOVERY"
      /\ updated = {} /\ lapses \intersect {"BB", "RECOVERY", "FwUpdate"} = {}
  <2>1. pc \in Working /\ UNCHANGED <<topSwap, job, i, k>>
    BY BlockStepEffect
  <2>2. Area' = Area /\ i <= 2 /\ job.bb /\ ~topSwap /\ (i = 2 => Area = "RECOVERY")
    BY <1>0, <2>1, SameArea, FtPlaces
  <2>3. Area \in BootBlocks /\ k \in 1 .. Blocks /\ Dest[1] = "MAIN" /\ Dest[2] # 1
    BY <2>1, DestBlock
  <2>4. updated = {} /\ lapses \subseteq {"SetBackUpArea"}
    BY <2>1, HeldWhileWorking DEF IInv, LapseInv, Walking
  <2>5. QED
    BY <2>1, <2>2, <2>3, <2>4 DEF Dest
<1>2. PICK img \in Images :
        /\ BootComplete(img)
        /\ \A a \in BootBlocks : \A b \in 1 .. Blocks :
             Copied(a, b) => flash[BackUpAddress(a, b)] = ImageBlock(img, a, b)
  BY <1>0, <1>1 DEF CopyInv, Walking
<1>3. \A x \in Addresses : x # Dest => flash'[x] = flash[x]
  BY <1>1, OnlyDest
<1>4. BootComplete(img)'
  <2>1. ASSUME NEW a \in BootBlocks PROVE Complete(a, img)'
    <3>1. Complete(a, img) /\ a # "MAIN" /\ Size(a) = Blocks
      BY <1>0, <1>2, BackUpPlaces DEF BootComplete
    <3>2. a \in Areas
      BY <1>0, BackUpPlaces
    <3>3. \A b \in 1 .. Blocks : flash'[<<a, b>>] = flash[<<a, b>>]
      <4>1. TAKE b \in 1 .. Blocks
      <4>2. <<a, b>> \in Addresses
        BY <3>1, <3>2, Address
      <4>3. <<a, b>> # Dest
        BY <1>1, <3>1
      <4>4. QED
        BY <1>3, <4>2, <4>3
    <3>4. QED
      BY <1>0, <3>1, <3>3, KeptBoot
  <2>2. QED
    BY <2>1 DEF BootComplete
<1>5. ASSUME NEW a \in BootBlocks, NEW b \in 1 .. Blocks, pc' \in Walking, Copied(a, b)'
      PROVE  flash'[BackUpAddress(a, b)] = ImageBlock(img, a, b)
  <2>1. (a = "BB" /\ i = 2) \/ (a = Area /\ Written(b)')
    BY <1>1, <1>5 DEF Copied
  <2>2. CASE ~(a = Area /\ b = k)
    <3>1. Copied(a, b)
      BY <1>0, <1>1, <2>1, <2>2 DEF Copied, Written
    <3>2. BackUpAddress(a, b) \in Addresses /\ BackUpAddress(a, b) # Dest
      BY <1>0, <1>1, <1>5, <2>2, BackUpPlaces
    <3>3. QED
      BY <1>2, <1>3, <1>5, <3>1, <3>2
  <2>3. CASE a = Area /\ b = k
    <3>1. Written(k)'
      BY <1>1, <2>1, <2>3
    <3>2. flash[<<Area, k>>] = ImageBlock(img, Area, k)
      <4>1. Complete(Area, img) /\ k \in 1 .. Size(Area)
        BY <1>0, <1>1, <1>2, BackUpPlaces DEF BootComplete
      <4>2. QED
        BY <4>1 DEF Complete
    <3>3. Source = flash[<<Area, k>>] /\ BackUpAddress(a, b) = Dest /\ Dest \in Addresses
      BY <1>0, <1>1, <2>3, BackUpPlaces DEF Source
    <3>4. CASE KeepBlock
      BY <2>3, <3>2, <3>3, <3>4 DEF KeepBlock, IsEqual
    <3>5. CASE FlashProgram
      <4>1. BeforeWrite(Dest, Source) = Source
        BY <1>1 DEF BeforeWrite, IsHeader
      <4>2. flash'[Dest] = Source
        BY <1>0, <3>3, <3>5, <4>1 DEF FlashProgram
      <4>3. QED
        BY <2>3, <3>2, <3>3, <4>2
    <3>6. CASE FlashEraseBlock \/ EraseFails \/ ProgramFails
      <4>1. ~Written(k)'
        BY <1>0, <1>1, <3>6 DEF FlashEraseBlock, EraseFails, ProgramFails, Written
      <4>2. QED
        BY <3>1, <4>1
    <3>7. CASE AfterWrite
      <4>1. pc = "AfterWrite" /\ flash' = flash /\ ~failed
        BY <1>1, <1>5, <3>7 DEF AfterWrite, Restores, Walking, Working
      <4>2. Copied(Area, k)
        BY <1>1, <4>1 DEF Copied, Written
      <4>3. QED
        BY <1>1, <1>2, <2>3, <4>1, <4>2
    <3>8. ~KeepHeader /\ ~RestoreFails
      BY <1>1 DEF KeepHeader, IsHeader, RestoreFails, Restores
    <3>9. QED
      BY <3>4, <3>5, <3>6, <3>7, <3>8 DEF BlockStep
  <2>4. QED
    BY <2>2, <2>3
<1>6. \A a, b : BackUpAddress(a, b)' = BackUpAddress(a, b)
  BY <1>0, SameLayout
<1>7. QED
  <2>1. /\ ~topSwap' /\ job'.backUp
    BY <1>1
  <2>2. pc' \in Walking => \A a \in BootBlocks : \A b \in 1 .. Blocks :
          Copied(a, b)' => flash'[BackUpAddress(a, b)'] = ImageBlock(img, a, b)
    BY <1>5, <1>6
  <2>3. QED
    BY <1>4, <2>1, <2>2 DEF CopyInv, ImageBlock

\* Both copies, when the blocks that they are in are not written to.
LEMMA KeptBoth ==
  ASSUME build \in Builds, build' = build, FtRecovery, NEW img
  PROVE  /\ (\A a \in BootBlocks : \A b \in 1 .. Blocks : flash'[<<a, b>>] = flash[<<a, b>>])
              /\ BootComplete(img) => BootComplete(img)'
         /\ flash' = flash /\ BootComplete(img) => BootComplete(img)'
         /\ flash' = flash /\ BackUpComplete(img) => BackUpComplete(img)'
<1>1. ASSUME \A a \in BootBlocks : \A b \in 1 .. Blocks : flash'[<<a, b>>] = flash[<<a, b>>],
             BootComplete(img)
      PROVE  BootComplete(img)'
  <2>1. ASSUME NEW a \in BootBlocks PROVE Complete(a, img)'
    <3>1. Complete(a, img) /\ a # "MAIN"
      BY <1>1, BackUpPlaces DEF BootComplete
    <3>2. QED
      BY <1>1, <3>1, KeptBoot
  <2>2. QED
    BY <2>1 DEF BootComplete
<1>2. flash' = flash /\ BackUpComplete(img) => BackUpComplete(img)'
  BY KeptBackUp
<1>3. QED
  BY <1>1, <1>2

\* The copies survive a step on a block of an update: with Top Swap on it is in the
\* boot block areas, otherwise behind them, unless that went unnoticed.
LEMMA CopyUpdateStep ==
  ASSUME IInv, Next, BlockStep, FtRecovery, ~job.backUp
  PROVE  CopyInv'
<1>0. /\ build \in Builds /\ build' = build /\ CopyInv /\ topSwap \in BOOLEAN
      /\ lapses \ {"SetBackUpArea"} \subseteq lapses'
  BY BlockLapses DEF IInv, TypeOK, Next
<1>1. /\ pc \in Working /\ pc \in Walking /\ UNCHANGED <<topSwap, job, i, k>>
      /\ InList /\ Dest = <<Area, k>>
      /\ topSwap /\ "FtControlFlow" \notin lapses => Area \in BootBlocks
      /\ ~topSwap /\ "FwUpdate" \notin lapses => Area \notin BootBlocks
      /\ i = 2 => Area = "RECOVERY"
  <2>1. pc \in Working /\ pc \in Walking /\ UNCHANGED <<topSwap, job, i, k>>
    BY BlockStepEffect DEF Walking
  <2>2. InList /\ Dest = <<Area, k>> /\ i \in Nat
    BY <2>1, HeldWhileWorking, DestBlock, FtPlaces
  <2>3. QED
    BY <2>1, <2>2, FtPlaces
<1>2. \A x \in Addresses : x[1] # Area => flash'[x] = flash[x]
  <2>1. TAKE x \in Addresses
  <2>2. x[1] # Area => x # Dest /\ x # <<Area, 1>>
    BY <1>1
  <2>3. QED
    BY <2>2, OnlyDest
<1>3. \A a \in BootBlocks : \A b \in 1 .. Blocks : <<a, b>> \in Addresses
  BY <1>0, BackUpPlaces, Address
<1>4. ASSUME topSwap, "FtControlFlow" \notin lapses'
      PROVE  \E img \in Images : BackUpComplete(img)'
  <2>1. Area \in BootBlocks
    BY <1>0, <1>1, <1>4
  <2>2. PICK img \in Images : BackUpComplete(img)
    BY <1>0, <1>4 DEF CopyInv
  <2>3. \A a \in BootBlocks : \A b \in 1 .. Blocks :
          flash'[BackUpAddress(a, b)] = flash[BackUpAddress(a, b)]
    BY <1>0, <1>2, <2>1, BackUpPlaces
  <2>4. BackUpComplete(img)'
    BY <1>0, <2>2, <2>3, KeptBackUp
  <2>5. QED
    BY <2>4
<1>5. ASSUME ~topSwap, lapses' \intersect {"BB", "RECOVERY", "FwUpdate"} = {}
      PROVE  \E img \in Images : BootComplete(img)'
  <2>1. lapses \intersect {"BB", "RECOVERY", "FwUpdate"} = {}
    BY <1>0, <1>5
  <2>2. PICK img \in Images : BootComplete(img)
    BY <1>0, <1>5, <2>1 DEF CopyInv
  <2>3. \A a \in BootBlocks : \A b \in 1 .. Blocks : flash'[<<a, b>>] = flash[<<a, b>>]
    <3>1. TAKE a \in BootBlocks
    <3>2. TAKE b \in 1 .. Blocks
    <3>3. <<a, b>> \in Addresses /\ a # Area
      BY <1>1, <1>3, <1>5, <2>1
    <3>4. QED
      BY <1>2, <3>3
  <2>4. BootComplete(img)'
    BY <1>0, <2>2, <2>3, KeptBoth
  <2>5. QED
    BY <2>4
<1>6. ASSUME job.bb, i = 2, "BB" \notin lapses'
      PROVE  Complete("BB", job.image)'
  <2>1. Complete("BB", job.image)
    BY <1>0, <1>1, <1>6 DEF CopyInv
  <2>2. "BB" # Area /\ "BB" \in BootBlocks
    BY <1>1, <1>6 DEF BootBlocks
  <2>3. \A b \in 1 .. Blocks : flash'[<<"BB", b>>] = flash[<<"BB", b>>]
    BY <1>2, <1>3, <2>2
  <2>4. PICK img : img = job.image
    OBVIOUS
  <2>5. Complete("BB", img)'
    BY <1>0, <2>1, <2>3, <2>4, KeptBoot
  <2>6. QED
    BY <1>1, <2>4, <2>5
<1>7. QED
  BY <1>0, <1>1, <1>4, <1>5, <1>6 DEF CopyInv

\* One of the two copies is complete, whatever is done.
LEMMA CopyStep ==
  ASSUME IInv, Next, FtRecovery
  PROVE  CopyInv'
<1>0. /\ build \in Builds /\ build' = build /\ k \in Nat /\ k > 0 /\ CopyInv /\ SwapInv /\ WalkInv
      /\ flash \in [Addresses -> Data \union {Garbage}] /\ LapseInv
      /\ topSwap \in BOOLEAN /\ job.bb \in BOOLEAN /\ job.backUp \in BOOLEAN /\ i \in Nat /\ i > 0
      /\ job \in [image : Images \union {Garbage}, bb : BOOLEAN, backUp : BOOLEAN]
  BY FtPlaces DEF IInv, TypeOK, Next
<1>1. \A a, b : BackUpAddress(a, b)' = BackUpAddress(a, b)
  BY <1>0, SameLayout
<1>2. ASSUME NEW img, flash' = flash
      PROVE  /\ BootComplete(img) => BootComplete(img)'
             /\ BackUpComplete(img) => BackUpComplete(img)'
  BY <1>0, <1>2, KeptBoth
\* Flash and Top Swap are left alone, and no copy is under way afterwards.
<1>3. ASSUME UNCHANGED <<flash, topSwap>>, lapses \subseteq lapses',
             pc' \notin Walking \/ ~job'.backUp \/ (k' = 1 /\ i' = 1 /\ pc' = "Walk"),
             pc' \notin Walking \/ i' # 2
      PROVE  CopyInv'
  <2>1. topSwap /\ "FtControlFlow" \notin lapses' => \E img \in Images : BackUpComplete(img)'
    BY <1>0, <1>2, <1>3 DEF CopyInv
  <2>2. ASSUME ~topSwap, lapses' \intersect {"BB", "RECOVERY", "FwUpdate"} = {}
        PROVE  \E img \in Images : BootComplete(img)'
    <3>1. PICK img \in Images : BootComplete(img)
      BY <1>0, <1>3, <2>2 DEF CopyInv
    <3>2. QED
      BY <1>2, <1>3, <3>1
  <2>3. k' = 1 /\ i' = 1 /\ pc' = "Walk" =>
          \A a \in BootBlocks : \A b \in 1 .. Blocks : ~Copied(a, b)'
    BY Numbers DEF Copied, Written
  <2>4. QED
    BY <1>0, <1>3, <2>1, <2>2, <2>3 DEF CopyInv
<1>4. CASE BlockStep
  BY <1>0, <1>4, CopyBlockStep, CopyUpdateStep
<1>5. CASE EndOfUpdate \/ Epilogue \/ ResetSystem \/ PowerFail
  <2>1. pc' \notin Walking /\ topSwap' = topSwap /\ lapses' = lapses
    BY <1>5 DEF EndOfUpdate, Epilogue, ResetSystem, PowerFail, Reset, Walking, Working
  <2>2. flash' = flash
    BY <1>5, EpilogueWritesNothing DEF EndOfUpdate, ResetSystem, PowerFail
  <2>3. QED
    BY <1>3, <2>1, <2>2
\* What is selected is complete, or there is no boot.
<1>6. CASE Boot
  <2>1. UNCHANGED <<flash, topSwap>> /\ pc' \notin Walking /\ Intact(topSwap)
    BY <1>6 DEF Boot, Bootable, Walking, Working
  <2>2. topSwap => \E img \in Images : BackUpComplete(img)'
    <3>1. SUFFICES ASSUME topSwap = TRUE PROVE \E img \in Images : BackUpComplete(img)'
      BY <1>0
    <3>2. \E img \in Images : BackUpComplete(img)
      BY <1>0, <2>1, <3>1, IntactCopies
    <3>3. QED
      BY <1>2, <2>1, <3>2
  <2>3. ~topSwap => \E img \in Images : BootComplete(img)'
    <3>1. SUFFICES ASSUME topSwap = FALSE PROVE \E img \in Images : BootComplete(img)'
      BY <1>0
    <3>2. \E img \in Images : BootComplete(img)
      BY <1>0, <2>1, <3>1, IntactCopies
    <3>3. QED
      BY <1>2, <2>1, <3>2
  <2>4. QED
    BY <2>1, <2>2, <2>3 DEF CopyInv
<1>7. CASE Start
  <2>1. PICK img \in Images, bb \in BootBlockChoices : FtControlFlow(img, bb) \/ FwUpdate(img, bb)
    BY <1>7 DEF Start
  <2>2. /\ flash' = flash /\ k' = 1 /\ i' = 1 /\ pc' = "Walk" /\ lapses \subseteq lapses'
        /\ topSwap' \in BOOLEAN /\ (topSwap => topSwap' = TRUE)
    <3>1. bb \in BOOLEAN
      BY ReFlashAssumption DEF ReFlashAssumption
    <3>2. QED
      BY <1>0, <2>1, <3>1, StartEffect
  <2>3. CASE topSwap' = topSwap
    BY <1>3, <2>2, <2>3
  <2>4. CASE topSwap' # topSwap
    <3>1. ~topSwap /\ topSwap'
      BY <1>0, <2>2, <2>4
    <3>2. FtControlFlow(img, bb)
      BY <2>1, <2>4 DEF FwUpdate
    <3>3. "FtControlFlow" \notin lapses' => Intact(TRUE)
      BY <3>1, <3>2 DEF FtControlFlow
    <3>4. "FtControlFlow" \notin lapses' => \E img2 \in Images : BackUpComplete(img2)'
      BY <1>0, <1>2, <2>2, <3>3, IntactCopies
    <3>5. QED
      BY <2>2, <3>1, <3>4 DEF CopyInv
  <2>5. QED
    BY <2>3, <2>4
<1>8. CASE EndOfBackUp
  <2>1. UNCHANGED <<flash, topSwap, lapses>> /\ i' = 1
    BY <1>8 DEF EndOfBackUp
  <2>2. job'.backUp = FALSE
    BY <1>0, <1>8 DEF EndOfBackUp
  <2>3. QED
    BY <1>3, <2>1, <2>2
\* The boot block areas are skipped only when they are not selected.
<1>9. CASE SkipArea
  <2>1. /\ pc = "Walk" /\ InList /\ UNCHANGED <<flash, topSwap, job, lapses>> /\ i' = i + 1
        /\ pc' = "Walk" /\ (~Update(Area) \/ (job.backUp /\ ~HasBackUp(Area)))
    BY <1>9 DEF SkipArea, InList
  <2>2. ~Update(Area) => ~job.bb
    BY DEF Update
  <2>3. ~job.bb \/ (job.backUp /\ i > 2)
    BY <1>0, <2>1, <2>2, FtPlaces
  <2>4. job.bb => topSwap /\ job.backUp
    BY <1>0, <2>1, <2>3 DEF SwapInv, Walking
  <2>5. topSwap /\ "FtControlFlow" \notin lapses' => \E img \in Images : BackUpComplete(img)'
    BY <1>0, <1>2, <2>1 DEF CopyInv
  <2>6. ASSUME ~topSwap, lapses' \intersect {"BB", "RECOVERY", "FwUpdate"} = {}
        PROVE  \E img \in Images : BootComplete(img)'
    <3>1. PICK img \in Images : BootComplete(img)
      BY <1>0, <2>1, <2>6 DEF CopyInv
    <3>2. QED
      BY <1>2, <2>1, <3>1
  <2>7. QED
    BY <2>1, <2>4, <2>5, <2>6 DEF CopyInv
\* No block of a copy is written.
<1>10. CASE NextBlock \/ AmiFlashProgram \/ AmiFlashBackUp \/ SetBackUpAreaFails
  <2>1. /\ UNCHANGED <<topSwap, job, i>> /\ pc \in Walking /\ pc' \in Walking
        /\ lapses \ {"SetBackUpArea"} \subseteq lapses'
    BY <1>10
       DEF NextBlock, AmiFlashProgram, AmiFlashBackUp, SetBackUpAreaFails, walk, Walking, Working
  <2>2. Area' = Area
    BY <1>0, <2>1, SameArea
  <2>3. \A x \in Addresses : x # <<"MAIN", 1>> => flash'[x] = flash[x]
    BY <1>0, <1>10 DEF NextBlock, AmiFlashProgram, AmiFlashBackUp, SetBackUpAreaFails
  <2>4. \A a \in BootBlocks : \A b \in 1 .. Blocks : Copied(a, b)' => Copied(a, b)
    <3>1. CASE NextBlock
      BY <1>0, <2>1, <2>2, <3>1, Numbers DEF NextBlock, Copied, Written
    <3>2. CASE AmiFlashProgram \/ AmiFlashBackUp \/ SetBackUpAreaFails
      BY <2>1, <2>2, <3>2
         DEF AmiFlashProgram, AmiFlashBackUp, SetBackUpAreaFails, Copied, Written, walk
    <3>3. QED
      BY <1>10, <3>1, <3>2
  <2>5. \A a \in BootBlocks : \A b \in 1 .. Blocks :
          flash'[BackUpAddress(a, b)] = flash[BackUpAddress(a, b)]
    BY <1>0, <2>3, BackUpPlaces
  <2>6. \A a \in BootBlocks : \A b \in 1 .. Blocks : flash'[<<a, b>>] = flash[<<a, b>>]
    <3>1. TAKE a \in BootBlocks
    <3>2. TAKE b \in 1 .. Blocks
    <3>3. a \in Areas /\ Size(a) = Blocks /\ a # "MAIN"
      BY <1>0, BackUpPlaces
    <3>4. <<a, b>> \in Addresses /\ <<a, b>> # <<"MAIN", 1>>
      BY <3>3, Address
    <3>5. QED
      BY <2>3, <3>4
  <2>7. topSwap' /\ "FtControlFlow" \notin lapses' => \E img \in Images : BackUpComplete(img)'
    BY <1>0, <2>1, <2>5, KeptBackUp DEF CopyInv
  <2>8. ~topSwap' /\ lapses' \intersect {"BB", "RECOVERY", "FwUpdate"} = {} => \E img \in Images :
          /\ BootComplete(img)'
          /\ job'.backUp /\ job'.bb =>
               \A a \in BootBlocks : \A b \in 1 .. Blocks :
                 Copied(a, b)' => flash'[BackUpAddress(a, b)] = ImageBlock(img, a, b)
    <3>1. SUFFICES ASSUME ~topSwap, lapses \intersect {"BB", "RECOVERY", "FwUpdate"} = {}
                   PROVE  \E img \in Images :
                     /\ BootComplete(img)'
                     /\ job'.backUp /\ job'.bb =>
                          \A a \in BootBlocks : \A b \in 1 .. Blocks :
                            Copied(a, b)' => flash'[BackUpAddress(a, b)] = ImageBlock(img, a, b)
      BY <2>1
    <3>2. PICK img \in Images :
            /\ BootComplete(img)
            /\ job.backUp /\ job.bb =>
                 \A a \in BootBlocks : \A b \in 1 .. Blocks :
                   Copied(a, b) => flash[BackUpAddress(a, b)] = ImageBlock(img, a, b)
      BY <1>0, <2>1, <3>1 DEF CopyInv
    <3>3. BootComplete(img)'
      BY <1>0, <2>6, <3>2, KeptBoth
    <3>4. job'.backUp /\ job'.bb =>
            \A a \in BootBlocks : \A b \in 1 .. Blocks :
              Copied(a, b)' => flash'[BackUpAddress(a, b)] = ImageBlock(img, a, b)
      BY <2>1, <2>4, <2>5, <3>2
    <3>5. QED
      BY <3>3, <3>4
  <2>9. ~job'.backUp /\ job'.bb /\ i' = 2 /\ "BB" \notin lapses' => Complete("BB", job.image)'
    <3>1. SUFFICES ASSUME ~job.backUp, job.bb, i = 2, "BB" \notin lapses
                   PROVE  Complete("BB", job.image)'
      BY <2>1
    <3>2. Complete("BB", job.image) /\ "BB" \in BootBlocks
      BY <1>0, <2>1, <3>1 DEF CopyInv, BootBlocks
    <3>3. PICK img : img = job.image
      OBVIOUS
    <3>4. Complete("BB", img)'
      BY <1>0, <2>6, <3>2, <3>3, KeptBoot
    <3>5. QED
      BY <2>1, <3>3, <3>4
  <2>10. QED
    BY <1>1, <2>1, <2>7, <2>8, <2>9 DEF CopyInv, ImageBlock
\* An area is complete: the copy of RECOVERY, or the new RECOVERY, is the last one.
<1>11. CASE NextArea
  <2>1. /\ pc = "NextBlock" /\ pc \in Working /\ pc \in Walking /\ UNCHANGED <<flash, job>>
        /\ i' = i + 1 /\ k' = 1 /\ pc' = "Walk" /\ k = Limit
        /\ topSwap' = IF Area = "RECOVERY" THEN job.backUp ELSE topSwap
        /\ lapses \ {"FwUpdate"} \subseteq lapses'
        /\ Area # "RECOVERY" => lapses' = lapses
    BY <1>11
       DEF NextArea, SetTopSwap, TopSwapTrigger, Working, Walking, IsLastBlock, Limit
  <2>2. InList /\ Update(Area) /\ job.image \in Images
    BY <2>1, HeldWhileWorking
  <2>3. \A b \in 1 .. Limit : Written(b)
    BY <1>0, <2>1 DEF Written
  <2>4. i <= 2 => job.bb
    BY <2>1, FtPlaces
  <2>5. CASE job.backUp
    <3>1. i <= 2 /\ ~topSwap /\ Limit = Blocks /\ lapses \subseteq {"SetBackUpArea"}
      BY <1>0, <2>1, <2>5, FtPlaces DEF Limit, LapseInv
    <3>2. PICK img \in Images :
            /\ BootComplete(img)
            /\ \A a \in BootBlocks : \A b \in 1 .. Blocks :
                 Copied(a, b) => flash[BackUpAddress(a, b)] = ImageBlock(img, a, b)
      BY <1>0, <2>1, <2>4, <2>5, <3>1 DEF CopyInv
    <3>3. BootComplete(img)'
      BY <1>2, <2>1, <3>2
    <3>4. CASE i = 1
      <4>1. Area = "BB" /\ "BB" \in BootBlocks /\ topSwap' = topSwap /\ i' = 2
        BY <2>1, <3>4, FtPlaces DEF BootBlocks
      <4>2. \A b \in 1 .. Blocks : flash[BackUpAddress("BB", b)] = ImageBlock(img, "BB", b)
        BY <2>3, <3>1, <3>2, <4>1 DEF Copied
      <4>3. Area' = "RECOVERY"
        <5>1. BlocksToUpdate' = BlocksToUpdate /\ BlocksToUpdate[2] = "RECOVERY"
          BY <1>0, SameLayout, List
        <5>2. QED
          BY <4>1, <5>1 DEF Area
      <4>4. \A a \in BootBlocks : \A b \in 1 .. Blocks : Copied(a, b)' => a = "BB"
        BY <2>1, <4>3, Numbers DEF Copied, Written
      <4>5. QED
        BY <1>1, <2>1, <2>5, <3>1, <3>3, <4>1, <4>2, <4>4 DEF CopyInv, ImageBlock
    <3>5. CASE i = 2
      <4>1. Area = "RECOVERY" /\ topSwap' = TRUE /\ i' = 3
        BY <1>0, <2>1, <2>5, <3>5, FtPlaces
      <4>2. \A a \in BootBlocks : \A b \in 1 .. Blocks : Copied(a, b)
        BY <2>3, <3>1, <3>5, <4>1 DEF Copied, BootBlocks
      <4>3. BackUpComplete(img)
        BY <3>2, <4>2 DEF BackUpComplete
      <4>4. BackUpComplete(img)'
        BY <1>2, <2>1, <4>3
      <4>5. QED
        BY <2>1, <2>5, <4>1, <4>4 DEF CopyInv
    <3>6. QED
      BY <1>0, <3>1, <3>4, <3>5
  <2>6. CASE ~job.backUp
    <3>1. Area \notin updated
      BY <2>1, <2>6, HeldWhileWorking DEF Limit
    <3>2. Area \notin lapses => Complete(Area, job.image)
      <4>1. Limit = Size(Area)
        BY <2>6 DEF Limit
      <4>2. Area \notin lapses => \A b \in 1 .. Size(Area) : flash[<<Area, b>>] = WrittenBlock(b)
        BY <2>1, <2>2, <2>3, <2>6, <4>1 DEF IInv, ProgressInv, Known
      <4>3. QED
        BY <3>1, <4>2 DEF Complete, WrittenBlock
    <3>3. CASE i = 1
      <4>1. Area = "BB" /\ topSwap' = topSwap /\ lapses' = lapses /\ i' = 2
        BY <2>1, <3>3, FtPlaces
      <4>2. PICK img : img = job.image
        OBVIOUS
      <4>3. "BB" \notin lapses => Complete("BB", img)'
        BY <1>0, <2>1, <3>2, <4>1, <4>2, KeptBoot
      <4>4. "BB" \notin lapses' => Complete("BB", job.image)'
        BY <2>1, <4>1, <4>2, <4>3
      <4>5. topSwap /\ "FtControlFlow" \notin lapses' => \E img2 \in Images : BackUpComplete(img2)'
        BY <1>0, <1>2, <2>1, <4>1 DEF CopyInv
      <4>6. ~topSwap => "FwUpdate" \in lapses
        BY <2>1, <2>6, <3>3, FtPlaces
      <4>7. QED
        BY <2>1, <2>6, <4>1, <4>4, <4>5, <4>6 DEF CopyInv
    <3>4. CASE i = 2
      <4>1. Area = "RECOVERY" /\ topSwap' = FALSE /\ i' = 3
        BY <1>0, <2>1, <2>6, <3>4, FtPlaces
      <4>2. ASSUME lapses' \intersect {"BB", "RECOVERY", "FwUpdate"} = {}
            PROVE  \E img \in Images : BootComplete(img)'
        <5>1. "BB" \notin lapses /\ "RECOVERY" \notin lapses
          BY <2>1, <4>2
        <5>2. Complete("BB", job.image)
          BY <1>0, <2>1, <2>4, <2>6, <3>4, <5>1 DEF CopyInv
        <5>3. BootComplete(job.image)
          BY <3>2, <4>1, <5>1, <5>2 DEF BootComplete, BootBlocks
        <5>4. QED
          BY <1>2, <2>1, <2>2, <5>3
      <4>3. QED
        BY <2>1, <2>6, <4>1, <4>2 DEF CopyInv
    <3>5. CASE i > 2
      <4>1. Area # "RECOVERY" /\ i' # 2
        BY <1>0, <2>1, <2>2, <3>5, FtPlaces DEF BootBlocks
      <4>2. QED
        BY <1>3, <2>1, <2>6, <4>1
    <3>6. QED
      BY <1>0, <3>3, <3>4, <3>5
  <2>7. QED
    BY <1>0, <2>5, <2>6
<1>12. QED
  BY <1>4, <1>5, <1>6, <1>7, <1>8, <1>9, <1>10, <1>11 DEF Next, FlashWalker, FlashFails, BlockStep
------------------------------------------------------------------------------
(***************************************************************************)
(* The theorems                                                            *)
(***************************************************************************)
\* The machine as it is delivered.
LEMMA InitInv ==
  ASSUME Init
  PROVE  IInv
<1>0. /\ build \in Builds /\ topSwap = FALSE /\ pc = "Off" /\ job = NoJob /\ i = 1 /\ k = 1
      /\ updated = {} /\ failed = FALSE /\ failures = 0 /\ lapses = {}
  BY DEF Init
<1>1. PICK img \in Images : flash = [x \in Addresses |-> ImageBlock(img, x[1], x[2])]
  BY DEF Init
<1>2. \A a \in Areas : \A b \in 1 .. Size(a) : flash[<<a, b>>] = ImageBlock(img, a, b)
  BY <1>1, Address
<1>3. pc \notin Walking /\ pc \notin Working
  BY <1>0 DEF Walking, Working
<1>4. TypeOK
  <2>1. flash \in [Addresses -> Data \union {Garbage}]
    <3>1. \A x \in Addresses : ImageBlock(img, x[1], x[2]) \in Data
      BY <1>0, Address, BlockTyped
    <3>2. QED
      BY <1>1, <3>1
  <2>2. job \in [image : Images \union {Garbage}, bb : BOOLEAN, backUp : BOOLEAN]
    BY <1>0 DEF NoJob
  <2>3. i \in 1 .. (Len(BlocksToUpdate) + 1) /\ k <= Size(Area)
    BY <1>0, List, Sizes
  <2>4. k \in Nat /\ k > 0 /\ updated \subseteq Areas /\ failures \in 0 .. MaxFailures
    BY <1>0, Numbers
  <2>5. topSwap \in BOOLEAN /\ failed \in BOOLEAN /\ build \in Builds
    BY <1>0
  <2>6. QED
    BY <1>0, <2>1, <2>2, <2>3, <2>4, <2>5 DEF TypeOK
<1>5. WalkInv /\ LapseInv /\ UpdatedInv /\ ProgressInv
  BY <1>0, <1>3 DEF WalkInv, LapseInv, UpdatedInv, ProgressInv, NoJob
<1>6. MainInv
  <2>1. "MAIN" \in Areas /\ Size("MAIN") \in Nat /\ Size("MAIN") > 1
    BY <1>0, AreaNames, Sizes
  <2>2. NearlyComplete("MAIN", img)
    BY <1>2, <2>1 DEF NearlyComplete
  <2>3. QED
    BY <2>2 DEF MainInv
<1>7. FtRecovery => SwapInv /\ CopyInv
  <2>1. SUFFICES ASSUME FtRecovery PROVE SwapInv /\ CopyInv
    OBVIOUS
  <2>2. BootBlocks \subseteq Areas
    BY <1>0, <2>1, BackUpPlaces
  <2>3. BootComplete(img)
    BY <1>2, <2>2 DEF BootComplete, Complete
  <2>4. QED
    BY <1>0, <1>3, <2>3 DEF SwapInv, CopyInv
<1>8. QED
  BY <1>0, <1>4, <1>5, <1>6, <1>7 DEF IInv

\* Intact depends on flash and the layout only.
LEMMA SameIntact ==
  ASSUME UNCHANGED <<build, flash, topSwap>>
  PROVE  Bootable' = Bootable
<1>1. Areas' = Areas /\ (\A a, b : BackUpAddress(a, b)' = BackUpAddress(a, b))
  BY SameLayout
<1>2. \A a, b : BootAddress(topSwap, a, b)' = BootAddress(topSwap, a, b)
  BY <1>1 DEF BootAddress
<1>3. QED
  BY <1>1, <1>2 DEF Bootable, Intact, IsBootBlock, ImageBlock

\* Only Boot leads to Up, and only from a boot block that is complete.
LEMMA UpStep ==
  ASSUME Next, pc' = "Up"
  PROVE  Bootable'
<1>1. Boot /\ build' = build
  BY DEF Next, FlashWalker, FlashFails, Boot, Start, FtControlFlow, FwUpdate, SkipArea, AmiFlashBackUp,
         SetBackUpAreaFails, AmiFlashProgram, KeepBlock, KeepHeader, FlashEraseBlock, FlashProgram,
         EraseFails, ProgramFails, AfterWrite, RestoreFails, NextBlock, NextArea, EndOfBackUp,
         EndOfUpdate, Epilogue, ResetSystem, PowerFail, Reset
<1>2. Bootable /\ UNCHANGED <<flash, topSwap>>
  BY <1>1 DEF Boot
<1>3. QED
  BY <1>1, <1>2, SameIntact

\* The invariant survives every step.
LEMMA InvStep ==
  ASSUME IInv, [Next]_vars
  PROVE  IInv'
<1>1. CASE Next
  <2>1. build' = build
    BY <1>1 DEF Next
  <2>2. FtRecovery' = FtRecovery
    BY <2>1, SameLayout
  <2>3. TypeOK' /\ WalkInv' /\ LapseInv' /\ UpdatedInv' /\ ProgressInv' /\ MainInv'
    BY <1>1, TypeStep, WalkStep, LapseStep, UpdatedStep, ProgressStep, MainStep
  <2>4. (pc = "Up" => Bootable)'
    BY <1>1, UpStep
  <2>5. (FtRecovery => SwapInv /\ CopyInv)'
    BY <1>1, <2>2, SwapStep, CopyStep
  <2>6. QED
    BY <2>3, <2>4, <2>5 DEF IInv
<1>2. CASE UNCHANGED vars
  <2>1. UNCHANGED <<build, flash, topSwap, pc, job, i, k, updated, failed, failures, lapses>>
    BY <1>2 DEF vars
  <2>2. /\ FtRecovery' = FtRecovery /\ BuildTimeBackup' = BuildTimeBackup
        /\ Areas' = Areas /\ Addresses' = Addresses /\ BlocksToUpdate' = BlocksToUpdate
        /\ (\A a : Size(a)' = Size(a) /\ HasBackUp(a)' = HasBackUp(a))
        /\ \A a, b : BackUpAddress(a, b)' = BackUpAddress(a, b)
    BY <2>1, SameLayout
  <2>3. /\ Area' = Area /\ InList' = InList /\ Limit' = Limit /\ Dest' = Dest
        /\ (\A a : Update(a)' = Update(a)) /\ Data' = Data
        /\ Lapses' = Lapses /\ FirstRun' = FirstRun
    BY <2>1, <2>2, SameArea DEF Data, Lapses, FirstRun
  <2>4. TypeOK'
    BY <2>1, <2>2, <2>3 DEF IInv, TypeOK
  <2>5. WalkInv' /\ LapseInv'
    BY <2>1, <2>2, <2>3 DEF IInv, WalkInv, LapseInv
  <2>6. UpdatedInv'
    BY <2>1, <2>2, <2>3 DEF IInv, UpdatedInv, HeldBack
  <2>7. ProgressInv'
    <3>1. \A b : /\ Written(b)' = Written(b) /\ WrittenBlock(b)' = WrittenBlock(b)
                 /\ Known(b)' = Known(b)
      BY <2>1, <2>3 DEF Written, WrittenBlock, Known, ImageBlock, WithSignature
    <3>2. QED
      BY <2>1, <2>2, <2>3, <3>1 DEF IInv, ProgressInv
  <2>8. MainInv'
    BY <2>1, <2>2 DEF IInv, MainInv, FvValid, NearlyComplete, ImageBlock
  <2>9. (pc = "Up" => Bootable)'
    BY <2>1, SameIntact DEF IInv
  <2>10. (FtRecovery => SwapInv /\ CopyInv)'
    <3>1. SwapInv' = SwapInv
      BY <2>1 DEF SwapInv
    <3>2. /\ \A img : BootComplete(img)' = BootComplete(img)
          /\ \A img : BackUpComplete(img)' = BackUpComplete(img)
          /\ Complete("BB", job.image)' = Complete("BB", job.image)
          /\ \A a, b : Copied(a, b)' = Copied(a, b)
      BY <2>1, <2>2, <2>3
         DEF BootComplete, BackUpComplete, Complete, ImageBlock, Copied, Written
    <3>3. CopyInv' = CopyInv
      BY <2>1, <2>2, <3>2 DEF CopyInv, ImageBlock
    <3>4. QED
      BY <2>2, <3>1, <3>3 DEF IInv
  <2>11. QED
    BY <2>4, <2>5, <2>6, <2>7, <2>8, <2>9, <2>10 DEF IInv
<1>3. QED
  BY <1>1, <1>2

\* The inductive invariant holds in every reachable state of every build.
THEOREM ReFlashInvariant == Spec => []IInv
<1>1. Init => IInv
  BY InitInv
<1>2. IInv /\ [Next]_vars => IInv'
  BY InvStep
<1>3. QED
  BY <1>1, <1>2, PTL DEF Spec

\* Every variable keeps its type, and FlashWalker's block number stays within its area.
THEOREM ReFlashTypeCorrect == Spec => []TypeOK
<1>1. IInv => TypeOK
  BY DEF IInv
<1>2. QED
  BY <1>1, ReFlashInvariant, PTL

\* FtControlFlow and the Top Swap bit: whenever the power fails or the flash part
\* reports an error, the processor finds a complete boot block of one image, unless what
\* the code has not noticed puts it at risk.  For a backup of either kind.
THEOREM BootBlockIntactHolds == Spec => []BootBlockIntact
<1>1. IInv => BootBlockIntact
  <2>1. SUFFICES ASSUME IInv, FtRecovery, ~AtRisk PROVE Bootable
    BY DEF BootBlockIntact
  <2>2. build \in Builds /\ topSwap \in BOOLEAN /\ CopyInv
    BY <2>1 DEF IInv, TypeOK
  <2>3. CASE topSwap = TRUE
    <3>1. \E img \in Images : BackUpComplete(img)
      BY <2>1, <2>2, <2>3 DEF CopyInv, AtRisk
    <3>2. QED
      BY <2>1, <2>2, <2>3, <3>1, IntactCopies DEF Bootable
  <2>4. CASE topSwap = FALSE
    <3>1. \E img \in Images : BootComplete(img)
      BY <2>1, <2>2, <2>4 DEF CopyInv, AtRisk
    <3>2. QED
      BY <2>1, <2>2, <2>4, <3>1, IntactCopies DEF Bootable
  <2>5. QED
    BY <2>2, <2>3, <2>4
<1>2. QED
  BY <1>1, ReFlashInvariant, PTL

\* The areas that a normal boot relies on: the boot block areas by Boot, FV_MAIN by its
\* signature.
LEMMA NormalBoot ==
  ASSUME IInv, pc = "Up", ~IsRecovery, "SetBackUpArea" \notin lapses,
         NEW a \in Areas \intersect {"BB", "RECOVERY", "MAIN"}
  PROVE  \E img \in Images : NearlyComplete(a, img)
<1>1. build \in Builds /\ topSwap = FALSE /\ FvValid("MAIN") /\ Bootable /\ MainInv
  BY DEF IInv, TypeOK, IsRecovery
<1>2. CASE a = "MAIN"
  BY <1>1, <1>2 DEF MainInv
<1>3. CASE a \in {"BB", "RECOVERY"}
  <2>1. Size(a) = Blocks /\ Blocks \in Nat /\ Blocks > 1
    BY <1>3, Sizes, Numbers
  <2>2. PICK img \in Images : \A b \in 1 .. Blocks : flash[<<a, b>>] = ImageBlock(img, a, b)
    BY <1>1, <1>3 DEF Bootable, Intact, BootAddress, IsBootBlock
  <2>3. NearlyComplete(a, img)
    BY <2>1, <2>2 DEF NearlyComplete
  <2>4. QED
    BY <2>3
<1>4. QED
  BY <1>2, <1>3

\* BeforeErase, BeforeWrite and AfterWrite: a boot that does not go to recovery mode has
\* found the areas it relies on complete, but for an error in the last block of one, unless
\* SetBackUpArea could not destroy the signature of FV_MAIN.  For every build.
THEOREM OnlyLastBlockMissedHolds == Spec => []OnlyLastBlockMissed
<1>1. IInv => OnlyLastBlockMissed
  <2>1. SUFFICES ASSUME IInv, pc = "Up", ~IsRecovery, "SetBackUpArea" \notin lapses,
                        NEW a \in Areas \intersect {"BB", "RECOVERY", "MAIN"}
                 PROVE  \E img \in Images :
                          \A b \in 1 .. (Size(a) - 1) : flash[<<a, b>>] = ImageBlock(img, a, b)
    BY DEF OnlyLastBlockMissed
  <2>2. PICK img \in Images : NearlyComplete(a, img)
    BY <2>1, NormalBoot
  <2>3. QED
    BY <2>2 DEF NearlyComplete
<1>2. QED
  BY <1>1, ReFlashInvariant, PTL

\* The same with a flash part that reports no errors, and without backup areas that an
\* image brings: every area is complete.
THEOREM InterruptionNoticedHolds ==
  ASSUME NoBuildTimeBackup, ~FlashErrors
  PROVE  Spec => []InterruptionNoticed
<1>1. IInv => InterruptionNoticed
  <2>1. SUFFICES ASSUME IInv, pc = "Up", ~IsRecovery, NEW a \in Areas \ {"NVRAM"}
                 PROVE  \E img \in Images : Complete(a, img)
    BY DEF InterruptionNoticed
  <2>2. build \in Builds /\ "SetBackUpArea" \notin lapses
    BY <2>1 DEF IInv, TypeOK, LapseInv
  <2>3. a \in Areas \intersect {"BB", "RECOVERY", "MAIN"}
    BY <2>1, <2>2, AreaNames DEF NoBuildTimeBackup, FtRecovery, BuildTimeBackup
  <2>4. PICK img \in Images : NearlyComplete(a, img)
    BY <2>1, <2>2, <2>3, NormalBoot
  <2>5. Size(a) \in Nat /\ Size(a) > 1
    BY Sizes
  <2>6. Complete(a, img)
    BY <2>4, <2>5 DEF NearlyComplete, Complete
  <2>7. QED
    BY <2>6
<1>2. QED
  BY <1>1, ReFlashInvariant, PTL
==============================================================================
