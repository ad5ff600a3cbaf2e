------------------------- MODULE SmmRendezvousProofs -------------------------
(***************************************************************************)
(* Proofs about SmmRendezvous, for any number of CPUs, SMIs and procedures:*)
(* who may be where while the BSP is at a given line, how many APs have    *)
(* still to report to it, and what that means for the SMI handlers.        *)
(***************************************************************************)
EXTENDS SmmRendezvous, FiniteSetTheorems, TLAPS

\* What the code takes from its environment: the sync timers outlast every wait,
\* the short windows are not overtaken, and SmmStartupThisAp blocks if it is used.
Premise ==
  /\ LongTimeout
  /\ PromptWindows = {"ApGiveUp", "MarkAbsent", "ApInitBusy"}
  /\ BlockStartup \/ MaxTasks = 0
------------------------------------------------------------------------------
(***************************************************************************)
(* The lines of the two handlers, by phase of the rendezvous.              *)
(***************************************************************************)
Gone       == {"Os", "Enter", "Exit"}
Gathering  == {"EnterBsp", "Sync1", "BringIn", "Sync2", "InSync", "Lockdown"}
BackupPcs  == {"ReleaseBackup", "Backup", "WaitBackup"}
ProgramPcs == {"ReleaseProgram", "Program", "WaitProgram"}
HandlerPcs == {"OwnBusy", "Core", "Schedule", "Block"}
ExitPcs    == {"ReleaseExit", "WaitExit"}
RestorePcs == {"ReleaseRestore", "Restore", "WaitRestore"}
ResetPcs   == {"ResetBspIndex", "ResetCounter"}
ReleasePcs == {"ReleaseBackup", "ReleaseProgram", "ReleaseExit", "ReleaseRestore"}

\* Where a BSP has set InsideSmm; where it serves its APs; where it has not
\* handed the rendezvous over to the next SMI.
InsidePcs  == (Gathering \ {"EnterBsp"}) \union {"WaitArrive"} \union BackupPcs
                \union ProgramPcs \union HandlerPcs
ServingPcs == Gathering \union {"WaitArrive"} \union BackupPcs \union ProgramPcs
                \union HandlerPcs \union ExitPcs \union RestorePcs
ActivePcs  == ServingPcs \union ResetPcs

\* An AP before its first report; in its loop; anywhere it deals with the BSP.
SyncingPcs == {"ApSync1", "ApBringIn", "ApSync2", "ApDecide", "ApGiveUp"}
Arriving   == {"MarkPresent", "Elect", "EnterAp", "ApArrive"} \union SyncingPcs
ApLoop     == {"ApInitBusy", "ApWait", "ApCheck", "ApRun", "ApReleaseBusy", "ApLeave"}
ServedPcs  == {"ApArrive", "ApWaitBackup", "ApBackup", "ApBackedUp", "ApWaitProgram",
               "ApProgram", "ApProgrammed", "ApWaitRestore", "ApRestore", "ApRestored"}
                \union ApLoop

\* Where an AP waits once it has reported its arrival, or that it leaves.
ArrivedPcs == IF ConfigureMtrrs THEN {"ApWaitBackup"} ELSE {"ApInitBusy", "ApWait"}
LeftPcs    == IF ConfigureMtrrs THEN {"ApWaitRestore"} ELSE {"MarkAbsent"}

\* The APs that the BSP b, at its present line, still has to hear from.
Unreported(p) ==
  IF p \in Gathering \union {"WaitArrive"} THEN Arriving
  ELSE IF p \in BackupPcs THEN {"ApWaitBackup", "ApBackup", "ApBackedUp"}
  ELSE IF p \in ProgramPcs THEN {"ApWaitProgram", "ApProgram", "ApProgrammed"}
  ELSE IF p \in HandlerPcs \union ExitPcs THEN ApLoop
  ELSE IF p \in RestorePcs THEN {"ApWaitRestore", "ApRestore", "ApRestored"}
  ELSE {}
ToReport(b) == {c \in CPUs \ {b} : pc[c] \in Unreported(pc[b])}

\* The CPUs that the arrival Counter stands for.
UncountedPcs == Gone \union {"MarkAbsent", "ResetInSync"}
Counted      == {c \in CPUs : pc[c] \notin UncountedPcs}

USE DEF Gone, Gathering, BackupPcs, ProgramPcs, HandlerPcs, ExitPcs, RestorePcs, ResetPcs,
        ReleasePcs, InsidePcs, ServingPcs, ActivePcs, SyncingPcs, Arriving, ApLoop, ServedPcs,
        UncountedPcs, BspWaits, ApWaits, LockedPcs, BspPcs
------------------------------------------------------------------------------
(***************************************************************************)
(* The inductive invariant.                                                *)
(***************************************************************************)
\* ReleaseAllAPs has passed c.
LetGo(b, c) == pc[b] \in ReleasePcs => c >= index[b]

\* In a phase that b opens with ReleaseAllAPs: an AP waits at one of the lines
\* due, with a token once it is let go, then is at doing, then has reported.
InPhase(b, c, due, doing, reported) ==
  \/ pc[c] \in Gone /\ Run[c] = 0
  \/ pc[c] \in due /\ Run[c] = (IF LetGo(b, c) THEN 1 ELSE 0)
  \/ pc[c] \in doing \union reported /\ Run[c] = 0 /\ LetGo(b, c)

\* While the SMM core runs: only the AP given to SmmStartupThisAp has work.
Engaged(c) ==
  /\ Busy[c] = "Acquired"
  /\ \/ pc[c] = "ApWait" /\ Run[c] = 1
     \/ pc[c] \in {"ApCheck", "ApRun", "ApReleaseBusy"} /\ Run[c] = 0
Returned(c)  == pc[c] = "ApWait" /\ Run[c] = 0 /\ Busy[c] = "Released"
Chosen(b, c) == pc[b] \in {"Schedule", "Block"} /\ c = target[b]
AtHandler(b, c) ==
  /\ ~Chosen(b, c) => Run[c] = 0 /\ pc[c] \in Gone \union {"ApInitBusy", "ApWait"}
  /\ pc[b] = "Schedule" /\ c = target[b] =>
       pc[c] = "ApWait" /\ Run[c] = 0 /\ Busy[c] = "Acquired"
  /\ pc[b] = "Block" /\ c = target[b] => Engaged(c) \/ Returned(c)

\* Where another CPU may be, and the token it may hold, given the line of the BSP.
PhaseInv(b, c) ==
  /\ pc[b] \in Gathering =>
       /\ Run[c] = 0
       /\ pc[c] \in UncountedPcs \union Arriving \union ArrivedPcs
  /\ pc[b] \in Gathering \ {"EnterBsp", "Sync1"} => pc[c] # "ResetInSync"
  /\ pc[b] = "WaitArrive" =>
       Run[c] = 0 /\ pc[c] \in Gone \union (Arriving \ {"ApGiveUp"}) \union ArrivedPcs
  /\ pc[b] \in BackupPcs =>
       InPhase(b, c, {"ApWaitBackup"}, {"ApBackup", "ApBackedUp"}, {"ApWaitProgram"})
  /\ pc[b] \in ProgramPcs =>
       InPhase(b, c, {"ApWaitProgram"}, {"ApProgram", "ApProgrammed"}, {"ApInitBusy", "ApWait"})
  /\ pc[b] \in HandlerPcs => AtHandler(b, c)
  /\ pc[b] \in ExitPcs =>
       InPhase(b, c, {"ApInitBusy", "ApWait"}, {"ApCheck", "ApLeave"}, LeftPcs)
  /\ pc[b] \in RestorePcs =>
       InPhase(b, c, {"ApWaitRestore"}, {"ApRestore", "ApRestored"}, {"MarkAbsent"})
  /\ pc[b] \in ResetPcs => Run[c] = 0 /\ pc[c] \in Gone \union {"MarkAbsent"}
PhasesInv ==
  \A b \in CPUs : pc[b] \in ActivePcs => \A c \in CPUs \ {b} : PhaseInv(b, c)

\* What a BSP has left in the shared data and in its locals.
BspInv(b) ==
  /\ pc[b] \in ActivePcs \ {"ResetCounter"} => BspIndex = b
  /\ pc[b] \in ActivePcs \ {"EnterBsp"} => CurrentlyExecutingCpu = b
  /\ pc[b] \in BackupPcs \union ProgramPcs \union RestorePcs => ConfigureMtrrs
  /\ pc[b] \notin ReleasePcs => index[b] = NumberOfCpus
  /\ pc[b] \in {"Schedule", "Block"} => target[b] # b
  /\ pc[b] = "Schedule" => issued < MaxTasks
  /\ pc[b] \in ResetPcs => Run[b] = 0

\* What a CPU relies on: an AP's BSP serves it, and without a BSP nobody is signalled.
CpuInv(c) ==
  /\ Present[c] <=> pc[c] \notin Gone \union {"MarkPresent"}
  /\ pc[c] \in ServedPcs =>
       apBsp[c] = BspIndex /\ BspIndex \in CPUs /\ pc[BspIndex] \in ServingPcs
  /\ pc[c] = "EnterAp" /\ BspElection => BspIndex \in CPUs
  /\ pc[c] \in SyncingPcs => ~BspElection /\ apBsp[c] = 0
  /\ ~BspElection /\ c = 0 => pc[c] \notin ServedPcs \union SyncingPcs \union {"EnterAp"}
  /\ ~BspElection /\ c # 0 => pc[c] \notin BspPcs
  /\ (\A b \in CPUs : pc[b] \notin ActivePcs) => Run[c] = 0

IndexInv ==
  /\ ~BspElection => BspIndex = 0
  /\ BspElection /\ BspIndex \in CPUs => pc[BspIndex] \in ActivePcs \ {"ResetCounter"}
  /\ InsideSmm <=> \E b \in CPUs : pc[b] \in InsidePcs

RoleInv == IndexInv /\ \A c \in CPUs : CpuInv(c) /\ BspInv(c)

\* Counter is the number of counted CPUs until it is locked.
CounterInv ==
  /\ (\E b \in CPUs : pc[b] \in LockedPcs) => Counter = Uint32Max
  /\ (\A b \in CPUs : pc[b] \notin LockedPcs) => Counter = Cardinality(Counted)

\* The reports b has not yet consumed and those still to come are the ones it
\* is going to wait for; in the last phase the APs leave Counted as they report.
LastPhase == IF ConfigureMtrrs THEN RestorePcs ELSE ExitPcs
ReportInv(b) ==
  /\ pc[b] \in Gathering => Run[b] + Cardinality(ToReport(b)) + 1 = Counter
  /\ pc[b] \in ServingPcs \ Gathering => Run[b] + Cardinality(ToReport(b)) = left[b]
  /\ pc[b] \in ServingPcs \ (Gathering \union LastPhase) =>
       apCount[b] = Cardinality(Counted \ {b})
  /\ pc[b] \in ServingPcs \ (Gathering \union BspWaits) => left[b] = apCount[b]
  /\ pc[b] \in BspWaits /\ left[b] = 0 => apCount[b] = 0
ReportsInv == \A b \in CPUs : ReportInv(b)

\* A procedure that has not run yet is the one the BSP is blocked on.
Pending(b, n) ==
  /\ pc[b] = "Block"
  /\ Engaged(target[b]) /\ pc[target[b]] # "ApReleaseBusy"
  /\ Procedure[target[b]] = n
TaskInv == \A n \in 1 .. issued : n \in done \/ \E b \in CPUs : Pending(b, n)

\* The MTRRs of a core are replaced from the first thread that programs them to
\* the first that restores them, and are backed up outside that interval.
ReplacedPcs  == ApLoop \union (HandlerPcs \union ExitPcs \union {"WaitProgram", "ApProgrammed"})
RestoringPcs == {"ReleaseRestore", "Restore", "ApWaitRestore", "ApRestore"}
MtrrInv ==
  /\ \A c \in CPUs : saved[c] = "Os"
  /\ \A c \in CPUs : ConfigureMtrrs /\ pc[c] \in ReplacedPcs => mtrr[Core(c)] = "Smm"
  /\ \A k \in CPUs : mtrr[k] = "Smm" =>
       /\ ConfigureMtrrs
       /\ \E c \in CPUs : Core(c) = k /\ pc[c] \in ReplacedPcs \union RestoringPcs

IInv ==
  /\ TypeOK
  /\ RoleInv
  /\ PhasesInv
  /\ CounterInv
  /\ ReportsInv
  /\ TaskInv
  /\ MtrrInv
------------------------------------------------------------------------------
(***************************************************************************)
(* The steps of SmiRendezvous, by what they do to the semaphores.          *)
(***************************************************************************)
EntrySteps(c)  == MarkPresent(c) \/ MarkAbsent(c) \/ Resume(c)
GatherSteps(c) ==
  \/ EnterBsp(c)
  \/ BringIn(c)
  \/ SyncWithAPs(c, "Sync2", "InSync")
  \/ InSync(c)
BspWaitSteps(c) ==
  \/ WaitForAllAPs(c, "WaitArrive", IF ConfigureMtrrs THEN "ReleaseBackup" ELSE "OwnBusy")
  \/ WaitForAllAPs(c, "WaitBackup", "ReleaseProgram")
  \/ WaitForAllAPs(c, "WaitProgram", "OwnBusy")
  \/ WaitForAllAPs(c, "WaitExit", IF ConfigureMtrrs THEN "ReleaseRestore" ELSE "ResetBspIndex")
  \/ WaitForAllAPs(c, "WaitRestore", "ResetBspIndex")
ReleaseSteps(c) ==
  \/ ReleaseAllAPs(c, "ReleaseBackup", "Backup")
  \/ ReleaseAllAPs(c, "ReleaseProgram", "Program")
  \/ ReleaseAllAPs(c, "ReleaseExit", "WaitExit")
  \/ ReleaseAllAPs(c, "ReleaseRestore", "Restore")
BspMtrrSteps(c) ==
  \/ BackupMtrrs(c, "Backup", "WaitBackup")
  \/ ReplaceOSMtrrs(c, "Program", "WaitProgram")
  \/ RestoreMtrrs(c, "Restore", "WaitRestore")
CoreSteps(c) ==
  AcquireOwnBusy(c) \/ (\E t \in CPUs : SmmStartupThisAp(c, t)) \/ Schedule(c) \/ Block(c)
    \/ LeaveCore(c)
ResetSteps(c) == ResetBspIndex(c) \/ ResetCounter(c) \/ ResetInSync(c)
SyncSteps(c) ==
  \/ EnterAp(c)
  \/ SyncWithBsp(c, "ApSync1", "ApBringIn")
  \/ ApBringIn(c)
  \/ SyncWithBsp(c, "ApSync2", "ApDecide")
  \/ ApDecide(c)
ReportSteps(c) ==
  \/ ReportTo(apBsp[c], c, "ApArrive", IF ConfigureMtrrs THEN "ApWaitBackup" ELSE "ApInitBusy")
  \/ ReportTo(apBsp[c], c, "ApBackedUp", "ApWaitProgram")
  \/ ReportTo(apBsp[c], c, "ApProgrammed", "ApInitBusy")
  \/ ReportTo(BspIndex, c, "ApLeave", IF ConfigureMtrrs THEN "ApWaitRestore" ELSE "MarkAbsent")
  \/ ReportTo(apBsp[c], c, "ApRestored", "MarkAbsent")
ApWaitSteps(c) ==
  \/ ApWaitRun(c, "ApWaitBackup", "ApBackup")
  \/ ApWaitRun(c, "ApWaitProgram", "ApProgram")
  \/ ApWaitRun(c, "ApWait", "ApCheck")
  \/ ApWaitRun(c, "ApWaitRestore", "ApRestore")
ApMtrrSteps(c) ==
  \/ BackupMtrrs(c, "ApBackup", "ApBackedUp")
  \/ ReplaceOSMtrrs(c, "ApProgram", "ApProgrammed")
  \/ RestoreMtrrs(c, "ApRestore", "ApRestored")
LoopSteps(c) == ApInitBusy(c) \/ ApCheck(c) \/ ApRun(c) \/ ApReleaseBusy(c)

\* Every step of a CPU inside SMM is of one of these kinds.
LEMMA StepKinds ==
  ASSUME NEW c \in CPUs, SmiRendezvous(c)
  PROVE  \/ Arrive(c) \/ Elect(c) \/ EntrySteps(c)
         \/ GatherSteps(c) \/ SyncWithAPs(c, "Sync1", "BringIn") \/ LockdownSemaphore(c)
         \/ BspWaitSteps(c) \/ ReleaseSteps(c) \/ BspMtrrSteps(c) \/ CoreSteps(c) \/ ResetSteps(c)
         \/ SyncSteps(c) \/ ApGiveUp(c) \/ ReportSteps(c) \/ ApWaitSteps(c) \/ ApMtrrSteps(c)
         \/ LoopSteps(c)
BY Zenon DEF SmiRendezvous, BSPHandler, APHandler, EntrySteps, GatherSteps, BspWaitSteps,
      ReleaseSteps, BspMtrrSteps, CoreSteps, ResetSteps, SyncSteps, ReportSteps, ApWaitSteps,
      ApMtrrSteps, LoopSteps
------------------------------------------------------------------------------
(***************************************************************************)
(* Types, the uniqueness of the BSP, and single iterations of its loops.   *)
(***************************************************************************)
\* What the proofs use of RendezvousAssumption.
LEMMA Numbers ==
  /\ NumberOfCpus \in Nat /\ NumberOfCpus >= 1
  /\ Uint32Max \in Nat /\ Uint32Max > NumberOfCpus
  /\ 0 \in CPUs /\ Uint32Max \notin CPUs
  /\ \A d \in CPUs : d \in Nat /\ d < NumberOfCpus
  /\ MaxSmi \in Nat /\ MaxTasks \in Nat
BY RendezvousAssumption DEF RendezvousAssumption, CPUs

\* ReleaseSemaphore and WaitForSemaphore keep a UINT32 a UINT32.
LEMMA SemaphoreTyped ==
  ASSUME NEW v \in 0 .. Uint32Max
  PROVE  /\ Released(v) \in 0 .. Uint32Max
         /\ CanWait(v) => Waited(v) \in 0 .. Uint32Max
BY Numbers DEF Released, CanWait, Waited

\* So do the two operations on a Run semaphore.
LEMMA RunTyped ==
  ASSUME TypeOK, NEW d, ReleaseRun(d) \/ (d \in CPUs /\ WaitRun(d))
  PROVE  Run' \in [CPUs -> 0 .. Uint32Max]
<1>1. Run \in [CPUs -> 0 .. Uint32Max]
  BY DEF TypeOK
<1>2. QED
  BY <1>1, SemaphoreTyped DEF ReleaseRun, WaitRun

\* The MTRRs of a CPU are those of some CPU.
LEMMA CoreTyped == \A c \in CPUs : Core(c) \in CPUs
BY Numbers DEF Core

\* Every set of CPUs is finite.
LEMMA CpusFinite ==
  /\ IsFiniteSet(CPUs) /\ Cardinality(CPUs) = NumberOfCpus
  /\ \A S \in SUBSET CPUs : IsFiniteSet(S) /\ Cardinality(S) \in Nat
<1>1. IsFiniteSet(CPUs) /\ Cardinality(CPUs) = NumberOfCpus
  BY RendezvousAssumption, FS_Interval DEF RendezvousAssumption, CPUs
<1>2. QED
  BY <1>1, FS_Subset, FS_CardinalityType

\* A move of one CPU to a label leaves every CPU at a label.
LEMMA GotoTyped ==
  ASSUME TypeOK, NEW c \in CPUs, NEW p, NEW q \in PcLabels, Goto(c, p, q)
  PROVE  pc' \in [CPUs -> PcLabels]
BY DEF TypeOK, Goto

\* The types survive every step: Counter - 1 does not wrap, because the BSP itself
\* is counted, and a procedure is scheduled only below MaxTasks.
LEMMA TypeStep ==
  ASSUME IInv, NEW c \in CPUs, SmiRendezvous(c)
  PROVE  TypeOK'
<1> USE DEF TypeOK, ucData, cpuData, locals, mtrrs, smi, tasks
<1>0. TypeOK
  BY DEF IInv
<1>1. CASE Arrive(c)
  BY <1>0, <1>1, SemaphoreTyped DEF Arrive, Goto, PcLabels
<1>2. CASE MarkPresent(c)
  BY <1>0, <1>2 DEF MarkPresent, Goto, PcLabels
<1>3. CASE Elect(c)
  BY <1>0, <1>3 DEF Elect, Goto, PcLabels
<1>4. CASE MarkAbsent(c)
  BY <1>0, <1>4 DEF MarkAbsent, Goto, PcLabels
<1>5. CASE Resume(c)
  BY <1>0, <1>5 DEF Resume, Goto, PcLabels
<1>6. ASSUME NEW p, NEW q \in PcLabels, SyncWithAPs(c, p, q)
      PROVE  TypeOK'
  BY <1>0, <1>6, GotoTyped DEF SyncWithAPs
<1>7. ASSUME NEW p, NEW q \in PcLabels, SyncWithBsp(c, p, q)
      PROVE  TypeOK'
  BY <1>0, <1>7, GotoTyped DEF SyncWithBsp
<1>8. CASE BringIn(c)
  BY <1>0, <1>8 DEF BringIn, SendSmiIpi, Goto, PcLabels
<1>9. CASE ApBringIn(c)
  <2>1. smiPending' \in [CPUs -> BOOLEAN]
    BY <1>0, <1>9 DEF ApBringIn, SendSmiIpi
  <2>2. QED
    BY <1>0, <1>9, <2>1 DEF ApBringIn, Goto, PcLabels
<1>10. CASE InSync(c)
  BY <1>0, <1>10 DEF InSync, Goto, PcLabels
<1>11. CASE EnterBsp(c)
  BY <1>0, <1>11 DEF EnterBsp, Goto, PcLabels
<1>12. ASSUME NEW p, NEW q \in PcLabels, BackupMtrrs(c, p, q)
       PROVE  TypeOK'
  BY <1>0, <1>12, CoreTyped, GotoTyped DEF BackupMtrrs
<1>13. ASSUME NEW p, NEW q \in PcLabels, ReplaceOSMtrrs(c, p, q)
       PROVE  TypeOK'
  BY <1>0, <1>13, CoreTyped, GotoTyped DEF ReplaceOSMtrrs
<1>14. ASSUME NEW p, NEW q \in PcLabels, RestoreMtrrs(c, p, q)
       PROVE  TypeOK'
  BY <1>0, <1>14, CoreTyped, GotoTyped DEF RestoreMtrrs
<1>15. ASSUME NEW p, NEW q \in PcLabels, ApWaitRun(c, p, q)
       PROVE  TypeOK'
  BY <1>0, <1>15, RunTyped, GotoTyped DEF ApWaitRun
<1>16. ASSUME NEW p, NEW q \in PcLabels, NEW d, ReportTo(d, c, p, q)
       PROVE  TypeOK'
  BY <1>0, <1>16, RunTyped, GotoTyped DEF ReportTo
<1>17. ASSUME NEW p \in PcLabels, NEW q \in PcLabels, WaitForAllAPs(c, p, q)
       PROVE  TypeOK'
  <2>1. Run' \in [CPUs -> 0 .. Uint32Max]
    BY <1>0, <1>17, RunTyped DEF WaitForAllAPs
  <2>2. left' \in [CPUs -> 0 .. Uint32Max]
    BY <1>0, <1>17, Numbers DEF WaitForAllAPs
  <2>3. pc' \in [CPUs -> PcLabels]
    BY <1>0, <1>17, GotoTyped DEF WaitForAllAPs
  <2>4. QED
    BY <1>0, <1>17, <2>1, <2>2, <2>3 DEF WaitForAllAPs
<1>18. ASSUME NEW p \in PcLabels, NEW q \in PcLabels, ReleaseAllAPs(c, p, q)
       PROVE  TypeOK'
  <2>1. Run' \in [CPUs -> 0 .. Uint32Max]
    BY <1>0, <1>18, RunTyped DEF ReleaseAllAPs
  <2>2. index' \in [CPUs -> 1 .. NumberOfCpus]
    BY <1>0, <1>18, Numbers DEF ReleaseAllAPs
  <2>3. pc' \in [CPUs -> PcLabels]
    BY <1>0, <1>18, GotoTyped DEF ReleaseAllAPs
  <2>4. QED
    BY <1>0, <1>18, <2>1, <2>2, <2>3 DEF ReleaseAllAPs
<1>19. CASE LockdownSemaphore(c)
  <2>1. Run[c] + Cardinality(ToReport(c)) + 1 = Counter
    BY <1>19 DEF LockdownSemaphore, Goto, IInv, ReportsInv, ReportInv
  <2>2. Counter - 1 \in 0 .. Uint32Max /\ Uint32Max \in 0 .. Uint32Max
    <3>1. Cardinality(ToReport(c)) \in Nat
      BY CpusFinite DEF ToReport
    <3>2. QED
      BY <1>0, <2>1, <3>1, Numbers
  <2>3. QED
    BY <1>0, <1>19, <2>2 DEF LockdownSemaphore, Goto, PcLabels
<1>20. CASE AcquireOwnBusy(c)
  BY <1>0, <1>20 DEF AcquireOwnBusy, Goto, PcLabels
<1>21. ASSUME NEW t \in CPUs, SmmStartupThisAp(c, t)
       PROVE  TypeOK'
  BY <1>0, <1>21 DEF SmmStartupThisAp, Goto, PcLabels
<1>22. CASE Schedule(c)
  <2>1. Run' \in [CPUs -> 0 .. Uint32Max]
    BY <1>0, <1>22, RunTyped DEF Schedule
  <2>2. issued' \in 0 .. MaxTasks
    BY <1>0, <1>22, Numbers DEF Schedule, Goto, IInv, RoleInv, BspInv
  <2>3. QED
    BY <1>0, <1>22, <2>1, <2>2 DEF Schedule, Goto, PcLabels
<1>23. CASE Block(c)
  BY <1>0, <1>23 DEF Block, Goto, PcLabels
<1>24. CASE LeaveCore(c)
  BY <1>0, <1>24 DEF LeaveCore, Goto, PcLabels
<1>25. CASE ResetBspIndex(c)
  BY <1>0, <1>25 DEF ResetBspIndex, Goto, PcLabels
<1>26. CASE ResetCounter(c)
  BY <1>0, <1>26, Numbers DEF ResetCounter, Goto, PcLabels
<1>27. CASE ResetInSync(c)
  BY <1>0, <1>27 DEF ResetInSync, Goto, PcLabels
<1>28. CASE EnterAp(c)
  BY <1>0, <1>28 DEF EnterAp, Goto, PcLabels
<1>29. CASE ApDecide(c)
  BY <1>0, <1>29 DEF ApDecide, Goto, PcLabels
<1>30. CASE ApGiveUp(c)
  BY <1>0, <1>30, SemaphoreTyped DEF ApGiveUp, Goto, PcLabels
<1>31. CASE ApInitBusy(c)
  BY <1>0, <1>31 DEF ApInitBusy, Goto, PcLabels
<1>32. CASE ApCheck(c)
  BY <1>0, <1>32 DEF ApCheck, Goto, PcLabels
<1>33. CASE ApRun(c)
  BY <1>0, <1>33 DEF ApRun, Goto, PcLabels
<1>34. CASE ApReleaseBusy(c)
  BY <1>0, <1>34 DEF ApReleaseBusy, Goto, PcLabels
<1>35. QED
  <2>1. CASE BSPHandler(c)
    BY <2>1, <1>6, <1>8, <1>10, <1>11, <1>12, <1>13, <1>14, <1>17, <1>18, <1>19, <1>20,
       <1>21, <1>22, <1>23, <1>24, <1>25, <1>26, <1>27 DEF BSPHandler, PcLabels
  <2>2. CASE APHandler(c)
    BY <2>2, <1>7, <1>9, <1>12, <1>13, <1>14, <1>15, <1>16, <1>28, <1>29, <1>30, <1>31,
       <1>32, <1>33, <1>34 DEF APHandler, PcLabels
  <2>3. QED
    BY <1>1, <1>2, <1>3, <1>4, <1>5, <2>1, <2>2 DEF SmiRendezvous

\* The only part of TypeOK that most steps need.
LEMMA PcTyped == IInv => pc \in [CPUs -> PcLabels]
BY DEF IInv, TypeOK

\* There is at most one BSP that has not handed over to the next SMI.
LEMMA OneBsp ==
  ASSUME IInv, NEW b \in CPUs, NEW d \in CPUs, pc[b] \in ActivePcs, pc[d] \in ActivePcs
  PROVE  b = d
BY DEF IInv, PhasesInv, PhaseInv, InPhase, AtHandler, Engaged, Returned, Chosen, ArrivedPcs, LeftPcs

\* When a wait is over, or consumes its last report, everybody has reported.
LEMMA AllReported ==
  ASSUME IInv, NEW c \in CPUs, pc[c] \in BspWaits,
         left[c] = 0 \/ (left[c] = 1 /\ CanWait(Run[c]))
  PROVE  /\ Run[c] = left[c]
         /\ \A d \in CPUs \ {c} : pc[d] \notin Unreported(pc[c])
<1>1. Run[c] + Cardinality(ToReport(c)) = left[c]
  BY DEF IInv, ReportsInv, ReportInv
<1>2. IsFiniteSet(ToReport(c)) /\ Cardinality(ToReport(c)) \in Nat
  BY CpusFinite DEF ToReport
<1>3. Run[c] \in Nat
  BY DEF IInv, TypeOK
<1>4. Run[c] = left[c] /\ Cardinality(ToReport(c)) = 0
  BY <1>1, <1>2, <1>3 DEF CanWait
<1>5. ToReport(c) = {}
  BY <1>2, <1>4, FS_EmptySet
<1>6. QED
  BY <1>4, <1>5 DEF ToReport

\* One iteration of WaitForAllAPs: a report is consumed, or the wait is over, every
\* AP has reported and no report is left over.
LEMMA WaitEnds ==
  ASSUME IInv, NEW c \in CPUs, NEW p \in BspWaits, NEW q, q # p, WaitForAllAPs(c, p, q)
  PROVE  /\ pc[c] = p
         /\ \A d \in CPUs \ {c} : Run'[d] = Run[d] /\ left'[d] = left[d]
         /\ \/ /\ pc' = pc
               /\ Run[c] \in Nat \ {0} /\ Run'[c] = Run[c] - 1
               /\ left[c] \in Nat /\ left[c] > 1 /\ left'[c] = left[c] - 1
            \/ /\ pc' = [pc EXCEPT ![c] = q]
               /\ \A d \in CPUs \ {c} : pc[d] \notin Unreported(p)
               /\ Run'[c] = 0
               /\ left'[c] = apCount[c]
         /\ UNCHANGED <<ucData, Present, Busy, Procedure, apCount, index, apBsp, target,
                        mtrrs, smi, tasks>>
<1>1. CurrentlyExecutingCpu = c /\ pc[c] = p /\ pc \in [CPUs -> PcLabels]
  BY DEF IInv, RoleInv, BspInv, WaitForAllAPs, Goto, TypeOK
<1>2. Run \in [CPUs -> 0 .. Uint32Max] /\ left \in [CPUs -> 0 .. Uint32Max]
  BY DEF IInv, TypeOK
<1>3. CASE left[c] = 0
  <2>1. apCount[c] = 0
    BY <1>1, <1>3 DEF IInv, ReportsInv, ReportInv
  <2>2. Run[c] = 0 /\ \A d \in CPUs \ {c} : pc[d] \notin Unreported(p)
    BY <1>1, <1>3, AllReported
  <2>3. QED
    BY <1>1, <1>2, <1>3, <2>1, <2>2 DEF WaitForAllAPs, Goto
<1>4. CASE left[c] = 1
  <2>1. CanWait(Run[c])
    BY <1>1, <1>4 DEF WaitForAllAPs, WaitRun
  <2>2. Run[c] = 1 /\ \A d \in CPUs \ {c} : pc[d] \notin Unreported(p)
    BY <1>1, <1>4, <2>1, AllReported
  <2>3. QED
    BY <1>1, <1>2, <1>4, <2>1, <2>2 DEF WaitForAllAPs, Goto, WaitRun, Waited
<1>5. CASE left[c] > 1
  <2>1. Run[c] \in Nat \ {0} /\ left[c] \in Nat
    BY <1>1, <1>2, <1>5 DEF WaitForAllAPs, WaitRun, CanWait
  <2>2. QED
    BY <1>1, <1>2, <1>5, <2>1 DEF WaitForAllAPs, Goto, WaitRun, Waited
<1>6. QED
  BY <1>2, <1>3, <1>4, <1>5

\* What InsideSmm tells a CPU about the line of its BSP.
LEMMA InsideIffBspInside ==
  ASSUME IInv, NEW b \in CPUs, pc[b] \in ActivePcs
  PROVE  InsideSmm <=> pc[b] \in InsidePcs
BY OneBsp DEF IInv, RoleInv, IndexInv

\* One iteration of ReleaseAllAPs: the AP it comes to gets exactly one token if it
\* is present, and nobody else gets one.
LEMMA ReleaseStep ==
  ASSUME IInv, NEW c \in CPUs, NEW p \in ReleasePcs, NEW q, q \notin ReleasePcs,
         ReleaseAllAPs(c, p, q)
  PROVE  /\ pc[c] = p /\ pc' = [pc EXCEPT ![c] = pc'[c]] /\ pc'[c] \in {p, q}
         /\ pc'[c] = q => index'[c] = NumberOfCpus
         /\ \A d \in CPUs \ {c} : index'[d] = index[d]
         /\ Run'[c] = Run[c]
         /\ \A d \in CPUs \ {c} :
              IF d = index[c] - 1
                THEN ~LetGo(c, d) /\ LetGo(c, d)' /\ Run'[d] = IF pc[d] \in Gone THEN 0 ELSE 1
                ELSE Run'[d] = Run[d] /\ (LetGo(c, d)' <=> LetGo(c, d))
         /\ UNCHANGED <<ucData, Present, Busy, Procedure, apCount, left, apBsp, target,
                        mtrrs, smi, tasks>>
<1> DEFINE d == index[c] - 1
<1>1. /\ index \in [CPUs -> 1 .. NumberOfCpus] /\ Run \in [CPUs -> 0 .. Uint32Max]
      /\ pc \in [CPUs -> PcLabels]
  BY DEF IInv, TypeOK
<1>2. index[c] \in Nat /\ index[c] >= 1 /\ index[c] <= NumberOfCpus /\ NumberOfCpus \in Nat
  BY <1>1, Numbers
<1>3. d \in CPUs
  BY <1>2 DEF CPUs
<1>4. CurrentlyExecutingCpu = c /\ pc[c] = p
  BY DEF IInv, RoleInv, BspInv, ReleaseAllAPs, Goto
<1>5. ~LetGo(c, d)
  BY <1>2, <1>4 DEF LetGo
<1>6. d # c => Run[d] = 0 /\ (Present[d] <=> pc[d] \notin Gone)
  <2>1. SUFFICES ASSUME d # c PROVE Run[d] = 0 /\ (Present[d] <=> pc[d] \notin Gone)
    OBVIOUS
  <2>2. PhaseInv(c, d) /\ CpuInv(d)
    BY <1>3, <1>4, <2>1 DEF IInv, PhasesInv, RoleInv
  <2>3. QED
    BY <1>4, <1>5, <2>2 DEF PhaseInv, InPhase, CpuInv
<1>7. Run' = IF d # c /\ Present[d] THEN [Run EXCEPT ![d] = Released(@)] ELSE Run
  BY <1>3, <1>4 DEF ReleaseAllAPs, ReleaseRun
<1>8. /\ \A x \in CPUs : x # d => Run'[x] = Run[x]
      /\ Run'[c] = Run[c]
      /\ d # c => Run'[d] = IF pc[d] \in Gone THEN 0 ELSE 1
  <2>1. CASE d # c /\ Present[d]
    <3>1. Released(0) = 1
      BY Numbers DEF Released
    <3>2. QED
      BY <1>1, <1>3, <1>6, <1>7, <2>1, <3>1
  <2>2. CASE ~(d # c /\ Present[d])
    BY <1>1, <1>3, <1>6, <1>7, <2>2
  <2>3. QED
    BY <2>1, <2>2
<1>9. /\ pc' = [pc EXCEPT ![c] = IF d = 0 THEN q ELSE p]
      /\ index' = [index EXCEPT ![c] = IF d = 0 THEN NumberOfCpus ELSE d]
  BY DEF ReleaseAllAPs, Goto
<1>10. \A x \in CPUs : LetGo(c, x)' <=> LetGo(c, x) \/ x = d
  <2>1. \A x \in CPUs : x \in Nat
    BY Numbers
  <2>2. CASE d = 0
    BY <1>1, <1>2, <1>4, <1>9, <2>1, <2>2 DEF LetGo
  <2>3. CASE d # 0
    BY <1>1, <1>2, <1>4, <1>9, <2>1, <2>3 DEF LetGo
  <2>4. QED
    BY <2>2, <2>3
<1>11. /\ pc[c] = p /\ pc' = [pc EXCEPT ![c] = pc'[c]] /\ pc'[c] \in {p, q}
       /\ pc'[c] = q => index'[c] = NumberOfCpus
       /\ \A x \in CPUs \ {c} : index'[x] = index[x]
  BY <1>1, <1>4, <1>9
<1>12. QED
  BY <1>5, <1>8, <1>10, <1>11 DEF ReleaseAllAPs

\* The line after a wait of the BSP.
AfterWait(p) ==
  IF p = "WaitArrive" THEN (IF ConfigureMtrrs THEN "ReleaseBackup" ELSE "OwnBusy")
  ELSE IF p = "WaitBackup" THEN "ReleaseProgram"
  ELSE IF p = "WaitProgram" THEN "OwnBusy"
  ELSE IF p = "WaitExit" /\ ConfigureMtrrs THEN "ReleaseRestore"
  ELSE "ResetBspIndex"

\* A wait step consumes one report, or ends the wait when all APs have reported.
LEMMA BspWaitStep ==
  ASSUME IInv, NEW c \in CPUs, BspWaitSteps(c)
  PROVE  /\ pc[c] \in BspWaits /\ pc' = [pc EXCEPT ![c] = pc'[c]]
         /\ \A d \in CPUs \ {c} : Run'[d] = Run[d] /\ left'[d] = left[d]
         /\ \/ /\ pc' = pc
               /\ Run[c] \in Nat \ {0} /\ Run'[c] = Run[c] - 1
               /\ left[c] \in Nat /\ left[c] > 1 /\ left'[c] = left[c] - 1
            \/ /\ pc'[c] = AfterWait(pc[c])
               /\ \A d \in CPUs \ {c} : pc[d] \notin Unreported(pc[c])
               /\ Run'[c] = 0
               /\ left'[c] = apCount[c]
         /\ UNCHANGED <<ucData, Present, Busy, Procedure, apCount, index, apBsp, target,
                        mtrrs, smi, tasks>>
<1>0. pc \in [CPUs -> PcLabels]
  BY PcTyped
<1>1. CASE WaitForAllAPs(c, "WaitArrive", IF ConfigureMtrrs THEN "ReleaseBackup" ELSE "OwnBusy")
  BY <1>0, <1>1, WaitEnds DEF AfterWait
<1>2. CASE WaitForAllAPs(c, "WaitBackup", "ReleaseProgram")
  BY <1>0, <1>2, WaitEnds DEF AfterWait
<1>3. CASE WaitForAllAPs(c, "WaitProgram", "OwnBusy")
  BY <1>0, <1>3, WaitEnds DEF AfterWait
<1>4. CASE WaitForAllAPs(c, "WaitExit", IF ConfigureMtrrs THEN "ReleaseRestore" ELSE "ResetBspIndex")
  BY <1>0, <1>4, WaitEnds DEF AfterWait
<1>5. CASE WaitForAllAPs(c, "WaitRestore", "ResetBspIndex")
  BY <1>0, <1>5, WaitEnds DEF AfterWait
<1>6. QED
  BY <1>1, <1>2, <1>3, <1>4, <1>5 DEF BspWaitSteps

\* Without a BSP every CPU is outside the rendezvous or on its way into it, and
\* nobody has been signalled.
LEMMA NobodyServed ==
  ASSUME IInv, \A b \in CPUs : pc[b] \notin ActivePcs
  PROVE  \A d \in CPUs : Run[d] = 0 /\ pc[d] \in UncountedPcs \union (Arriving \ {"ApArrive"})
BY PcTyped DEF IInv, RoleInv, CpuInv, PcLabels

\* A CPU becomes the BSP only when there is none.
LEMMA ElectedAlone ==
  ASSUME IInv, NEW c \in CPUs, Elect(c), BspIndex' = c
  PROVE  \A b \in CPUs : pc[b] \notin ActivePcs
<1> SUFFICES ASSUME NEW b \in CPUs, pc[b] \in ActivePcs PROVE FALSE
  OBVIOUS
<1>1. pc[c] = "Elect" /\ b # c
  BY DEF Elect, Goto
<1>2. PhaseInv(b, c) /\ BspInv(b) /\ CpuInv(b)
  BY <1>1 DEF IInv, PhasesInv, RoleInv
<1>3. BspIndex = b
  BY <1>1, <1>2 DEF PhaseInv, BspInv
<1>4. QED
  BY <1>1, <1>2, <1>3, Numbers DEF Elect

\* A CPU's view of the BSP survives every step.
LEMMA RoleStep ==
  ASSUME IInv, Premise, NEW c \in CPUs, SmiRendezvous(c)
  PROVE  RoleInv'
<1>0. /\ pc \in [CPUs -> PcLabels] /\ Run \in [CPUs -> 0 .. Uint32Max]
      /\ Present \in [CPUs -> BOOLEAN] /\ index \in [CPUs -> 1 .. NumberOfCpus]
      /\ apBsp \in [CPUs -> CPUs \union {Uint32Max}]
      /\ target \in [CPUs -> CPUs] /\ issued \in 0 .. MaxTasks
      /\ BspIndex \in CPUs \union {Uint32Max}
      /\ IndexInv /\ \A d \in CPUs : CpuInv(d) /\ BspInv(d)
  BY DEF IInv, TypeOK, RoleInv
<1> USE <1>0, Numbers
    DEF RoleInv, IndexInv, CpuInv, BspInv, Goto, ucData, cpuData, locals, mtrrs, smi, tasks
<1>1. CASE Arrive(c)
  BY <1>1 DEF Arrive
<1>2. CASE Elect(c)
  BY <1>2, ElectedAlone DEF Elect
<1>3. CASE EntrySteps(c)
  BY <1>3 DEF EntrySteps, MarkPresent, MarkAbsent, Resume
<1>4. CASE GatherSteps(c)
  BY <1>4, OneBsp DEF GatherSteps, EnterBsp, BringIn, SyncWithAPs, InSync
<1>5. CASE SyncWithAPs(c, "Sync1", "BringIn")
  BY <1>5 DEF SyncWithAPs
<1>6. CASE LockdownSemaphore(c)
  BY <1>6 DEF LockdownSemaphore
<1>7. CASE BspMtrrSteps(c)
  BY <1>7 DEF BspMtrrSteps, BackupMtrrs, ReplaceOSMtrrs, RestoreMtrrs
<1>8. CASE CoreSteps(c)
  BY <1>8, OneBsp DEF CoreSteps, AcquireOwnBusy, SmmStartupThisAp, Block, LeaveCore, Schedule, ReleaseRun
<1>9. CASE ResetSteps(c)
  <2>1. pc[c] \in ResetPcs => \A d \in CPUs \ {c} : Run[d] = 0 /\ pc[d] \in OutsidePcs
    BY DEF IInv, PhasesInv, PhaseInv, OutsidePcs
  <2>2. CASE ResetBspIndex(c)
    BY <2>1, <2>2 DEF ResetBspIndex, OutsidePcs
  <2>3. CASE ResetCounter(c)
    BY <2>1, <2>3 DEF ResetCounter, OutsidePcs
  <2>4. CASE ResetInSync(c)
    BY <2>4 DEF ResetInSync
  <2>5. QED
    BY <1>9, <2>2, <2>3, <2>4 DEF ResetSteps
<1>10. CASE SyncSteps(c)
  <2>1. CASE EnterAp(c)
    <3>1. CASE BspElection
      <4>1. \A b \in CPUs : pc[b] \notin ResetPcs
        BY <2>1 DEF EnterAp, IInv, PhasesInv, PhaseInv
      <4>2. QED
        BY <2>1, <3>1, <4>1 DEF EnterAp
    <3>2. CASE ~BspElection
      BY <2>1, <3>2 DEF EnterAp
    <3>3. QED
      BY <3>1, <3>2
  <2>2. CASE ApBringIn(c)
    BY <2>2 DEF ApBringIn
  <2>3. CASE ApDecide(c)
    BY <2>3 DEF ApDecide
  <2>4. QED
    BY <1>10, <2>1, <2>2, <2>3 DEF SyncSteps, SyncWithBsp
<1>11. CASE ApGiveUp(c)
  BY <1>11 DEF ApGiveUp
<1>12. CASE ApMtrrSteps(c)
  BY <1>12 DEF ApMtrrSteps, BackupMtrrs, ReplaceOSMtrrs, RestoreMtrrs
<1>13. CASE LoopSteps(c)
  BY <1>13 DEF LoopSteps, ApInitBusy, ApCheck, ApRun, ApReleaseBusy
<1>14. CASE ReportSteps(c)
  BY <1>14 DEF ReportSteps, ReportTo, ReleaseRun
<1>15. CASE ApWaitSteps(c)
  BY <1>15 DEF ApWaitSteps, ApWaitRun, WaitRun, CanWait, Waited
<1>16. CASE ReleaseSteps(c)
  BY <1>16, ReleaseStep DEF ReleaseSteps
<1>17. CASE BspWaitSteps(c)
  <2>1. CASE pc'[c] # "ResetBspIndex"
    BY <1>17, <2>1, BspWaitStep DEF AfterWait
  <2>2. CASE pc'[c] = "ResetBspIndex"
    <3>1. \A d \in CPUs \ {c} : PhaseInv(c, d) /\ pc[d] \notin Unreported(pc[c])
      BY <1>17, <2>2, BspWaitStep DEF IInv, PhasesInv
    <3>2. \A d \in CPUs \ {c} : pc[d] \in Gone \union {"MarkAbsent"}
      BY <1>17, <2>2, <3>1, BspWaitStep DEF PhaseInv, InPhase, Unreported, LeftPcs, AfterWait
    <3>3. QED
      BY <1>17, <2>2, <3>2, BspWaitStep DEF AfterWait
  <2>3. QED
    BY <2>1, <2>2
<1>18. QED
  BY <1>1, <1>2, <1>3, <1>4, <1>5, <1>6, <1>7, <1>8, <1>9, <1>10, <1>11, <1>12, <1>13,
     <1>14, <1>15, <1>16, <1>17, StepKinds

\* A sync loop of the BSP does not end while the BSP of the last SMI has yet to
\* clear AllCpusInSync: all CPUs are counted, or all others are held up.
LEMMA SyncEnds ==
  ASSUME IInv, Premise, NEW c \in CPUs, SyncWithAPs(c, "Sync1", "BringIn")
  PROVE  \A d \in CPUs : pc[d] # "ResetInSync"
<1>1. pc[c] = "Sync1" /\ (Counter >= NumberOfCpus \/ IsSyncTimerTimeout(c))
  BY DEF SyncWithAPs, Goto
<1>2. CASE Counter >= NumberOfCpus
  <2>1. \A b \in CPUs : pc[b] \notin LockedPcs
    BY <1>1, OneBsp
  <2>2. Cardinality(Counted) >= Cardinality(CPUs) /\ Counted \subseteq CPUs
    BY <1>2, <2>1, CpusFinite DEF IInv, CounterInv, Counted
  <2>3. Counted = CPUs
    BY <2>2, CpusFinite, FS_Subset, FS_CardinalityType
  <2>4. QED
    BY <2>3 DEF Counted
<1>3. CASE IsSyncTimerTimeout(c)
  BY <1>1, <1>3 DEF Premise, IsSyncTimerTimeout, HeldUp
<1>4. QED
  BY <1>1, <1>2, <1>3

\* Where the other CPUs may be survives every step.
LEMMA PhaseStep ==
  ASSUME IInv, Premise, NEW c \in CPUs, SmiRendezvous(c)
  PROVE  PhasesInv'
<1> SUFFICES ASSUME NEW b \in CPUs, pc'[b] \in ActivePcs, NEW d \in CPUs \ {b}
             PROVE  PhaseInv(b, d)'
  BY DEF PhasesInv
<1>0. /\ pc \in [CPUs -> PcLabels] /\ Run \in [CPUs -> 0 .. Uint32Max]
      /\ Busy \in [CPUs -> {"Zero", "Released", "Acquired"}]
      /\ target \in [CPUs -> CPUs] /\ index \in [CPUs -> 1 .. NumberOfCpus]
      /\ pc[b] \in ActivePcs => PhaseInv(b, d)
      /\ pc[b] \in ActivePcs => (InsideSmm <=> pc[b] \in InsidePcs)
      /\ pc[b] \in ActivePcs /\ pc[c] \in ActivePcs => b = c
      /\ CpuInv(c) /\ CpuInv(d) /\ BspInv(b)
  BY InsideIffBspInside, OneBsp DEF IInv, TypeOK, PhasesInv, RoleInv
<1> USE <1>0
    DEF PhaseInv, InPhase, AtHandler, Engaged, Returned, Chosen, LeftPcs, ArrivedPcs,
        CpuInv, BspInv, Goto, cpuData, locals
<1>1. CASE Arrive(c)
  <2>1. pc[b] \in LockedPcs => Counter = Uint32Max
    BY DEF IInv, CounterInv
  <2>2. QED
    BY <1>1, <2>1 DEF Arrive, ReleaseReturns, LetGo
<1>2. CASE Elect(c)
  <2>1. CASE BspIndex' = c
    BY <1>2, <2>1, ElectedAlone, NobodyServed DEF Elect
  <2>2. CASE BspIndex' # c
    BY <1>2, <2>2 DEF Elect, LetGo
  <2>3. QED
    BY <2>1, <2>2
<1>3. CASE EntrySteps(c)
  BY <1>3 DEF EntrySteps, MarkPresent, MarkAbsent, Resume, LetGo
<1>4. CASE GatherSteps(c)
  BY <1>4 DEF GatherSteps, EnterBsp, BringIn, SyncWithAPs, InSync, LetGo
<1>5. CASE SyncWithAPs(c, "Sync1", "BringIn")
  <2>1. pc[d] # "ResetInSync"
    BY <1>5, SyncEnds
  <2>2. QED
    BY <1>5, <2>1 DEF SyncWithAPs, LetGo
<1>6. CASE LockdownSemaphore(c)
  <2>1. pc[d] \notin {"ApGiveUp", "MarkAbsent"}
    BY <1>6 DEF LockdownSemaphore, Passed, Premise
  <2>2. QED
    BY <1>6, <2>1 DEF LockdownSemaphore, LetGo
<1>7. CASE BspMtrrSteps(c)
  BY <1>7 DEF BspMtrrSteps, BackupMtrrs, ReplaceOSMtrrs, RestoreMtrrs, LetGo
<1>8. CASE CoreSteps(c)
  <2>1. CASE AcquireOwnBusy(c) \/ Block(c)
    BY <2>1 DEF AcquireOwnBusy, Block, LetGo
  <2>2. ASSUME NEW t \in CPUs, SmmStartupThisAp(c, t)
        PROVE  PhaseInv(b, d)'
    <3>1. d = t => pc[d] # "ApInitBusy" /\ pc[d] \notin Gone
      BY <2>2 DEF SmmStartupThisAp, Passed, Premise
    <3>2. QED
      BY <2>2, <3>1 DEF SmmStartupThisAp, LetGo
  <2>3. CASE Schedule(c)
    <3>1. BlockStartup /\ Released(0) = 1
      BY <2>3, Numbers DEF Schedule, Premise, IInv, RoleInv, TypeOK, Released
    <3>2. QED
      BY <2>3, <3>1 DEF Schedule, ReleaseRun, LetGo
  <2>4. CASE LeaveCore(c)
    <3>1. ~(d >= NumberOfCpus)
      BY Numbers
    <3>2. QED
      BY <2>4, <3>1 DEF LeaveCore, LetGo
  <2>5. QED
    BY <1>8, <2>1, <2>2, <2>3, <2>4 DEF CoreSteps
<1>9. CASE ResetSteps(c)
  BY <1>9 DEF ResetSteps, ResetBspIndex, ResetCounter, ResetInSync, LetGo
<1>10. CASE SyncSteps(c)
  BY <1>10 DEF SyncSteps, EnterAp, ApBringIn, SyncWithBsp, ApDecide, LetGo
<1>11. CASE ApGiveUp(c)
  BY <1>11 DEF ApGiveUp, LetGo
<1>12. CASE ApMtrrSteps(c)
  BY <1>12 DEF ApMtrrSteps, BackupMtrrs, ReplaceOSMtrrs, RestoreMtrrs, LetGo
<1>13. CASE LoopSteps(c)
  BY <1>13 DEF LoopSteps, ApInitBusy, ApCheck, ApRun, ApReleaseBusy, LetGo
<1>14. CASE ReportSteps(c)
  <2>1. \A x \in CPUs : x # BspIndex => Run'[x] = Run[x]
    BY <1>14 DEF ReportSteps, ReportTo, ReleaseRun
  <2>2. QED
    BY <1>14, <2>1 DEF ReportSteps, ReportTo, LetGo
<1>15. CASE ApWaitSteps(c)
  BY <1>15 DEF ApWaitSteps, ApWaitRun, WaitRun, CanWait, Waited, LetGo
<1>16. CASE ReleaseSteps(c)
  BY <1>16, ReleaseStep DEF ReleaseSteps
<1>17. CASE BspWaitSteps(c)
  <2>1. ~(d >= NumberOfCpus)
    BY Numbers
  <2>2. QED
    BY <1>17, <2>1, BspWaitStep DEF AfterWait, Unreported, LetGo
<1>18. QED
  BY <1>1, <1>2, <1>3, <1>4, <1>5, <1>6, <1>7, <1>8, <1>9, <1>10, <1>11, <1>12, <1>13,
     <1>14, <1>15, <1>16, <1>17, StepKinds
------------------------------------------------------------------------------
(***************************************************************************)
(* Counting.  Each report moves one CPU out of ToReport; arriving, giving  *)
(* up and the last report move one in or out of Counted.                   *)
(***************************************************************************)
\* Taking one CPU out of a set of CPUs, or putting one in.
LEMMA OneCpu ==
  ASSUME NEW S \in SUBSET CPUs, NEW c \in CPUs
  PROVE  /\ c \in S => Cardinality(S \ {c}) = Cardinality(S) - 1 /\ Cardinality(S) >= 1
         /\ c \notin S => Cardinality(S \union {c}) = Cardinality(S) + 1
         /\ Cardinality(S) \in Nat /\ Cardinality(S) <= NumberOfCpus
<1>1. IsFiniteSet(S) /\ Cardinality(S) \in Nat
  BY CpusFinite
<1>2. c \notin S => Cardinality(S \union {c}) = Cardinality(S) + 1
  BY <1>1, FS_AddElement
<1>3. c \in S => Cardinality(S \ {c}) = Cardinality(S) - 1
  BY <1>1, FS_RemoveElement
<1>4. c \in S => Cardinality(S) >= 1
  <2>1. c \in S => Cardinality(S \ {c}) \in Nat
    BY CpusFinite
  <2>2. QED
    BY <1>1, <1>3, <2>1
<1>5. Cardinality(S) <= NumberOfCpus
  BY CpusFinite, FS_Subset
<1>6. QED
  BY <1>1, <1>2, <1>3, <1>4, <1>5

\* Steps that keep Counter keep its meaning, if they neither lock it nor change
\* who is counted, or if it stays locked.
LEMMA CounterLeftAlone ==
  ASSUME IInv, NEW c \in CPUs, UNCHANGED Counter, pc' = [pc EXCEPT ![c] = pc'[c]],
         pc'[c] \in LockedPcs <=> pc[c] \in LockedPcs,
         \/ pc'[c] \in UncountedPcs <=> pc[c] \in UncountedPcs
         \/ \E b \in CPUs \ {c} : pc[b] \in LockedPcs
  PROVE  CounterInv'
<1>0. pc \in [CPUs -> PcLabels]
  BY PcTyped
<1>1. \A b \in CPUs : pc'[b] \in LockedPcs <=> pc[b] \in LockedPcs
  BY <1>0
<1>2. CASE \E b \in CPUs : pc[b] \in LockedPcs
  BY <1>1, <1>2 DEF IInv, CounterInv
<1>3. CASE \A b \in CPUs : pc[b] \notin LockedPcs
  <2>1. Counted' = Counted
    BY <1>0, <1>3 DEF Counted
  <2>2. QED
    BY <1>1, <1>3, <2>1 DEF IInv, CounterInv
<1>4. QED
  BY <1>2, <1>3

\* Counter keeps its meaning in every step.
LEMMA CounterStep ==
  ASSUME IInv, Premise, NEW c \in CPUs, SmiRendezvous(c)
  PROVE  CounterInv'
<1>0. pc \in [CPUs -> PcLabels]
  BY PcTyped
<1> USE DEF Goto, ucData, locals
<1>1. CASE Arrive(c)
  <2>1. CASE \E b \in CPUs : pc[b] \in LockedPcs
    <3>1. Counter = Uint32Max
      BY <2>1 DEF IInv, CounterInv
    <3>2. QED
      BY <1>0, <1>1, <3>1, CounterLeftAlone DEF Arrive, Released, ReleaseReturns
  <2>2. CASE \A b \in CPUs : pc[b] \notin LockedPcs
    <3>1. Counter = Cardinality(Counted) /\ Counted \subseteq CPUs /\ c \notin Counted
      BY <1>1, <2>2 DEF IInv, CounterInv, Counted, Arrive
    <3>2. Counter \in Nat /\ Counter < Uint32Max
      <4>1. Counter \in Nat /\ Counter <= NumberOfCpus
        BY <3>1, OneCpu
      <4>2. QED
        BY <4>1, Numbers
    <3>3. Counter' = Counter + 1 /\ pc' = [pc EXCEPT ![c] = "MarkPresent"]
      BY <1>1, <3>2 DEF Arrive, Released, ReleaseReturns
    <3>4. Counted' = Counted \union {c} /\ \A b \in CPUs : pc'[b] \notin LockedPcs
      BY <1>0, <2>2, <3>3 DEF Counted
    <3>5. QED
      BY <3>1, <3>3, <3>4, OneCpu DEF CounterInv
  <2>3. QED
    BY <2>1, <2>2
<1>2. CASE ApGiveUp(c)
  <2>1. pc[c] = "ApGiveUp" /\ pc' = [pc EXCEPT ![c] = "MarkAbsent"] /\ Counter' = Counter - 1
    BY <1>2 DEF ApGiveUp, Waited
  <2>2. \A b \in CPUs : pc[b] \notin LockedPcs
    <3>1. SUFFICES ASSUME NEW b \in CPUs, pc[b] \in LockedPcs PROVE FALSE
      OBVIOUS
    <3>2. PhaseInv(b, c)
      BY <2>1, <3>1 DEF IInv, PhasesInv
    <3>3. QED
      BY <2>1, <3>1, <3>2
         DEF PhaseInv, InPhase, AtHandler, Chosen, Engaged, Returned, ArrivedPcs, LeftPcs
  <2>3. Counter = Cardinality(Counted) /\ Counted \subseteq CPUs /\ c \in Counted
    BY <2>1, <2>2 DEF IInv, CounterInv, Counted
  <2>4. Counted' = Counted \ {c} /\ \A b \in CPUs : pc'[b] \notin LockedPcs
    BY <1>0, <2>1, <2>2 DEF Counted
  <2>5. QED
    BY <2>1, <2>3, <2>4, OneCpu DEF CounterInv
<1>3. CASE LockdownSemaphore(c)
  BY <1>0, <1>3 DEF LockdownSemaphore, CounterInv
<1>4. CASE ResetCounter(c)
  <2>1. \A d \in CPUs \ {c} : pc[d] \in Gone \union {"MarkAbsent"}
    BY <1>4 DEF ResetCounter, IInv, PhasesInv, PhaseInv
  <2>2. Counted' = {} /\ \A b \in CPUs : pc'[b] \notin LockedPcs
    BY <1>0, <1>4, <2>1 DEF ResetCounter, Counted
  <2>3. QED
    BY <1>4, <2>2, FS_EmptySet DEF ResetCounter, CounterInv
<1>5. CASE ReportSteps(c)
  <2>1. pc'[c] = "MarkAbsent" => \E b \in CPUs \ {c} : pc[b] \in LockedPcs
    <3>1. SUFFICES ASSUME pc'[c] = "MarkAbsent" PROVE \E b \in CPUs \ {c} : pc[b] \in LockedPcs
      OBVIOUS
    <3>2. pc[c] \in {"ApLeave", "ApRestored"}
      BY <1>0, <1>5, <3>1 DEF ReportSteps, ReportTo
    <3>3. /\ BspIndex \in CPUs \ {c} /\ pc[BspIndex] \in ServingPcs
          /\ PhaseInv(BspIndex, c)
      BY <3>2 DEF IInv, RoleInv, CpuInv, PhasesInv
    <3>4. QED
      BY <3>2, <3>3 DEF PhaseInv, ArrivedPcs
  <2>2. QED
    BY <1>0, <1>5, <2>1, CounterLeftAlone DEF ReportSteps, ReportTo
<1>6. CASE Elect(c) \/ EntrySteps(c) \/ SyncSteps(c) \/ ApWaitSteps(c) \/ ApMtrrSteps(c) \/ LoopSteps(c)
  BY <1>0, <1>6, CounterLeftAlone
     DEF Elect, EntrySteps, MarkPresent, MarkAbsent, Resume, SyncSteps, EnterAp, SyncWithBsp,
         ApBringIn, ApDecide, ApWaitSteps, ApWaitRun, ApMtrrSteps, BackupMtrrs,
         ReplaceOSMtrrs, RestoreMtrrs, LoopSteps, ApInitBusy, ApCheck, ApRun, ApReleaseBusy
<1>7. CASE GatherSteps(c) \/ SyncWithAPs(c, "Sync1", "BringIn") \/ BspMtrrSteps(c) \/ CoreSteps(c)
           \/ ResetBspIndex(c) \/ ResetInSync(c)
  BY <1>0, <1>7, CounterLeftAlone
     DEF GatherSteps, EnterBsp, SyncWithAPs, BringIn, InSync, BspMtrrSteps, BackupMtrrs,
         ReplaceOSMtrrs, RestoreMtrrs, CoreSteps, AcquireOwnBusy, SmmStartupThisAp,
         Schedule, Block, LeaveCore, ResetBspIndex, ResetInSync
<1>8. CASE BspWaitSteps(c)
  BY <1>0, <1>8, BspWaitStep, CounterLeftAlone DEF AfterWait
<1>9. CASE ReleaseSteps(c)
  BY <1>0, <1>9, ReleaseStep, CounterLeftAlone DEF ReleaseSteps
<1>10. QED
  BY <1>1, <1>2, <1>3, <1>4, <1>5, <1>6, <1>7, <1>8, <1>9, StepKinds DEF ResetSteps

\* A step that moves neither b's counts nor who has to report to it keeps the equations.
LEMMA ReportsLeftAlone ==
  ASSUME IInv, NEW b \in CPUs,
         pc'[b] \in ServingPcs \/ pc'[b] = pc[b],
         pc[b] \in ServingPcs <=> pc'[b] \in ServingPcs,
         pc[b] \in Gathering <=> pc'[b] \in Gathering,
         pc[b] \in LastPhase => pc'[b] \in LastPhase,
         pc'[b] \in BspWaits => pc[b] \in BspWaits \/ left[b] = apCount[b],
         pc'[b] \in ServingPcs \ (Gathering \union BspWaits) => pc[b] \notin BspWaits,
         UNCHANGED <<Run[b], left[b], apCount[b], ToReport(b)>>,
         pc[b] \in Gathering => UNCHANGED Counter,
         pc'[b] \in ServingPcs \ (Gathering \union LastPhase) => UNCHANGED (Counted \ {b})
  PROVE  ReportInv(b)'
BY DEF IInv, ReportsInv, ReportInv, LastPhase

\* The tokens on Run[b] and the APs still to report make up what b waits for, after
\* every step: a report is one of each, and a phase starts with everybody still to report.
LEMMA ReportStep ==
  ASSUME IInv, Premise, NEW c \in CPUs, SmiRendezvous(c)
  PROVE  ReportsInv'
<1> SUFFICES ASSUME NEW b \in CPUs, pc'[b] \in ServingPcs
             PROVE  ReportInv(b)'
  BY DEF ReportsInv, ReportInv
<1>0. /\ pc \in [CPUs -> PcLabels] /\ Run \in [CPUs -> 0 .. Uint32Max]
      /\ left \in [CPUs -> 0 .. Uint32Max] /\ apCount \in [CPUs -> 0 .. Uint32Max]
      /\ Counter \in 0 .. Uint32Max
      /\ pc[b] \in ServingPcs /\ pc[c] \in ActivePcs => b = c
      /\ pc[b] \in ServingPcs /\ c # b => PhaseInv(b, c)
      /\ ReportInv(b) /\ CpuInv(c) /\ BspInv(b)
  BY OneBsp DEF IInv, TypeOK, PhasesInv, ReportsInv, RoleInv
<1>a. ToReport(b) \subseteq CPUs /\ Counted \subseteq CPUs /\ Counted \ {b} \subseteq CPUs
  BY DEF ToReport, Counted
<1> USE DEF Goto, ucData, cpuData, locals
<1>1. CASE EntrySteps(c) \/ SyncSteps(c) \/ ApMtrrSteps(c) \/ LoopSteps(c)
  <2>1. /\ pc' = [pc EXCEPT ![c] = pc'[c]] /\ UNCHANGED <<Run, left, apCount, Counter>>
        /\ pc'[c] \in UncountedPcs <=> pc[c] \in UncountedPcs
        /\ pc[c] \notin BspPcs /\ pc'[c] \notin BspPcs
    BY <1>0, <1>1 DEF EntrySteps, MarkPresent, MarkAbsent, Resume, SyncSteps, EnterAp,
       SyncWithBsp, ApBringIn, ApDecide, ApMtrrSteps, BackupMtrrs, ReplaceOSMtrrs,
       RestoreMtrrs, LoopSteps, ApInitBusy, ApCheck, ApRun, ApReleaseBusy
  <2>2. pc'[c] \in Unreported(pc[b]) <=> pc[c] \in Unreported(pc[b])
    BY <1>0, <1>1, <2>1 DEF EntrySteps, MarkPresent, MarkAbsent, Resume, SyncSteps, EnterAp,
       SyncWithBsp, ApBringIn, ApDecide, ApMtrrSteps, BackupMtrrs, ReplaceOSMtrrs,
       RestoreMtrrs, LoopSteps, ApInitBusy, ApCheck, ApRun, ApReleaseBusy, Unreported
  <2>3. UNCHANGED <<pc[b], ToReport(b), Counted \ {b}>>
    BY <1>0, <2>1, <2>2 DEF ToReport, Counted
  <2>4. QED
    BY <2>1, <2>3, ReportsLeftAlone
<1>2. CASE Elect(c)
  <2>1. CASE BspIndex' # c
    <3>1. pc[c] = "Elect" /\ pc' = [pc EXCEPT ![c] = "EnterAp"] /\ UNCHANGED <<Run, left, apCount, Counter>>
      BY <1>2, <2>1 DEF Elect
    <3>2. UNCHANGED <<pc[b], ToReport(b), Counted \ {b}>>
      BY <1>0, <3>1 DEF ToReport, Counted, Unreported
    <3>3. QED
      BY <3>1, <3>2, ReportsLeftAlone
  <2>2. CASE BspIndex' = c
    <3>1. /\ \A d \in CPUs : pc[d] \notin ActivePcs
          /\ \A d \in CPUs : Run[d] = 0 /\ pc[d] \in UncountedPcs \union Arriving
      BY <1>2, <2>2, ElectedAlone, NobodyServed
    <3>2. pc[c] = "Elect" /\ pc' = [pc EXCEPT ![c] = "EnterBsp"] /\ UNCHANGED <<Run, Counter>> /\ b = c
      BY <1>0, <1>2, <2>2, <3>1 DEF Elect
    <3>3. Counter = Cardinality(Counted)
      BY <3>1 DEF IInv, CounterInv
    <3>4. ToReport(c)' = Counted \ {c} /\ c \in Counted
      BY <1>0, <3>1, <3>2 DEF ToReport, Counted, Unreported
    <3>5. Cardinality(Counted \ {c}) = Cardinality(Counted) - 1 /\ Cardinality(Counted) \in Nat
      BY <1>a, <3>4, OneCpu
    <3>6. QED
      BY <1>0, <3>1, <3>2, <3>3, <3>4, <3>5 DEF ReportInv
  <2>3. QED
    BY <2>1, <2>2
<1>3. CASE Arrive(c)
  <2>1. pc[c] = "Enter" /\ c # b /\ UNCHANGED <<Run, left, apCount>> /\ pc'[b] = pc[b]
    BY <1>0, <1>1, <1>3 DEF Arrive
  <2>2. CASE pc[b] \in LockedPcs
    <3>1. Counter = Uint32Max
      BY <2>2 DEF IInv, CounterInv
    <3>2. pc' = [pc EXCEPT ![c] = "Exit"]
      BY <1>3, <3>1 DEF Arrive, ReleaseReturns
    <3>3. UNCHANGED <<ToReport(b), Counted \ {b}>>
      BY <1>0, <2>1, <3>2 DEF ToReport, Counted, Unreported
    <3>4. QED
      BY <2>1, <2>2, <3>3, ReportsLeftAlone
  <2>3. CASE pc[b] \in Gathering
    <3>1. \A d \in CPUs : pc[d] \notin LockedPcs
      BY <2>3, OneBsp
    <3>2. Counter = Cardinality(Counted) /\ Counter \in Nat /\ Counter <= NumberOfCpus
      BY <1>a, <3>1, OneCpu DEF IInv, CounterInv
    <3>3. Counter < Uint32Max
      BY <3>2, Numbers
    <3>4. Counter' = Counter + 1 /\ pc' = [pc EXCEPT ![c] = "MarkPresent"]
      BY <1>3, <3>2, <3>3 DEF Arrive, Released, ReleaseReturns
    <3>5. ToReport(b)' = ToReport(b) \union {c} /\ c \notin ToReport(b)
      BY <1>0, <2>1, <2>3, <3>4 DEF ToReport, Unreported
    <3>6. Cardinality(ToReport(b)') = Cardinality(ToReport(b)) + 1 /\ Cardinality(ToReport(b)) \in Nat
      BY <1>a, <3>5, OneCpu
    <3>7. QED
      BY <1>0, <2>1, <2>3, <3>2, <3>4, <3>6 DEF ReportInv
  <2>4. QED
    BY <2>1, <2>2, <2>3
<1>4. CASE ApGiveUp(c)
  <2>1. /\ pc[c] = "ApGiveUp" /\ pc' = [pc EXCEPT ![c] = "MarkAbsent"]
        /\ Counter' = Counter - 1 /\ UNCHANGED <<Run, left, apCount>>
    BY <1>4 DEF ApGiveUp, Waited
  <2>2. pc'[b] = pc[b] /\ c # b
    BY <1>0, <2>1
  <2>3. pc[b] \in Gathering
    BY <1>0, <2>1, <2>2
       DEF PhaseInv, InPhase, AtHandler, Chosen, Engaged, Returned, ArrivedPcs, LeftPcs
  <2>4. ToReport(b)' = ToReport(b) \ {c} /\ c \in ToReport(b)
    BY <1>0, <2>1, <2>2, <2>3 DEF ToReport, Unreported
  <2>5. Cardinality(ToReport(b)') = Cardinality(ToReport(b)) - 1 /\ Cardinality(ToReport(b)) \in Nat
    BY <1>a, <2>4, OneCpu
  <2>6. QED
    BY <1>0, <2>1, <2>2, <2>3, <2>5 DEF ReportInv
<1>5. CASE ReportSteps(c)
  <2>1. /\ pc' = [pc EXCEPT ![c] = pc'[c]] /\ UNCHANGED <<left, apCount, Counter>>
        /\ pc[c] \in ServedPcs /\ pc'[c] \notin BspPcs /\ c # b
    BY <1>0, <1>5 DEF ReportSteps, ReportTo
  <2>2. pc'[b] = pc[b] /\ BspIndex = b /\ apBsp[c] = b
    BY <1>0, <2>1 DEF BspInv, CpuInv
  <2>3. /\ pc[c] \in Unreported(pc[b]) /\ pc'[c] \notin Unreported(pc[b])
        /\ pc'[c] = "MarkAbsent" => pc[b] \in LastPhase
    BY <1>0, <1>5, <2>1, <2>2
       DEF ReportSteps, ReportTo, Unreported, PhaseInv, InPhase, AtHandler, Chosen, Engaged,
           Returned, LeftPcs, ArrivedPcs, LastPhase, BspInv
  <2>4. ToReport(b)' = ToReport(b) \ {c} /\ c \in ToReport(b)
    BY <1>0, <2>1, <2>2, <2>3 DEF ToReport
  <2>5. /\ Cardinality(ToReport(b)') = Cardinality(ToReport(b)) - 1
        /\ Cardinality(ToReport(b)) \in Nat /\ Cardinality(ToReport(b)) >= 1
    BY <1>a, <2>4, OneCpu
  <2>6. Run[b] < Uint32Max
    BY <1>0, <2>2, <2>5, Numbers DEF ReportInv
  <2>7. Run'[b] = Run[b] + 1
    BY <1>0, <1>5, <2>2, <2>6 DEF ReportSteps, ReportTo, ReleaseRun, Released
  <2>8. pc[b] \notin LastPhase => UNCHANGED (Counted \ {b})
    <3>1. pc[b] \notin LastPhase => pc'[c] \notin UncountedPcs
      BY <1>0, <1>5, <2>1, <2>3 DEF ReportSteps, ReportTo
    <3>2. QED
      BY <1>0, <2>1, <3>1 DEF Counted
  <2>9. Run'[b] + Cardinality(ToReport(b)') = Run[b] + Cardinality(ToReport(b))
    BY <1>0, <2>5, <2>7
  <2>10. UNCHANGED <<left[b], apCount[b], Counter, pc[b]>>
    BY <2>1, <2>2
  <2>11. QED
    BY <1>0, <2>8, <2>9, <2>10 DEF ReportInv, LastPhase
<1>6. CASE ApWaitSteps(c)
  <2>1. /\ pc' = [pc EXCEPT ![c] = pc'[c]] /\ UNCHANGED <<left, apCount, Counter>>
        /\ \A d \in CPUs \ {c} : Run'[d] = Run[d]
        /\ pc'[c] \notin UncountedPcs /\ pc[c] \notin UncountedPcs
        /\ pc[c] \notin BspPcs /\ pc'[c] \notin BspPcs
    BY <1>0, <1>6 DEF ApWaitSteps, ApWaitRun, WaitRun
  <2>2. pc'[c] \in Unreported(pc[b]) <=> pc[c] \in Unreported(pc[b])
    <3>1. c # b /\ pc'[b] = pc[b] /\ CanWait(Run[c])
      BY <1>0, <1>6, <2>1 DEF ApWaitSteps, ApWaitRun, WaitRun
    <3>2. QED
      BY <1>0, <1>6, <2>1, <3>1
       DEF ApWaitSteps, ApWaitRun, CanWait, Unreported, PhaseInv, InPhase, ArrivedPcs, LeftPcs
  <2>3. UNCHANGED <<pc[b], Run[b], ToReport(b), Counted \ {b}>>
    BY <1>0, <2>1, <2>2 DEF ToReport, Counted
  <2>4. QED
    BY <2>1, <2>3, ReportsLeftAlone
<1>7. CASE GatherSteps(c) \/ SyncWithAPs(c, "Sync1", "BringIn")
  <2>1. /\ pc' = [pc EXCEPT ![c] = pc'[c]] /\ UNCHANGED <<Run, left, apCount, Counter>>
        /\ pc[c] \in Gathering /\ pc'[c] \in Gathering
    BY <1>0, <1>7 DEF GatherSteps, EnterBsp, SyncWithAPs, BringIn, InSync
  <2>2. c = b
    BY <1>0, <2>1
  <2>3. UNCHANGED <<ToReport(b), Counted \ {b}>>
    BY <1>0, <2>1, <2>2 DEF ToReport, Counted, Unreported
  <2>4. QED
    BY <2>1, <2>2, <2>3, ReportsLeftAlone DEF LastPhase
<1>8. CASE LockdownSemaphore(c)
  <2>1. /\ pc[c] = "Lockdown" /\ pc' = [pc EXCEPT ![c] = "WaitArrive"] /\ UNCHANGED Run
        /\ apCount' = [apCount EXCEPT ![c] = Counter - 1]
        /\ left' = [left EXCEPT ![c] = Counter - 1]
    BY <1>8 DEF LockdownSemaphore
  <2>2. c = b
    BY <1>0, <2>1
  <2>3. Counter = Cardinality(Counted)
    BY <2>1, OneBsp DEF IInv, CounterInv
  <2>4. /\ ToReport(b)' = ToReport(b) /\ (Counted \ {b})' = Counted \ {b} /\ b \in Counted
    BY <1>0, <2>1, <2>2 DEF ToReport, Counted, Unreported
  <2>5. Cardinality(Counted \ {b}) = Counter - 1 /\ Counter \in Nat
    BY <1>a, <2>3, <2>4, OneCpu
  <2>6. Cardinality(ToReport(b)) \in Nat
    BY <1>a, OneCpu
  <2>7. Run[b] + Cardinality(ToReport(b)) = Counter - 1
    BY <1>0, <2>1, <2>2, <2>5, <2>6 DEF ReportInv
  <2>8. pc'[b] = "WaitArrive" /\ left'[b] = Counter - 1 /\ apCount'[b] = Counter - 1
    BY <1>0, <2>1, <2>2
  <2>9. QED
    BY <2>1, <2>4, <2>5, <2>7, <2>8 DEF ReportInv, LastPhase
<1>9. CASE BspMtrrSteps(c) \/ CoreSteps(c)
  <2>1. /\ pc' = [pc EXCEPT ![c] = pc'[c]] /\ UNCHANGED <<left, apCount, Counter>>
        /\ pc[c] \in ServingPcs /\ pc'[c] \in ServingPcs
        /\ pc[c] \notin BspWaits /\ pc[c] \notin Gathering /\ pc'[c] \notin Gathering
        /\ pc[c] \in LastPhase => pc'[c] \in LastPhase
        /\ Unreported(pc'[c]) = Unreported(pc[c])
    BY <1>0, <1>9 DEF BspMtrrSteps, BackupMtrrs, ReplaceOSMtrrs, RestoreMtrrs, CoreSteps,
       AcquireOwnBusy, SmmStartupThisAp, Schedule, Block, LeaveCore, LastPhase, Unreported
  <2>2. c = b
    BY <1>0, <2>1
  <2>3. Run'[b] = Run[b]
    BY <1>0, <1>9, <2>2 DEF BspMtrrSteps, BackupMtrrs, ReplaceOSMtrrs, RestoreMtrrs,
       CoreSteps, AcquireOwnBusy, SmmStartupThisAp, Schedule, Block, LeaveCore, ReleaseRun,
       BspInv
  <2>4. UNCHANGED <<ToReport(b), Counted \ {b}>>
    BY <1>0, <2>1, <2>2 DEF ToReport, Counted
  <2>5. left[b] = apCount[b]
    BY <1>0, <2>1, <2>2 DEF ReportInv
  <2>6. QED
    BY <2>1, <2>2, <2>3, <2>4, <2>5, ReportsLeftAlone
<1>10. CASE ReleaseSteps(c)
  <2>1. /\ pc' = [pc EXCEPT ![c] = pc'[c]] /\ UNCHANGED <<left, apCount, Counter>>
        /\ Run'[c] = Run[c]
        /\ pc[c] \in ReleasePcs /\ pc'[c] \in ServingPcs \ Gathering
        /\ pc[c] \in LastPhase => pc'[c] \in LastPhase
        /\ Unreported(pc'[c]) = Unreported(pc[c])
    BY <1>0, <1>10, ReleaseStep DEF ReleaseSteps, LastPhase, Unreported
  <2>2. c = b
    BY <1>0, <2>1
  <2>3. UNCHANGED <<ToReport(b), Counted \ {b}>>
    BY <1>0, <2>1, <2>2 DEF ToReport, Counted
  <2>4. left[b] = apCount[b]
    BY <1>0, <2>1, <2>2 DEF ReportInv
  <2>5. QED
    BY <2>1, <2>2, <2>3, <2>4, ReportsLeftAlone
<1>11. CASE BspWaitSteps(c)
  <2>1. pc[c] \in BspWaits /\ pc' = [pc EXCEPT ![c] = pc'[c]] /\ UNCHANGED apCount
    BY <1>11, BspWaitStep
  <2>2. c = b
    BY <1>0, <2>1
  <2>3. CASE pc' = pc /\ Run'[c] = Run[c] - 1 /\ left'[c] = left[c] - 1 /\ left[c] > 1
    <3>1. UNCHANGED <<ToReport(b), Counted \ {b}>>
      BY <2>3 DEF ToReport, Counted
    <3>2. Cardinality(ToReport(b)) \in Nat
      BY <1>a, OneCpu
    <3>3. Run'[b] + Cardinality(ToReport(b)) = left'[b] /\ left'[b] # 0
      BY <1>0, <2>1, <2>2, <2>3, <3>2 DEF ReportInv
    <3>4. QED
      BY <1>0, <2>1, <2>2, <2>3, <3>1, <3>3 DEF ReportInv, LastPhase
  <2>4. CASE /\ pc'[c] = AfterWait(pc[c]) /\ Run'[c] = 0 /\ left'[c] = apCount[c]
             /\ \A d \in CPUs \ {c} : pc[d] \notin Unreported(pc[c])
    <3>1. \A d \in CPUs \ {c} : PhaseInv(c, d) /\ pc[d] \notin Unreported(pc[c])
      BY <2>1, <2>4 DEF IInv, PhasesInv
    <3>2. pc'[c] # "ResetBspIndex"
      BY <2>2
    <3>3. \A d \in CPUs \ {c} : pc[d] \in Gone \union Unreported(AfterWait(pc[c]))
      BY <1>0, <2>1, <2>2, <2>4, <3>1, <3>2
         DEF PhaseInv, InPhase, Unreported, AfterWait, LeftPcs, ArrivedPcs, BspInv
    <3>4. Unreported(AfterWait(pc[c])) \intersect UncountedPcs = {}
      BY <2>1 DEF Unreported, AfterWait
    <3>5. ToReport(b)' = Counted \ {b} /\ (Counted \ {b})' = Counted \ {b}
      BY <1>0, <2>1, <2>2, <2>4, <3>3, <3>4 DEF ToReport, Counted
    <3>6. apCount[b] = Cardinality(Counted \ {b})
      BY <1>0, <2>1, <2>2, <2>4, <3>2 DEF ReportInv, LastPhase, AfterWait, BspInv
    <3>7. Cardinality(Counted \ {b}) \in Nat
      BY <1>a, OneCpu
    <3>8. /\ Run'[b] + Cardinality(ToReport(b)') = left'[b] /\ left'[b] = apCount'[b]
          /\ apCount'[b] = Cardinality((Counted \ {b})')
      <4>1. Run'[b] = 0 /\ left'[b] = apCount[b] /\ apCount'[b] = apCount[b]
        BY <2>1, <2>2, <2>4
      <4>2. /\ Cardinality(ToReport(b)') = Cardinality(Counted \ {b})
            /\ Cardinality((Counted \ {b})') = Cardinality(Counted \ {b})
        BY <3>5, Zenon
      <4>3. QED
        BY <3>6, <3>7, <4>1, <4>2
    <3>9. pc'[b] \notin Gathering \union BspWaits
      BY <2>2, <2>4 DEF AfterWait
    <3>10. QED
      BY <3>8, <3>9 DEF ReportInv
  <2>5. QED
    BY <1>11, <2>3, <2>4, BspWaitStep
<1>12. CASE ResetSteps(c)
  <2>1. /\ pc' = [pc EXCEPT ![c] = pc'[c]] /\ UNCHANGED <<Run, left, apCount>>
        /\ pc[c] \in ResetPcs \union {"ResetInSync"} /\ pc'[c] \notin ServingPcs
    BY <1>0, <1>12 DEF ResetSteps, ResetBspIndex, ResetCounter, ResetInSync
  <2>2. c # b /\ pc[b] = pc'[b] /\ pc[c] = "ResetInSync"
    BY <1>0, <2>1
  <2>3. pc'[c] = "MarkAbsent" /\ UNCHANGED Counter
    BY <1>0, <1>12, <2>2 DEF ResetSteps, ResetBspIndex, ResetCounter, ResetInSync
  <2>4. UNCHANGED <<ToReport(b), Counted \ {b}>>
    BY <1>0, <2>1, <2>2, <2>3 DEF ToReport, Counted, Unreported
  <2>5. QED
    BY <2>1, <2>2, <2>3, <2>4, ReportsLeftAlone
<1>13. QED
  BY <1>1, <1>2, <1>3, <1>4, <1>5, <1>6, <1>7, <1>8, <1>9, <1>10, <1>11, <1>12, StepKinds
------------------------------------------------------------------------------
(***************************************************************************)
(* The MTRRs.                                                              *)
(***************************************************************************)
\* A step that leaves the MTRRs alone: it starts no replacement, and a CPU that
\* has replaced them stays responsible for restoring them.
MtrrEdge(c) ==
  /\ pc' = [pc EXCEPT ![c] = pc'[c]]
  /\ UNCHANGED mtrrs
  /\ ConfigureMtrrs /\ pc'[c] \in ReplacedPcs => pc[c] \in ReplacedPcs
  /\ ConfigureMtrrs /\ pc[c] \in ReplacedPcs \union RestoringPcs =>
       pc'[c] \in ReplacedPcs \union RestoringPcs

\* Only the three MTRR routines touch the MTRRs or pass the borders of the interval
\* in which they are replaced.
LEMMA MtrrEdges ==
  ASSUME IInv, NEW c \in CPUs, SmiRendezvous(c), ~BspMtrrSteps(c), ~ApMtrrSteps(c)
  PROVE  MtrrEdge(c)
<1>0. pc \in [CPUs -> PcLabels]
  BY PcTyped
<1> USE DEF MtrrEdge, ReplacedPcs, RestoringPcs, Goto, locals, mtrrs
<1>1. CASE Arrive(c) \/ Elect(c) \/ EntrySteps(c) \/ SyncSteps(c) \/ ApGiveUp(c)
  BY <1>0, <1>1
     DEF Arrive, Elect, EntrySteps, MarkPresent, MarkAbsent, Resume, SyncSteps, EnterAp,
         SyncWithBsp, ApBringIn, ApDecide, ApGiveUp
<1>2. CASE ReportSteps(c) \/ ApWaitSteps(c) \/ LoopSteps(c)
  BY <1>0, <1>2
     DEF ReportSteps, ReportTo, ApWaitSteps, ApWaitRun, LoopSteps, ApInitBusy, ApCheck,
         ApRun, ApReleaseBusy
<1>3. CASE GatherSteps(c) \/ SyncWithAPs(c, "Sync1", "BringIn") \/ LockdownSemaphore(c)
           \/ CoreSteps(c) \/ ResetSteps(c)
  BY <1>0, <1>3
     DEF GatherSteps, EnterBsp, BringIn, SyncWithAPs, InSync, LockdownSemaphore, CoreSteps,
         AcquireOwnBusy, SmmStartupThisAp, Schedule, Block, LeaveCore, ResetSteps,
         ResetBspIndex, ResetCounter, ResetInSync
<1>4. CASE BspWaitSteps(c)
  BY <1>0, <1>4, BspWaitStep DEF AfterWait
<1>5. CASE ReleaseSteps(c)
  BY <1>0, <1>5, ReleaseStep DEF ReleaseSteps
<1>6. QED
  BY <1>1, <1>2, <1>3, <1>4, <1>5, StepKinds

\* A CPU at an MTRR routine is the BSP, or an AP in the phase that its BSP is in.
LEMMA MtrrPhase ==
  ASSUME IInv, NEW c \in CPUs, NEW d \in CPUs
  PROVE  /\ pc[c] \in {"Backup", "ApBackup"} => pc[d] \notin ReplacedPcs \union RestoringPcs
         /\ pc[c] \in {"Restore", "ApRestore"} => pc[d] \notin ReplacedPcs
         /\ pc[c] \in {"Backup", "ApBackup", "Program", "ApProgram", "Restore", "ApRestore"}
              => ConfigureMtrrs
<1> SUFFICES ASSUME pc[c] \in {"Backup", "ApBackup", "Program", "ApProgram", "Restore", "ApRestore"}
             PROVE  /\ pc[c] \in {"Backup", "ApBackup"} => pc[d] \notin ReplacedPcs \union RestoringPcs
                    /\ pc[c] \in {"Restore", "ApRestore"} => pc[d] \notin ReplacedPcs
                    /\ ConfigureMtrrs
  OBVIOUS
<1>1. PICK b \in CPUs : /\ pc[b] \in ServingPcs
                        /\ b = c \/ pc[c] \in {"ApBackup", "ApProgram", "ApRestore"}
  BY DEF IInv, RoleInv, CpuInv
<1>2. /\ c # b => PhaseInv(b, c)
      /\ d # b => PhaseInv(b, d)
      /\ BspInv(b)
  BY <1>1 DEF IInv, PhasesInv, RoleInv
<1>3. ConfigureMtrrs
  BY <1>1, <1>2 DEF BspInv, PhaseInv, InPhase, AtHandler, Chosen, Engaged, Returned,
     ArrivedPcs, LeftPcs
<1>4. CASE pc[c] \in {"Backup", "ApBackup"}
  <2>1. pc[b] \in BackupPcs
    BY <1>1, <1>2, <1>3, <1>4 DEF PhaseInv, InPhase, AtHandler, Chosen, Engaged, Returned,
       ArrivedPcs, LeftPcs
  <2>2. QED
    BY <1>2, <1>3, <1>4, <2>1 DEF PhaseInv, InPhase, ReplacedPcs, RestoringPcs
<1>5. CASE pc[c] \in {"Restore", "ApRestore"}
  <2>1. pc[b] \in RestorePcs
    BY <1>1, <1>2, <1>3, <1>5 DEF PhaseInv, InPhase, AtHandler, Chosen, Engaged, Returned,
       ArrivedPcs, LeftPcs
  <2>2. QED
    BY <1>2, <1>3, <1>5, <2>1 DEF PhaseInv, InPhase, ReplacedPcs, RestoringPcs
<1>6. QED
  BY <1>3, <1>4, <1>5

\* The MTRRs are replaced between the first thread that programs them and the
\* first that restores them, after every step.
LEMMA MtrrStep ==
  ASSUME IInv, NEW c \in CPUs, SmiRendezvous(c)
  PROVE  MtrrInv'
<1>0. /\ pc \in [CPUs -> PcLabels] /\ MtrrInv
      /\ mtrr \in [CPUs -> {"Os", "Smm"}] /\ saved \in [CPUs -> {"Os", "Smm"}]
  BY DEF IInv, TypeOK
<1>1. Core(c) \in CPUs
  BY CoreTyped
<1>2. CASE MtrrEdge(c)
  BY <1>0, <1>2 DEF MtrrEdge, MtrrInv, mtrrs
<1>3. CASE BackupMtrrs(c, "Backup", "WaitBackup") \/ BackupMtrrs(c, "ApBackup", "ApBackedUp")
  <2>1. /\ pc' = [pc EXCEPT ![c] = pc'[c]] /\ pc[c] \in {"Backup", "ApBackup"}
        /\ pc'[c] \in {"WaitBackup", "ApBackedUp"}
        /\ saved' = [saved EXCEPT ![c] = mtrr[Core(c)]] /\ UNCHANGED mtrr
    BY <1>0, <1>3 DEF BackupMtrrs, Goto
  <2>2. \A d \in CPUs : pc[d] \notin ReplacedPcs \union RestoringPcs
    BY <2>1, MtrrPhase
  <2>3. mtrr[Core(c)] = "Os"
    BY <1>0, <1>1, <2>2 DEF MtrrInv
  <2>4. QED
    BY <1>0, <2>1, <2>2, <2>3 DEF MtrrInv, ReplacedPcs
<1>4. CASE ReplaceOSMtrrs(c, "Program", "WaitProgram") \/ ReplaceOSMtrrs(c, "ApProgram", "ApProgrammed")
  <2>1. /\ pc' = [pc EXCEPT ![c] = pc'[c]] /\ pc[c] \in {"Program", "ApProgram"}
        /\ pc'[c] \in {"WaitProgram", "ApProgrammed"}
        /\ mtrr' = [mtrr EXCEPT ![Core(c)] = "Smm"] /\ UNCHANGED saved
    BY <1>0, <1>4 DEF ReplaceOSMtrrs, Goto
  <2>2. ConfigureMtrrs
    BY <2>1, MtrrPhase
  <2>3. QED
    BY <1>0, <1>1, <2>1, <2>2 DEF MtrrInv, ReplacedPcs, RestoringPcs
<1>5. CASE RestoreMtrrs(c, "Restore", "WaitRestore") \/ RestoreMtrrs(c, "ApRestore", "ApRestored")
  <2>1. /\ pc' = [pc EXCEPT ![c] = pc'[c]] /\ pc[c] \in {"Restore", "ApRestore"}
        /\ pc'[c] \in {"WaitRestore", "ApRestored"}
        /\ mtrr' = [mtrr EXCEPT ![Core(c)] = saved[c]] /\ UNCHANGED saved
    BY <1>0, <1>5 DEF RestoreMtrrs, Goto
  <2>2. \A d \in CPUs : pc[d] \notin ReplacedPcs
    BY <2>1, MtrrPhase
  <2>3. mtrr'[Core(c)] = "Os"
    BY <1>0, <1>1, <2>1 DEF MtrrInv
  <2>4. \A d \in CPUs : pc'[d] \notin ReplacedPcs
    BY <1>0, <2>1, <2>2 DEF ReplacedPcs
  <2>5. QED
    BY <1>0, <1>1, <2>1, <2>3, <2>4 DEF MtrrInv
<1>6. QED
  BY <1>2, <1>3, <1>4, <1>5, MtrrEdges DEF BspMtrrSteps, ApMtrrSteps
------------------------------------------------------------------------------
(***************************************************************************)
(* The procedures given to SmmStartupThisAp.                               *)
(***************************************************************************)
\* A BSP that is not blocked has no procedure outstanding.
LEMMA NoneOutstanding ==
  ASSUME IInv, NEW b \in CPUs, pc[b] \in ActivePcs,
         pc[b] = "Block" => Busy[target[b]] # "Acquired"
  PROVE  1 .. issued \subseteq done
BY OneBsp DEF IInv, TaskInv, Pending, Engaged

\* A step of an AP that is not woken up, running or about to run leaves the
\* outstanding procedure where it is.
LEMMA TasksLeftAlone ==
  ASSUME IInv, NEW c \in CPUs, pc' = [pc EXCEPT ![c] = pc'[c]],
         UNCHANGED <<Procedure, target, issued, done>>,
         \A d \in CPUs \ {c} : pc[d] \in ApLoop => Run'[d] = Run[d],
         \A d \in CPUs \ {c} : Busy'[d] = Busy[d],
         pc[c] \notin {"Block", "ApWait", "ApCheck", "ApRun"}
  PROVE  TaskInv'
<1>0. pc \in [CPUs -> PcLabels] /\ target \in [CPUs -> CPUs] /\ TaskInv
  BY DEF IInv, TypeOK
<1>1. ASSUME NEW n \in 1 .. issued, NEW b \in CPUs, Pending(b, n)
      PROVE  Pending(b, n)'
  BY <1>0, <1>1 DEF Pending, Engaged
<1>2. QED
  BY <1>0, <1>1 DEF TaskInv

\* A procedure stays outstanding until it has run.
LEMMA TaskStep ==
  ASSUME IInv, Premise, NEW c \in CPUs, SmiRendezvous(c)
  PROVE  TaskInv'
<1>0. /\ pc \in [CPUs -> PcLabels] /\ Run \in [CPUs -> 0 .. Uint32Max]
      /\ target \in [CPUs -> CPUs] /\ Procedure \in [CPUs -> 0 .. MaxTasks]
      /\ Busy \in [CPUs -> {"Zero", "Released", "Acquired"}]
      /\ issued \in Nat /\ TaskInv /\ CpuInv(c) /\ BspInv(c)
  BY DEF IInv, TypeOK, RoleInv
<1> USE DEF Goto, cpuData, locals, tasks
<1>1. CASE /\ pc[c] \in ActivePcs /\ (pc[c] = "Block" => Busy[target[c]] # "Acquired")
           /\ UNCHANGED tasks
  BY <1>1, NoneOutstanding DEF TaskInv
<1>2. CASE GatherSteps(c) \/ SyncWithAPs(c, "Sync1", "BringIn") \/ LockdownSemaphore(c)
           \/ BspMtrrSteps(c) \/ ResetBspIndex(c) \/ ResetCounter(c)
  BY <1>1, <1>2
     DEF GatherSteps, EnterBsp, BringIn, SyncWithAPs, InSync, LockdownSemaphore, BspMtrrSteps,
         BackupMtrrs, ReplaceOSMtrrs, RestoreMtrrs, ResetBspIndex, ResetCounter
<1>3. CASE BspWaitSteps(c) \/ ReleaseSteps(c)
  BY <1>1, <1>3, BspWaitStep, ReleaseStep DEF ReleaseSteps
<1>4. CASE AcquireOwnBusy(c) \/ (\E t \in CPUs : SmmStartupThisAp(c, t)) \/ Block(c) \/ LeaveCore(c)
  BY <1>1, <1>4 DEF AcquireOwnBusy, SmmStartupThisAp, Block, LeaveCore
<1>5. CASE Schedule(c)
  <2>1. /\ pc[c] = "Schedule" /\ issued' = issued + 1 /\ done' = done
        /\ Procedure' = [Procedure EXCEPT ![target[c]] = issued']
        /\ UNCHANGED <<Busy, target>>
    BY <1>5 DEF Schedule
  <2>2. 1 .. issued \subseteq done
    BY <2>1, NoneOutstanding
  <2>3. /\ target[c] \in CPUs \ {c} /\ pc[target[c]] = "ApWait"
        /\ Run[target[c]] = 0 /\ Busy[target[c]] = "Acquired"
    BY <1>0, <2>1 DEF IInv, PhasesInv, PhaseInv, AtHandler, BspInv
  <2>4. BlockStartup /\ Released(0) = 1
    BY <1>0, <2>1, Numbers DEF Premise, BspInv, Released
  <2>5. pc' = [pc EXCEPT ![c] = "Block"] /\ Run'[target[c]] = 1
    BY <1>0, <1>5, <2>3, <2>4 DEF Schedule, ReleaseRun
  <2>6. Pending(c, issued)'
    BY <1>0, <2>1, <2>3, <2>5 DEF Pending, Engaged
  <2>7. QED
    BY <1>0, <2>1, <2>2, <2>6 DEF TaskInv
<1>6. CASE Arrive(c) \/ Elect(c) \/ EntrySteps(c) \/ SyncSteps(c) \/ ApGiveUp(c)
           \/ ApMtrrSteps(c) \/ ResetInSync(c)
  BY <1>0, <1>6, TasksLeftAlone
     DEF Arrive, Elect, EntrySteps, MarkPresent, MarkAbsent, Resume, SyncSteps, EnterAp,
         SyncWithBsp, ApBringIn, ApDecide, ApGiveUp, ApMtrrSteps, BackupMtrrs,
         ReplaceOSMtrrs, RestoreMtrrs, ResetInSync
<1>7. CASE ReportSteps(c)
  <2>1. pc[BspIndex] \in ServingPcs /\ apBsp[c] = BspIndex
    BY <1>0, <1>7 DEF ReportSteps, ReportTo, CpuInv
  <2>2. QED
    BY <1>0, <1>7, <2>1, TasksLeftAlone DEF ReportSteps, ReportTo, ReleaseRun
<1>8. CASE ApInitBusy(c) \/ ApReleaseBusy(c)
  BY <1>0, <1>8, TasksLeftAlone DEF ApInitBusy, ApReleaseBusy
<1>9. CASE ApWaitSteps(c) \/ ApCheck(c) \/ ApRun(c)
  <2>1. \A n \in 1 .. issued : n \in done' \/ \E b \in CPUs : Pending(b, n)'
    <3> SUFFICES ASSUME NEW n \in 1 .. issued, NEW b \in CPUs, Pending(b, n)
                 PROVE  n \in done' \/ Pending(b, n)'
      BY <1>0, <1>9 DEF TaskInv, ApWaitSteps, ApWaitRun, ApCheck, ApRun
    <3>1. InsideSmm /\ pc[c] # "Block" /\ b # c
      BY <1>9, InsideIffBspInside DEF Pending, ApWaitSteps, ApWaitRun, ApCheck, ApRun
    <3>2. CASE ApWaitSteps(c)
      BY <1>0, <3>1, <3>2 DEF Pending, Engaged, ApWaitSteps, ApWaitRun, WaitRun, CanWait, Waited
    <3>3. CASE ApCheck(c)
      BY <1>0, <3>1, <3>3 DEF Pending, Engaged, ApCheck
    <3>4. CASE ApRun(c)
      BY <1>0, <3>1, <3>4 DEF Pending, Engaged, ApRun
    <3>5. QED
      BY <1>9, <3>2, <3>3, <3>4
  <2>2. issued' = issued
    BY <1>9 DEF ApWaitSteps, ApWaitRun, ApCheck, ApRun
  <2>3. QED
    BY <2>1, <2>2 DEF TaskInv
<1>10. QED
  BY <1>2, <1>3, <1>4, <1>5, <1>6, <1>7, <1>8, <1>9, StepKinds
     DEF CoreSteps, ResetSteps, LoopSteps
------------------------------------------------------------------------------
(***************************************************************************)
(* The inductive invariant, and the properties it implies.                 *)
(***************************************************************************)
\* After InitializeUcData every CPU is in the OS and every semaphore is zero.
LEMMA InitIInv == Init => IInv
<1> SUFFICES ASSUME Init PROVE IInv
  OBVIOUS
<1>1. TypeOK
  <2>1. 0 \in 0 .. Uint32Max /\ 0 \in 0 .. MaxTasks /\ 0 \in 0 .. MaxSmi
        /\ NumberOfCpus \in 1 .. NumberOfCpus /\ 0 \in CPUs
    BY Numbers
  <2>2. /\ BspIndex \in CPUs \union {Uint32Max} /\ Counter \in 0 .. Uint32Max
        /\ CurrentlyExecutingCpu \in CPUs /\ InsideSmm \in BOOLEAN /\ AllCpusInSync \in BOOLEAN
        /\ smis \in 0 .. MaxSmi /\ issued \in 0 .. MaxTasks /\ done \subseteq 0 .. MaxTasks
    BY <2>1 DEF Init
  <2>3. /\ Present \in [CPUs -> BOOLEAN] /\ Run \in [CPUs -> 0 .. Uint32Max]
        /\ Busy \in [CPUs -> {"Zero", "Released", "Acquired"}]
        /\ Procedure \in [CPUs -> 0 .. MaxTasks] /\ pc \in [CPUs -> PcLabels]
        /\ smiPending \in [CPUs -> BOOLEAN]
    BY <2>1 DEF Init, PcLabels
  <2>4. /\ apCount \in [CPUs -> 0 .. Uint32Max] /\ left \in [CPUs -> 0 .. Uint32Max]
        /\ index \in [CPUs -> 1 .. NumberOfCpus]
        /\ apBsp \in [CPUs -> CPUs \union {Uint32Max}] /\ target \in [CPUs -> CPUs]
        /\ mtrr \in [CPUs -> {"Os", "Smm"}] /\ saved \in [CPUs -> {"Os", "Smm"}]
    BY <2>1 DEF Init
  <2>5. QED
    BY <2>2, <2>3, <2>4 DEF TypeOK
<1>2. \A c \in CPUs : /\ pc[c] = "Os" /\ Run[c] = 0 /\ Present[c] = FALSE
                      /\ index[c] = NumberOfCpus /\ saved[c] = "Os" /\ mtrr[c] = "Os"
  BY DEF Init
<1>3. RoleInv
  BY <1>2, Numbers DEF Init, RoleInv, IndexInv, CpuInv, BspInv
<1>4. PhasesInv /\ ReportsInv /\ MtrrInv
  BY <1>2 DEF PhasesInv, ReportsInv, ReportInv, MtrrInv, ReplacedPcs
<1>5. CounterInv
  <2>1. Counted = {}
    BY <1>2 DEF Counted
  <2>2. QED
    BY <1>2, <2>1, FS_EmptySet DEF Init, CounterInv
<1>6. TaskInv
  BY DEF Init, TaskInv
<1>7. QED
  BY <1>1, <1>3, <1>4, <1>5, <1>6 DEF IInv

\* Nothing of IInv but TypeOK looks at the SMI latches.
LEMMA SmiLatches ==
  ASSUME IInv, TypeOK', UNCHANGED <<ucData, cpuData, pc, locals, mtrrs, tasks>>
  PROVE  IInv'
<1> USE DEF ucData, cpuData, locals, mtrrs, tasks
<1>1. RoleInv' /\ MtrrInv' /\ TaskInv'
  BY DEF IInv, RoleInv, IndexInv, CpuInv, BspInv, MtrrInv, TaskInv, Pending, Engaged
<1>2. PhasesInv'
  BY DEF IInv, PhasesInv, PhaseInv, InPhase, LetGo, AtHandler, Chosen, Engaged, Returned
<1>3. Counted' = Counted /\ \A b \in CPUs : ToReport(b)' = ToReport(b)
  BY DEF Counted, ToReport
<1>4. CounterInv' /\ ReportsInv'
  BY <1>3 DEF IInv, CounterInv, ReportsInv, ReportInv
<1>5. QED
  BY <1>1, <1>2, <1>4 DEF IInv

\* A CPU that takes an SMI is still outside the rendezvous.
LEMMA TakeSmiStep ==
  ASSUME IInv, NEW c \in CPUs, TakeSmi(c)
  PROVE  IInv'
<1>0. /\ TypeOK /\ pc \in [CPUs -> PcLabels] /\ pc[c] = "Os" /\ pc' = [pc EXCEPT ![c] = "Enter"]
      /\ UNCHANGED <<ucData, cpuData, locals, mtrrs, smis, tasks>>
      /\ smiPending' = [smiPending EXCEPT ![c] = FALSE]
  BY DEF TakeSmi, Goto, IInv, TypeOK
<1> USE DEF ucData, cpuData, locals, mtrrs, tasks
<1>1. TypeOK'
  BY <1>0 DEF TypeOK, PcLabels
<1>2. \A d \in CPUs : pc'[d] = pc[d] \/ (d = c /\ pc[d] = "Os" /\ pc'[d] = "Enter")
  BY <1>0
<1>3. RoleInv'
  BY <1>0, <1>2 DEF IInv, TypeOK, RoleInv, IndexInv, CpuInv, BspInv
<1>4. PhasesInv'
  <2> SUFFICES ASSUME NEW b \in CPUs, pc'[b] \in ActivePcs, NEW d \in CPUs \ {b}
               PROVE  PhaseInv(b, d)'
    BY DEF PhasesInv
  <2>1. pc'[b] = pc[b] /\ PhaseInv(b, d)
    BY <1>2 DEF IInv, PhasesInv
  <2>2. QED
    BY <1>0, <1>2, <2>1
       DEF PhaseInv, InPhase, LetGo, AtHandler, Chosen, Engaged, Returned, ArrivedPcs, LeftPcs
<1>5. CounterInv'
  BY <1>0, CounterLeftAlone
<1>6. ReportsInv'
  <2> SUFFICES ASSUME NEW b \in CPUs, pc'[b] \in ServingPcs
               PROVE  ReportInv(b)'
    BY DEF ReportsInv, ReportInv
  <2>1. UNCHANGED <<pc[b], ToReport(b), Counted \ {b}>>
    BY <1>0, <1>2 DEF ToReport, Counted, Unreported
  <2>2. QED
    BY <1>0, <2>1, ReportsLeftAlone
<1>7. TaskInv'
  BY <1>0, TasksLeftAlone
<1>8. MtrrInv'
  BY <1>0, <1>2 DEF IInv, MtrrInv, ReplacedPcs, RestoringPcs
<1>9. QED
  BY <1>1, <1>3, <1>4, <1>5, <1>6, <1>7, <1>8 DEF IInv

\* The invariant is inductive.
LEMMA NextIInv ==
  ASSUME IInv, Premise, [Next]_vars
  PROVE  IInv'
<1>1. CASE RaiseSmi
  <2>1. TypeOK'
    BY <1>1, Numbers DEF IInv, TypeOK, RaiseSmi, ucData, cpuData, locals, mtrrs, tasks
  <2>2. QED
    BY <1>1, <2>1, SmiLatches DEF RaiseSmi
<1>2. ASSUME NEW c \in CPUs, TakeSmi(c)
      PROVE  IInv'
  BY <1>2, TakeSmiStep
<1>3. ASSUME NEW c \in CPUs, SmiRendezvous(c)
      PROVE  IInv'
  BY <1>3, TypeStep, RoleStep, PhaseStep, CounterStep, ReportStep, TaskStep, MtrrStep DEF IInv
<1>4. CASE UNCHANGED vars
  <2>1. TypeOK'
    BY <1>4 DEF IInv, TypeOK, vars, ucData, cpuData, locals, mtrrs, smi, tasks
  <2>2. QED
    BY <1>4, <2>1, SmiLatches DEF vars
<1>5. QED
  BY <1>1, <1>2, <1>3, <1>4 DEF Next

\* The inductive invariant holds in every reachable state.
THEOREM RendezvousInvariant ==
  ASSUME Premise
  PROVE  Spec => []IInv
<1>1. IInv /\ [Next]_vars => IInv'
  BY NextIInv
<1>2. QED
  BY InitIInv, <1>1, PTL DEF Spec

\* TypeOK for any number of CPUs: no count of the rendezvous leaves UINT32, the
\* BSP's Counter - 1 included, and no index leaves the CPUs.
THEOREM RendezvousTypeCorrect ==
  ASSUME Premise
  PROVE  Spec => []TypeOK
BY RendezvousInvariant, PTL DEF IInv

\* While the BSP is in SmmCoreEntry every other CPU is in APHandler's loop or
\* outside the rendezvous.
THEOREM CoreRunsAloneHolds ==
  ASSUME Premise
  PROVE  Spec => []CoreRunsAlone
<1>1. IInv => CoreRunsAlone
  BY DEF IInv, PhasesInv, PhaseInv, AtHandler, Chosen, Engaged, Returned, CoreRunsAlone,
     CorePcs, ParkedPcs
<1>2. QED
  BY <1>1, RendezvousInvariant, PTL

\* The Run semaphore of a CPU that is not present is zero: what the assertion at
\* the end of SmiRendezvous is for.
THEOREM RunDrainedHolds ==
  ASSUME Premise
  PROVE  Spec => []RunDrained
<1>1. IInv => RunDrained
  <2> SUFFICES ASSUME IInv, NEW c \in CPUs, ~Present[c]
               PROVE  Run[c] = 0
    BY DEF RunDrained
  <2>1. pc[c] \in Gone \union {"MarkPresent"} /\ CpuInv(c)
    BY DEF IInv, RoleInv, CpuInv
  <2>2. CASE \A b \in CPUs : pc[b] \notin ActivePcs
    BY <2>1, <2>2 DEF CpuInv
  <2>3. ASSUME NEW b \in CPUs, pc[b] \in ActivePcs
        PROVE  Run[c] = 0
    <3>1. b # c /\ PhaseInv(b, c)
      BY <2>1, <2>3 DEF IInv, PhasesInv
    <3>2. QED
      BY <2>1, <2>3, <3>1
         DEF PhaseInv, InPhase, AtHandler, Engaged, Returned, Chosen, ArrivedPcs, LeftPcs
  <2>4. QED
    BY <2>2, <2>3
<1>2. QED
  BY <1>1, RendezvousInvariant, PTL

\* The AP that runs a procedure runs it under the Busy lock of SmmStartupThisAp.
THEOREM BusyWhileRunningHolds ==
  ASSUME Premise
  PROVE  Spec => []BusyWhileRunning
<1>1. IInv => BusyWhileRunning
  <2> SUFFICES ASSUME IInv, NEW c \in CPUs, pc[c] \in {"ApRun", "ApReleaseBusy"}
               PROVE  Busy[c] = "Acquired"
    BY DEF BusyWhileRunning
  <2>1. BspIndex \in CPUs \ {c} /\ pc[BspIndex] \in ServingPcs /\ PhaseInv(BspIndex, c)
    BY DEF IInv, RoleInv, CpuInv, PhasesInv
  <2>2. QED
    BY <2>1 DEF PhaseInv, InPhase, AtHandler, Chosen, Engaged, Returned, ArrivedPcs, LeftPcs
<1>2. QED
  BY <1>1, RendezvousInvariant, PTL

\* After the last wait for the APs every scheduled procedure has run.
THEOREM PendingTasksCompletedHolds ==
  ASSUME Premise
  PROVE  Spec => []PendingTasksCompleted
<1>1. IInv => PendingTasksCompleted
  BY NoneOutstanding DEF PendingTasksCompleted, AfterExit
<1>2. QED
  BY <1>1, RendezvousInvariant, PTL

\* BackupMtrrs never saves MTRRs that are already replaced, SMI handlers run on
\* the SMM MTRRs, and the OS gets its own back.
THEOREM MtrrsConsistentHolds ==
  ASSUME Premise
  PROVE  Spec => []MtrrsConsistent
<1>1. IInv => MtrrsConsistent
  <2> SUFFICES ASSUME IInv PROVE MtrrsConsistent
    OBVIOUS
  <2>1. MtrrInv /\ mtrr \in [CPUs -> {"Os", "Smm"}]
    BY DEF IInv, TypeOK
  <2>2. ASSUME NEW b \in CPUs, pc[b] \in CorePcs, ConfigureMtrrs, NEW c \in CPUs, Present[c]
        PROVE  mtrr[Core(c)] = "Smm"
    <3>1. CpuInv(c) /\ (c # b => PhaseInv(b, c))
      BY <2>2 DEF IInv, RoleInv, PhasesInv, CorePcs
    <3>2. pc[c] \in ReplacedPcs
      BY <2>2, <3>1
         DEF CpuInv, PhaseInv, AtHandler, Chosen, Engaged, Returned, CorePcs, ReplacedPcs
    <3>3. QED
      BY <2>1, <2>2, <3>2 DEF MtrrInv
  <2>3. ASSUME NEW c \in CPUs, \A d \in CPUs : Core(d) = Core(c) => pc[d] \in OutsidePcs
        PROVE  mtrr[Core(c)] = "Os"
    BY <2>1, <2>3, CoreTyped DEF MtrrInv, ReplacedPcs, RestoringPcs, OutsidePcs
  <2>4. QED
    BY <2>1, <2>2, <2>3 DEF MtrrsConsistent, MtrrInv
<1>2. QED
  BY <1>1, RendezvousInvariant, PTL

\* The CPU an AP reports to is in BSPHandler, although ResetBspIndex clears
\* BspIndex for the next election.
THEOREM ApsReportToBspHolds ==
  ASSUME Premise
  PROVE  Spec => []ApsReportToBsp
<1>1. IInv => ApsReportToBsp
  BY DEF IInv, RoleInv, CpuInv, ApsReportToBsp
<1>2. QED
  BY <1>1, RendezvousInvariant, PTL

\* A locked Counter admits nobody: ReleaseSemaphore returns zero to a late CPU.
THEOREM NoLateAdmissionHolds ==
  ASSUME Premise
  PROVE  Spec => NoLateAdmission
<1> DEFINE Late == \A c \in CPUs : pc[c] = "Enter" /\ pc'[c] = "MarkPresent" =>
                     \A b \in CPUs : pc[b] \notin LockedPcs
<1>1. IInv /\ [Next]_vars => [Late]_vars
  <2> SUFFICES ASSUME IInv, [Next]_vars, NEW c \in CPUs, pc[c] = "Enter", pc'[c] = "MarkPresent",
                      NEW b \in CPUs, pc[b] \in LockedPcs
               PROVE  FALSE
    BY DEF Late
  <2>1. Counter = Uint32Max /\ pc \in [CPUs -> PcLabels]
    BY PcTyped DEF IInv, CounterInv
  <2>2. PICK d \in CPUs : TakeSmi(d) \/ SmiRendezvous(d)
    BY <2>1 DEF Next, RaiseSmi, vars
  <2>3. CASE Arrive(d)
    BY <2>1, <2>2, <2>3 DEF Arrive, ReleaseReturns, Goto
  <2>4. CASE TakeSmi(d)
    BY <2>1, <2>4 DEF TakeSmi, Goto
  <2>5. CASE BspMtrrSteps(d) \/ ApMtrrSteps(d)
    BY <2>1, <2>5 DEF BspMtrrSteps, ApMtrrSteps, BackupMtrrs, ReplaceOSMtrrs, RestoreMtrrs, Goto
  <2>6. CASE SmiRendezvous(d) /\ ~BspMtrrSteps(d) /\ ~ApMtrrSteps(d) /\ ~Arrive(d)
    <3>1. c = d
      BY <2>1, <2>6, MtrrEdges DEF MtrrEdge
    <3>2. QED
      BY <2>1, <2>6, <3>1
         DEF SmiRendezvous, MarkPresent, Elect, MarkAbsent, Resume, BSPHandler, EnterBsp,
             SyncWithAPs, BringIn, InSync, LockdownSemaphore, WaitForAllAPs, ReleaseAllAPs,
             BackupMtrrs, ReplaceOSMtrrs, RestoreMtrrs, AcquireOwnBusy, SmmStartupThisAp,
             Schedule, Block, LeaveCore, ResetBspIndex, ResetCounter, ResetInSync, APHandler,
             EnterAp, SyncWithBsp, ApBringIn, ApDecide, ApGiveUp, ReportTo, ApWaitRun,
             ApInitBusy, ApCheck, ApRun, ApReleaseBusy, Goto
  <2>7. QED
    BY <2>2, <2>3, <2>4, <2>5, <2>6
<1>2. QED
  BY <1>1, RendezvousInvariant, PTL DEF Spec, NoLateAdmission
==============================================================================
