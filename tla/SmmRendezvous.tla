---------------------------- MODULE SmmRendezvous ----------------------------
(***************************************************************************)
(* The SMI rendezvous of PiSmmCpuDxeSmm/MpService.c.  Every CPU that takes *)
(* an SMI runs SmiRendezvous; one of them (the BSP) runs BSPHandler, the   *)
(* others APHandler.  They meet through the semaphores of mSmmUcData: the  *)
(* arrival Counter, which the BSP locks down, and one Run semaphore per    *)
(* CPU, on which each CPU waits for the others.                            *)
(*                                                                         *)
(* One step is one access to shared memory; a compare-exchange loop is the *)
(* step in which its exchange succeeds.  pc[c] names the line c is at.     *)
(***************************************************************************)
EXTENDS Naturals, FiniteSets

CONSTANTS
  NumberOfCpus,    \* SmmCoreEntryContext.NumberOfCpus
  Uint32Max,       \* (UINT32)-1: the value of a locked semaphore, of "no BSP"
  BspElection,     \* PcdCpuSmmEnableBspElection
  BlockStartup,    \* PcdCpuSmmBlockStartupThisAp
  ConfigureMtrrs,  \* NeedConfigureMtrrs()
  SharedMtrrs,     \* hyper-threads of one core share a set of MTRRs
  LongTimeout,     \* the sync timers outlast every wait of a CPU inside SMM
  PromptWindows,   \* program points that no other CPU's long path overtakes
  MaxSmi,          \* bound: SMIs the chipset raises
  MaxTasks         \* bound: procedures given to SmmStartupThisAp

ASSUME RendezvousAssumption ==
  /\ NumberOfCpus \in Nat \ {0}
  /\ Uint32Max \in Nat /\ Uint32Max > NumberOfCpus
  /\ {BspElection, BlockStartup, ConfigureMtrrs, SharedMtrrs, LongTimeout}
       \subseteq BOOLEAN
  /\ PromptWindows \subseteq {"ApGiveUp", "MarkAbsent", "ApInitBusy"}
  /\ MaxSmi \in Nat /\ MaxTasks \in Nat

CPUs == 0 .. NumberOfCpus - 1

VARIABLES
  Counter, BspIndex, InsideSmm, AllCpusInSync,   \* mSmmUcData
  CurrentlyExecutingCpu,                         \* SmmCoreEntryContext
  Present, Run, Busy, Procedure,                 \* mSmmUcData->CpuData[c]
  pc,
  apCount, left, index,  \* locals of BSPHandler, WaitForAllAPs, ReleaseAllAPs
  apBsp,                 \* APHandler's copy of BspIndex
  target,                \* the CpuIndex argument of SmmStartupThisAp
  mtrr, saved,           \* the MTRRs of each core; each CPU's local Mtrrs
  smiPending, smis,      \* the SMI latch of each CPU; SMIs raised so far
  issued, done           \* procedures scheduled; procedures that have run

ucData   == <<Counter, BspIndex, InsideSmm, AllCpusInSync, CurrentlyExecutingCpu>>
cpuData  == <<Present, Run, Busy, Procedure>>
locals   == <<apCount, left, index, apBsp, target>>
mtrrs    == <<mtrr, saved>>
smi      == <<smiPending, smis>>
tasks    == <<issued, done>>
vars     == <<ucData, cpuData, pc, locals, mtrrs, smi, tasks>>

Core(c) == IF SharedMtrrs THEN 0 ELSE c
------------------------------------------------------------------------------
(***************************************************************************)
(* The semaphore operations, as the value they leave and, for a release,   *)
(* the value they return: a semaphore at Uint32Max is left alone and the   *)
(* release returns Value + 1 = 0.                                          *)
(***************************************************************************)
\* Mutants: no test for a locked semaphore, in the value left or returned.
ReleasedPastLock(v) == v + 1
ReturnsPastLock(v)  == v + 1
Released(v)         == IF v = Uint32Max THEN v ELSE v + 1
ReleaseReturns(v)   == IF v = Uint32Max THEN 0 ELSE v + 1
CanWait(v)          == v # 0
Waited(v)           == v - 1

Goto(c, from, to)   == pc[c] = from /\ pc' = [pc EXCEPT ![c] = to]

\* ReleaseSemaphore (&CpuData[d].Run); BspIndex = -1 is outside CpuData.
ReleaseRun(d) == Run' = IF d \in CPUs THEN [Run EXCEPT ![d] = Released(@)] ELSE Run
WaitRun(d)    == CanWait(Run[d]) /\ Run' = [Run EXCEPT ![d] = Waited(@)]
------------------------------------------------------------------------------
(***************************************************************************)
(* Time.  A sync timer may expire at any moment.  With LongTimeout it      *)
(* expires only when every other CPU is outside SMM or is itself held up   *)
(* waiting: the timeout is longer than any path between two waits.         *)
(***************************************************************************)
BspWaits == {"WaitArrive", "WaitBackup", "WaitProgram", "WaitExit", "WaitRestore"}
ApWaits  == {"ApWaitBackup", "ApWaitProgram", "ApWait", "ApWaitRestore"}

HeldUp(c) ==
  \/ pc[c] = "Os"
  \/ pc[c] \in {"Sync1", "Sync2"} /\ Counter < NumberOfCpus
  \/ pc[c] \in {"ApSync1", "ApSync2"} /\ ~InsideSmm
  \/ pc[c] \in BspWaits /\ left[c] > 0 /\ ~CanWait(Run[CurrentlyExecutingCpu])
  \/ pc[c] \in ApWaits /\ ~CanWait(Run[c])
  \/ pc[c] = "Exit" /\ AllCpusInSync

IsSyncTimerTimeout(c) == LongTimeout => \A d \in CPUs \ {c} : HeldUp(d)

\* No CPU is in one of the windows S that this path is assumed not to overtake.
Passed(S) == \A d \in CPUs : pc[d] \notin S \intersect PromptWindows
------------------------------------------------------------------------------
(***************************************************************************)
(* SMIs.  The chipset signals every CPU; a CPU in SMM latches one SMI and  *)
(* takes it after it has resumed.                                          *)
(***************************************************************************)
RaiseSmi ==
  /\ smis < MaxSmi
  /\ smis' = smis + 1
  /\ smiPending' = [c \in CPUs |-> TRUE]
  /\ UNCHANGED <<ucData, cpuData, pc, locals, mtrrs, tasks>>

TakeSmi(c) ==
  /\ smiPending[c]
  /\ Goto(c, "Os", "Enter")
  /\ smiPending' = [smiPending EXCEPT ![c] = FALSE]
  /\ UNCHANGED <<ucData, cpuData, locals, mtrrs, smis, tasks>>

SendSmiIpi(S) == smiPending' = [c \in CPUs |-> smiPending[c] \/ c \in S]
------------------------------------------------------------------------------
(***************************************************************************)
(* SmiRendezvous                                                           *)
(***************************************************************************)
Arrive(c) ==
  /\ Counter' = Released(Counter)
  /\ IF ReleaseReturns(Counter) = 0
       THEN Goto(c, "Enter", "Exit")
       ELSE Goto(c, "Enter", "MarkPresent")
  /\ UNCHANGED <<BspIndex, InsideSmm, AllCpusInSync, CurrentlyExecutingCpu,
                 cpuData, locals, mtrrs, smi, tasks>>

MarkPresent(c) ==
  /\ Goto(c, "MarkPresent", "Elect")
  /\ Present' = [Present EXCEPT ![c] = TRUE]
  /\ UNCHANGED <<ucData, Run, Busy, Procedure, locals, mtrrs, smi, tasks>>

\* The election, and the test that makes this CPU the BSP or an AP.
Elect(c) ==
  /\ BspIndex' = IF BspElection /\ BspIndex = Uint32Max THEN c ELSE BspIndex
  /\ IF BspIndex' = c THEN Goto(c, "Elect", "EnterBsp") ELSE Goto(c, "Elect", "EnterAp")
  /\ UNCHANGED <<Counter, InsideSmm, AllCpusInSync, CurrentlyExecutingCpu,
                 cpuData, locals, mtrrs, smi, tasks>>

MarkAbsent(c) ==
  /\ Goto(c, "MarkAbsent", "Exit")
  /\ Present' = [Present EXCEPT ![c] = FALSE]
  /\ UNCHANGED <<ucData, Run, Busy, Procedure, locals, mtrrs, smi, tasks>>

Resume(c) ==
  /\ ~AllCpusInSync
  /\ Goto(c, "Exit", "Os")
  /\ UNCHANGED <<ucData, cpuData, locals, mtrrs, smi, tasks>>
------------------------------------------------------------------------------
(***************************************************************************)
(* BSPHandler                                                              *)
(***************************************************************************)
EnterBsp(c) ==
  /\ Goto(c, "EnterBsp", "Sync1")
  /\ InsideSmm' = TRUE
  /\ CurrentlyExecutingCpu' = c
  /\ UNCHANGED <<Counter, BspIndex, AllCpusInSync, cpuData, locals, mtrrs, smi, tasks>>

\* A sync loop ends when all CPUs have arrived or its timer has expired.
SyncWithAPs(c, from, to) ==
  /\ Counter >= NumberOfCpus \/ IsSyncTimerTimeout(c)
  /\ Goto(c, from, to)
  /\ UNCHANGED <<ucData, cpuData, locals, mtrrs, smi, tasks>>

BringIn(c) ==
  /\ IF Counter < NumberOfCpus
       THEN Goto(c, "BringIn", "Sync2") /\ SendSmiIpi({d \in CPUs : ~Present[d]})
       ELSE Goto(c, "BringIn", "InSync") /\ UNCHANGED smiPending
  /\ UNCHANGED <<ucData, cpuData, locals, mtrrs, smis, tasks>>

InSync(c) ==
  /\ Goto(c, "InSync", "Lockdown")
  /\ AllCpusInSync' = TRUE
  /\ UNCHANGED <<Counter, BspIndex, InsideSmm, CurrentlyExecutingCpu,
                 cpuData, locals, mtrrs, smi, tasks>>

LockdownSemaphore(c) ==
  /\ Passed({"ApGiveUp", "MarkAbsent"})
  /\ Goto(c, "Lockdown", "WaitArrive")
  /\ Counter' = Uint32Max
  /\ apCount' = [apCount EXCEPT ![c] = Counter - 1]
  /\ left' = [left EXCEPT ![c] = Counter - 1]
  /\ UNCHANGED <<BspIndex, InsideSmm, AllCpusInSync, CurrentlyExecutingCpu,
                 cpuData, index, apBsp, target, mtrrs, smi, tasks>>

\* Mutant: --NumberOfAPs > 0, one AP too few.
WaitForAllButOneAP(c, from, to) ==
  /\ \/ /\ left[c] <= 1
        /\ Goto(c, from, to)
        /\ left' = [left EXCEPT ![c] = apCount[c]]
        /\ UNCHANGED Run
     \/ /\ left[c] > 1
        /\ WaitRun(CurrentlyExecutingCpu)
        /\ Goto(c, from, from)
        /\ left' = [left EXCEPT ![c] = @ - 1]
  /\ UNCHANGED <<ucData, Present, Busy, Procedure, apCount, index, apBsp, target,
                 mtrrs, smi, tasks>>

\* left[c] counts NumberOfAPs down and is ApCount again for the next wait.
WaitForAllAPs(c, from, to) ==
  /\ \/ /\ left[c] = 0
        /\ Goto(c, from, to)
        /\ UNCHANGED <<Run, left>>
     \/ /\ left[c] > 0
        /\ WaitRun(CurrentlyExecutingCpu)
        /\ IF left[c] = 1
             THEN Goto(c, from, to) /\ left' = [left EXCEPT ![c] = apCount[c]]
             ELSE Goto(c, from, from) /\ left' = [left EXCEPT ![c] = @ - 1]
  /\ UNCHANGED <<ucData, Present, Busy, Procedure, apCount, index, apBsp, target,
                 mtrrs, smi, tasks>>

\* Mutants: the BSP is released as well; the loop ends before CPU 0.
ReleaseEveryCpu(c, from, to) ==
  LET d == index[c] - 1 IN
  /\ IF Present[d] THEN ReleaseRun(d) ELSE UNCHANGED Run
  /\ Goto(c, from, IF d = 0 THEN to ELSE from)
  /\ index' = [index EXCEPT ![c] = IF d = 0 THEN NumberOfCpus ELSE d]
  /\ UNCHANGED <<ucData, Present, Busy, Procedure, apCount, left, apBsp, target,
                 mtrrs, smi, tasks>>

ReleaseAllButCpu0(c, from, to) ==
  LET d == index[c] - 1 IN
  /\ IF d # 0 /\ d # CurrentlyExecutingCpu /\ Present[d] THEN ReleaseRun(d) ELSE UNCHANGED Run
  /\ Goto(c, from, IF d = 0 THEN to ELSE from)
  /\ index' = [index EXCEPT ![c] = IF d = 0 THEN NumberOfCpus ELSE d]
  /\ UNCHANGED <<ucData, Present, Busy, Procedure, apCount, left, apBsp, target,
                 mtrrs, smi, tasks>>

\* index[c] counts Index down and is NumberOfCpus again for the next release.
ReleaseAllAPs(c, from, to) ==
  LET d == index[c] - 1 IN
  /\ IF d # CurrentlyExecutingCpu /\ Present[d] THEN ReleaseRun(d) ELSE UNCHANGED Run
  /\ Goto(c, from, IF d = 0 THEN to ELSE from)
  /\ index' = [index EXCEPT ![c] = IF d = 0 THEN NumberOfCpus ELSE d]
  /\ UNCHANGED <<ucData, Present, Busy, Procedure, apCount, left, apBsp, target,
                 mtrrs, smi, tasks>>
------------------------------------------------------------------------------
(***************************************************************************)
(* MTRR phases, the same code in BSPHandler and APHandler.                 *)
(***************************************************************************)
BackupMtrrs(c, from, to) ==
  /\ Goto(c, from, to)
  /\ saved' = [saved EXCEPT ![c] = mtrr[Core(c)]]
  /\ UNCHANGED <<ucData, cpuData, locals, mtrr, smi, tasks>>

ReplaceOSMtrrs(c, from, to) ==
  /\ Goto(c, from, to)
  /\ mtrr' = [mtrr EXCEPT ![Core(c)] = "Smm"]
  /\ UNCHANGED <<ucData, cpuData, locals, saved, smi, tasks>>

\* Mutant: ReenableSmrr without MtrrSetAllMtrrs.
SkipRestoreMtrrs(c, from, to) ==
  /\ Goto(c, from, to)
  /\ UNCHANGED <<ucData, cpuData, locals, mtrrs, smi, tasks>>

RestoreMtrrs(c, from, to) ==
  /\ Goto(c, from, to)
  /\ mtrr' = [mtrr EXCEPT ![Core(c)] = saved[c]]
  /\ UNCHANGED <<ucData, cpuData, locals, saved, smi, tasks>>
------------------------------------------------------------------------------
(***************************************************************************)
(* SmmCoreEntry on the BSP, with the SmmStartupThisAp calls it makes.      *)
(***************************************************************************)
AcquireOwnBusy(c) ==
  /\ Goto(c, "OwnBusy", "Core")
  /\ Busy' = [Busy EXCEPT ![c] = "Acquired"]
  /\ UNCHANGED <<ucData, Present, Run, Procedure, locals, mtrrs, smi, tasks>>

\* Mutant: Busy is tested and not acquired.
StartupWithoutBusy(c, t) ==
  /\ issued < MaxTasks
  /\ Passed({"ApInitBusy"})
  /\ t # CurrentlyExecutingCpu /\ Present[t] /\ Busy[t] = "Released"
  /\ Goto(c, "Core", "Schedule")
  /\ target' = [target EXCEPT ![c] = t]
  /\ UNCHANGED <<ucData, cpuData, apCount, left, index, apBsp, mtrrs, smi, tasks>>

\* The argument checks and AcquireSpinLockOrFail; on failure nothing changes.
SmmStartupThisAp(c, t) ==
  /\ issued < MaxTasks
  /\ Passed({"ApInitBusy"})
  /\ t # CurrentlyExecutingCpu /\ Present[t] /\ Busy[t] = "Released"
  /\ Goto(c, "Core", "Schedule")
  /\ Busy' = [Busy EXCEPT ![t] = "Acquired"]
  /\ target' = [target EXCEPT ![c] = t]
  /\ UNCHANGED <<ucData, Present, Run, Procedure, apCount, left, index, apBsp,
                 mtrrs, smi, tasks>>

\* Procedure and Parameter are stored, then the AP is released.
Schedule(c) ==
  /\ issued' = issued + 1
  /\ Procedure' = [Procedure EXCEPT ![target[c]] = issued']
  /\ ReleaseRun(target[c])
  /\ Goto(c, "Schedule", IF BlockStartup THEN "Block" ELSE "Core")
  /\ UNCHANGED <<ucData, Present, Busy, locals, mtrrs, smi, done>>

\* Mutant: returns without waiting for Busy.
DoNotBlock(c) ==
  /\ Goto(c, "Block", "Core")
  /\ UNCHANGED <<ucData, cpuData, locals, mtrrs, smi, tasks>>

\* AcquireSpinLock then ReleaseSpinLock: the AP's procedure has returned.
Block(c) ==
  /\ Busy[target[c]] = "Released"
  /\ Goto(c, "Block", "Core")
  /\ UNCHANGED <<ucData, cpuData, locals, mtrrs, smi, tasks>>

\* Mutant: BspIndex is reset together with InsideSmm.
LeaveCoreAndBsp(c) ==
  /\ Goto(c, "Core", "ReleaseExit")
  /\ InsideSmm' = FALSE
  /\ BspIndex' = IF BspElection THEN Uint32Max ELSE BspIndex
  /\ UNCHANGED <<Counter, AllCpusInSync, CurrentlyExecutingCpu,
                 cpuData, locals, mtrrs, smi, tasks>>

\* SmmCoreEntry returns; ClearSmi; InsideSmm is cleared.
LeaveCore(c) ==
  /\ Goto(c, "Core", "ReleaseExit")
  /\ InsideSmm' = FALSE
  /\ UNCHANGED <<Counter, BspIndex, AllCpusInSync, CurrentlyExecutingCpu,
                 cpuData, locals, mtrrs, smi, tasks>>

ResetBspIndex(c) ==
  /\ Goto(c, "ResetBspIndex", "ResetCounter")
  /\ BspIndex' = IF BspElection THEN Uint32Max ELSE BspIndex
  /\ UNCHANGED <<Counter, InsideSmm, AllCpusInSync, CurrentlyExecutingCpu,
                 cpuData, locals, mtrrs, smi, tasks>>

ResetCounter(c) ==
  /\ Goto(c, "ResetCounter", "ResetInSync")
  /\ Counter' = 0
  /\ UNCHANGED <<BspIndex, InsideSmm, AllCpusInSync, CurrentlyExecutingCpu,
                 cpuData, locals, mtrrs, smi, tasks>>

ResetInSync(c) ==
  /\ Goto(c, "ResetInSync", "MarkAbsent")
  /\ AllCpusInSync' = FALSE
  /\ UNCHANGED <<Counter, BspIndex, InsideSmm, CurrentlyExecutingCpu,
                 cpuData, locals, mtrrs, smi, tasks>>

BSPHandler(c) ==
  \/ EnterBsp(c)
  \/ SyncWithAPs(c, "Sync1", "BringIn")
  \/ BringIn(c)
  \/ SyncWithAPs(c, "Sync2", "InSync")
  \/ InSync(c)
  \/ LockdownSemaphore(c)
  \/ WaitForAllAPs(c, "WaitArrive", IF ConfigureMtrrs THEN "ReleaseBackup" ELSE "OwnBusy")
  \/ ReleaseAllAPs(c, "ReleaseBackup", "Backup")
  \/ BackupMtrrs(c, "Backup", "WaitBackup")
  \/ WaitForAllAPs(c, "WaitBackup", "ReleaseProgram")
  \/ ReleaseAllAPs(c, "ReleaseProgram", "Program")
  \/ ReplaceOSMtrrs(c, "Program", "WaitProgram")
  \/ WaitForAllAPs(c, "WaitProgram", "OwnBusy")
  \/ AcquireOwnBusy(c)
  \/ \E t \in CPUs : SmmStartupThisAp(c, t)
  \/ Schedule(c)
  \/ Block(c)
  \/ LeaveCore(c)
  \/ ReleaseAllAPs(c, "ReleaseExit", "WaitExit")
  \/ WaitForAllAPs(c, "WaitExit", IF ConfigureMtrrs THEN "ReleaseRestore" ELSE "ResetBspIndex")
  \/ ReleaseAllAPs(c, "ReleaseRestore", "Restore")
  \/ RestoreMtrrs(c, "Restore", "WaitRestore")
  \/ WaitForAllAPs(c, "WaitRestore", "ResetBspIndex")
  \/ ResetBspIndex(c)
  \/ ResetCounter(c)
  \/ ResetInSync(c)
------------------------------------------------------------------------------
(***************************************************************************)
(* APHandler                                                               *)
(***************************************************************************)
EnterAp(c) ==
  /\ Goto(c, "EnterAp", IF BspElection THEN "ApArrive" ELSE "ApSync1")
  /\ apBsp' = [apBsp EXCEPT ![c] = BspIndex]
  /\ UNCHANGED <<ucData, cpuData, apCount, left, index, target, mtrrs, smi, tasks>>

\* A loop on InsideSmm ends when the BSP is in or the timer has expired; the
\* flag is read again by the test that follows the loop.
SyncWithBsp(c, from, to) ==
  /\ InsideSmm \/ IsSyncTimerTimeout(c)
  /\ Goto(c, from, to)
  /\ UNCHANGED <<ucData, cpuData, locals, mtrrs, smi, tasks>>

ApBringIn(c) ==
  /\ IF InsideSmm
       THEN Goto(c, "ApBringIn", "ApArrive") /\ UNCHANGED smiPending
       ELSE Goto(c, "ApBringIn", "ApSync2") /\ SendSmiIpi({apBsp[c]})
  /\ UNCHANGED <<ucData, cpuData, locals, mtrrs, smis, tasks>>

ApDecide(c) ==
  /\ Goto(c, "ApDecide", IF InsideSmm THEN "ApArrive" ELSE "ApGiveUp")
  /\ UNCHANGED <<ucData, cpuData, locals, mtrrs, smi, tasks>>

\* WaitForSemaphore (&Counter): a locked Counter is decremented as well.
ApGiveUp(c) ==
  /\ CanWait(Counter)
  /\ Counter' = Waited(Counter)
  /\ Goto(c, "ApGiveUp", "MarkAbsent")
  /\ UNCHANGED <<BspIndex, InsideSmm, AllCpusInSync, CurrentlyExecutingCpu,
                 cpuData, locals, mtrrs, smi, tasks>>

\* ReleaseSemaphore on the Run of CPU b: the AP reports to the BSP.
ReportTo(b, c, from, to) ==
  /\ Goto(c, from, to)
  /\ ReleaseRun(b)
  /\ UNCHANGED <<ucData, Present, Busy, Procedure, locals, mtrrs, smi, tasks>>

ApWaitRun(c, from, to) ==
  /\ Goto(c, from, to)
  /\ WaitRun(c)
  /\ UNCHANGED <<ucData, Present, Busy, Procedure, locals, mtrrs, smi, tasks>>

ApInitBusy(c) ==
  /\ Goto(c, "ApInitBusy", "ApWait")
  /\ Busy' = [Busy EXCEPT ![c] = "Released"]
  /\ UNCHANGED <<ucData, Present, Run, Procedure, locals, mtrrs, smi, tasks>>

\* Woken up: leave the loop, or run the procedure the BSP has stored.
ApCheck(c) ==
  /\ Goto(c, "ApCheck", IF InsideSmm THEN "ApRun" ELSE "ApLeave")
  /\ UNCHANGED <<ucData, cpuData, locals, mtrrs, smi, tasks>>

ApRun(c) ==
  /\ Goto(c, "ApRun", "ApReleaseBusy")
  /\ done' = done \union {Procedure[c]}
  /\ UNCHANGED <<ucData, cpuData, locals, mtrrs, smi, issued>>

ApReleaseBusy(c) ==
  /\ Goto(c, "ApReleaseBusy", "ApWait")
  /\ Busy' = [Busy EXCEPT ![c] = "Released"]
  /\ UNCHANGED <<ucData, Present, Run, Procedure, locals, mtrrs, smi, tasks>>

APHandler(c) ==
  \/ EnterAp(c)
  \/ SyncWithBsp(c, "ApSync1", "ApBringIn")
  \/ ApBringIn(c)
  \/ SyncWithBsp(c, "ApSync2", "ApDecide")
  \/ ApDecide(c)
  \/ ApGiveUp(c)
  \/ ReportTo(apBsp[c], c, "ApArrive", IF ConfigureMtrrs THEN "ApWaitBackup" ELSE "ApInitBusy")
  \/ ApWaitRun(c, "ApWaitBackup", "ApBackup")
  \/ BackupMtrrs(c, "ApBackup", "ApBackedUp")
  \/ ReportTo(apBsp[c], c, "ApBackedUp", "ApWaitProgram")
  \/ ApWaitRun(c, "ApWaitProgram", "ApProgram")
  \/ ReplaceOSMtrrs(c, "ApProgram", "ApProgrammed")
  \/ ReportTo(apBsp[c], c, "ApProgrammed", "ApInitBusy")
  \/ ApInitBusy(c)
  \/ ApWaitRun(c, "ApWait", "ApCheck")
  \/ ApCheck(c)
  \/ ApRun(c)
  \/ ApReleaseBusy(c)
  \/ ReportTo(BspIndex, c, "ApLeave", IF ConfigureMtrrs THEN "ApWaitRestore" ELSE "MarkAbsent")
  \/ ApWaitRun(c, "ApWaitRestore", "ApRestore")
  \/ RestoreMtrrs(c, "ApRestore", "ApRestored")
  \/ ReportTo(apBsp[c], c, "ApRestored", "MarkAbsent")

SmiRendezvous(c) ==
  Arrive(c) \/ MarkPresent(c) \/ Elect(c) \/ BSPHandler(c) \/ APHandler(c)
    \/ MarkAbsent(c) \/ Resume(c)
------------------------------------------------------------------------------
\* InitializeUcData: ZeroMem, and BspIndex = -1 when a BSP is to be elected.
Init ==
  /\ Counter = 0
  /\ BspIndex = IF BspElection THEN Uint32Max ELSE 0
  /\ InsideSmm = FALSE
  /\ AllCpusInSync = FALSE
  /\ CurrentlyExecutingCpu = 0
  /\ Present = [c \in CPUs |-> FALSE]
  /\ Run = [c \in CPUs |-> 0]
  /\ Busy = [c \in CPUs |-> "Zero"]
  /\ Procedure = [c \in CPUs |-> 0]
  /\ pc = [c \in CPUs |-> "Os"]
  /\ apCount = [c \in CPUs |-> 0]
  /\ left = [c \in CPUs |-> 0]
  /\ index = [c \in CPUs |-> NumberOfCpus]
  /\ apBsp = [c \in CPUs |-> 0]
  /\ target = [c \in CPUs |-> 0]
  /\ mtrr = [c \in CPUs |-> "Os"]
  /\ saved = [c \in CPUs |-> "Os"]
  /\ smiPending = [c \in CPUs |-> FALSE]
  /\ smis = 0
  /\ issued = 0
  /\ done = {}

Next == RaiseSmi \/ \E c \in CPUs : TakeSmi(c) \/ SmiRendezvous(c)

Spec == Init /\ [][Next]_vars

\* A CPU inside SMM keeps executing; nothing makes a CPU take an SMI in time.
FairSpec == Spec /\ \A c \in CPUs : WF_vars(SmiRendezvous(c))
------------------------------------------------------------------------------
PcLabels ==
  {"Os", "Enter", "MarkPresent", "Elect", "MarkAbsent", "Exit"}
  \union BspWaits \union ApWaits
  \union {"EnterBsp", "Sync1", "BringIn", "Sync2", "InSync", "Lockdown",
          "ReleaseBackup", "Backup", "ReleaseProgram", "Program", "OwnBusy", "Core",
          "Schedule", "Block", "ReleaseExit", "ReleaseRestore", "Restore",
          "ResetBspIndex", "ResetCounter", "ResetInSync"}
  \union {"EnterAp", "ApSync1", "ApBringIn", "ApSync2", "ApDecide", "ApGiveUp",
          "ApArrive", "ApBackup", "ApBackedUp", "ApProgram", "ApProgrammed",
          "ApInitBusy", "ApCheck", "ApRun", "ApReleaseBusy", "ApLeave",
          "ApRestore", "ApRestored"}

\* The types of mSmmUcData and of the handlers' locals: semaphores stay within
\* UINT32, indices within the CPUs (or -1 where BspIndex may be -1).
TypeOK ==
  /\ Counter \in 0 .. Uint32Max
  /\ BspIndex \in CPUs \union {Uint32Max}
  /\ InsideSmm \in BOOLEAN
  /\ AllCpusInSync \in BOOLEAN
  /\ CurrentlyExecutingCpu \in CPUs
  /\ Present \in [CPUs -> BOOLEAN]
  /\ Run \in [CPUs -> 0 .. Uint32Max]
  /\ Busy \in [CPUs -> {"Zero", "Released", "Acquired"}]
  /\ Procedure \in [CPUs -> 0 .. MaxTasks]
  /\ pc \in [CPUs -> PcLabels]
  /\ apCount \in [CPUs -> 0 .. Uint32Max]
  /\ left \in [CPUs -> 0 .. Uint32Max]
  /\ index \in [CPUs -> 1 .. NumberOfCpus]
  /\ apBsp \in [CPUs -> CPUs \union {Uint32Max}]
  /\ target \in [CPUs -> CPUs]
  /\ mtrr \in [CPUs -> {"Os", "Smm"}]
  /\ saved \in [CPUs -> {"Os", "Smm"}]
  /\ smiPending \in [CPUs -> BOOLEAN]
  /\ smis \in 0 .. MaxSmi
  /\ issued \in 0 .. MaxTasks
  /\ done \subseteq 0 .. MaxTasks

\* Where a BSP is between LockdownSemaphore and Counter = 0.
LockedPcs ==
  BspWaits \union {"ReleaseBackup", "Backup", "ReleaseProgram", "Program", "OwnBusy",
    "Core", "Schedule", "Block", "ReleaseExit", "ReleaseRestore", "Restore",
    "ResetBspIndex", "ResetCounter"}
BspPcs ==
  LockedPcs \union {"EnterBsp", "Sync1", "BringIn", "Sync2", "InSync", "Lockdown", "ResetInSync"}
CorePcs     == {"Core", "Schedule", "Block"}
ParkedPcs   == {"ApInitBusy", "ApWait", "ApCheck", "ApRun", "ApReleaseBusy"}
OutsidePcs  == {"MarkAbsent", "Exit", "Os", "Enter"}
AfterExit   == {"ReleaseRestore", "Restore", "WaitRestore", "ResetBspIndex", "ResetCounter"}

\* While the SMM core runs on the BSP, every other CPU that was counted into
\* the rendezvous is parked in APHandler's loop, and no second CPU is a BSP:
\* SMI handlers run with the rest of the machine stopped.
CoreRunsAlone ==
  \A b \in CPUs : pc[b] \in CorePcs =>
    \A c \in CPUs \ {b} :
      pc[c] \in ParkedPcs \union {"Os", "Enter", "Exit"}

\* Where the driver manages the MTRRs: no thread ever backs up MTRRs that another
\* thread has already replaced; the core of every counted CPU has the SMM MTRRs
\* while SMI handlers run; a CPU that has left the rendezvous is back on the OS
\* MTRRs (with shared MTRRs, once all threads have left it).
MtrrsConsistent ==
  /\ \A c \in CPUs : saved[c] = "Os"
  /\ \A b \in CPUs : ConfigureMtrrs /\ pc[b] \in CorePcs =>
       \A c \in CPUs : Present[c] => mtrr[Core(c)] = "Smm"
  /\ \A c \in CPUs :
       (\A d \in CPUs : Core(d) = Core(c) => pc[d] \in OutsidePcs) => mtrr[Core(c)] = "Os"

\* A CPU that has left the rendezvous holds no token: a Run semaphore is zero
\* whenever its CPU is not present (SmiRendezvous asserts it on the way out),
\* so no wait of the next SMI is satisfied by a signal of this one.
RunDrained ==
  \A c \in CPUs : ~Present[c] => Run[c] = 0

\* An AP woken up to run a procedure finds its Busy lock held by the scheduler.
BusyWhileRunning ==
  \A c \in CPUs : pc[c] \in {"ApRun", "ApReleaseBusy"} => Busy[c] = "Acquired"

\* Once the BSP has collected the APs on its way out, every procedure handed to
\* SmmStartupThisAp has run.
PendingTasksCompleted ==
  (\E b \in CPUs : pc[b] \in AfterExit) => 1 .. issued \subseteq done

\* An AP that reports, or waits for an answer, does so to a CPU that is in
\* BSPHandler, although BspIndex is reset while APs are on their way out.
ApsReportToBsp ==
  \A c \in CPUs :
    /\ pc[c] \in ApWaits \union {"ApArrive", "ApBackedUp", "ApProgrammed", "ApRestored"}
         => apBsp[c] \in CPUs /\ pc[apBsp[c]] \in BspPcs
    /\ pc[c] = "ApLeave" => BspIndex \in CPUs /\ pc[BspIndex] \in BspPcs

\* After the lock-down no further CPU is admitted to the rendezvous.
NoLateAdmission ==
  [][ \A c \in CPUs : pc[c] = "Enter" /\ pc'[c] = "MarkPresent" =>
        \A b \in CPUs : pc[b] \notin LockedPcs ]_vars

\* Every CPU that enters SMM returns to the OS.
EveryCpuResumes ==
  \A c \in CPUs : pc[c] = "Enter" ~> pc[c] = "Os"
==============================================================================
