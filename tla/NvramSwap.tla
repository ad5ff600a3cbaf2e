------------------------------ MODULE NvramSwap ------------------------------
(***************************************************************************)
(* The fault tolerant garbage collection of the NVRAM driver.  Two flash   *)
(* regions hold a variable store each; the state bits of the FFS file      *)
(* header of each say which one is valid.  A garbage collection builds the *)
(* new store in memory, writes it to the region that is not in use and     *)
(* then moves the validity over with two one-byte writes.                  *)
(*                                                                         *)
(* One step is one flash write.  The power may fail, and the flash part    *)
(* may report an error, between any two of them; erasing a region and      *)
(* writing a header may also be cut short in the middle.  What happens     *)
(* inside one store, record by record, is the subject of NvramLog.         *)
(***************************************************************************)
CONSTANTS Names, Values, Absent, Preserved, NoRequest,
  Garbage   \* what a half-erased region holds

Contents == [Names -> Values \union {Absent}]
Requests == [name : Names, value : Values \union {Absent}]

ASSUME NvramAssumption ==
  /\ Absent \notin Values /\ Garbage \notin Values \union {Absent}
  /\ Preserved \subseteq Names
  /\ NoRequest \notin Requests

VARIABLES
  ffs,      \* flash: the state bits of each region's FFS file header
  content,  \* flash: the variables of each region
  main,     \* RAM: VarStoreInfo.NvInfo->NvramAddress (the other is BackupAddress)
  pc,       \* RAM: how far the driver is
  req,      \* RAM: the SetVariable request that flash does not hold yet
  new,      \* RAM: the memory store NewInfo
  copied    \* RAM: the variables CopyVariables has written so far

flash == <<ffs, content>>
vars  == <<ffs, content, main, pc, req, new, copied>>

\* "A" is NvramAddress of the build, where a boot looks first.
Regions  == {"A", "B"}
Other(r) == IF r = "A" THEN "B" ELSE "A"

\* {} is EFI_FILE_HEADER_INVALID: an erased header or an incomplete one.
Flags == {"HEADER_CONSTRUCTION", "HEADER_VALID", "DATA_VALID", "MARKED_FOR_UPDATE"}
HeaderFlags == {"HEADER_CONSTRUCTION", "HEADER_VALID"}

Empty == [n \in Names |-> Absent]
------------------------------------------------------------------------------
(***************************************************************************)
(* Which store is valid                                                    *)
(***************************************************************************)
\* Mutant: a store marked for update is never valid.
IsMainValidIfUnmarked(f, m) == "DATA_VALID" \in f[m] /\ "MARKED_FOR_UPDATE" \notin f[m]

IsMainNvramStoreValid(f, m) ==
  /\ "DATA_VALID" \in f[m]
  /\ ~ ("MARKED_FOR_UPDATE" \in f[m] /\ "DATA_VALID" \in f[Other(m)])

BackupStoreValid(f, m) == "DATA_VALID" \in f[Other(m)]

\* The store in use after the main store m has been checked.
Checked(f, m) ==
  IF ~IsMainNvramStoreValid(f, m) /\ BackupStoreValid(f, m) THEN Other(m) ELSE m

SomeStoreValid(f, m) == IsMainNvramStoreValid(f, m) \/ BackupStoreValid(f, m)
------------------------------------------------------------------------------
\* The state a flashed image boots from: one valid store, an erased backup.
Init ==
  /\ ffs = [r \in Regions |-> IF r = "A" THEN HeaderFlags \union {"DATA_VALID"} ELSE {}]
  /\ content \in [Regions -> Contents] /\ content["B"] = Empty
  /\ main = "A"
  /\ pc = "Off"
  /\ req = NoRequest
  /\ new = Empty
  /\ copied = {}

PeiInitNVHelper ==
  /\ pc = "Off"
  /\ main' = Checked(ffs, "A")
  /\ pc' = IF SomeStoreValid(ffs, "A") THEN "Idle" ELSE "Corrupt"
  /\ UNCHANGED <<flash, req, new, copied>>

\* DxeGetVariable and DxeGetNextVariableName: CheckStore, then a read.
DxeGetVariable ==
  /\ pc = "Idle"
  /\ main' = Checked(ffs, main)
  /\ pc' = IF SomeStoreValid(ffs, main) THEN "Idle" ELSE "Corrupt"
  /\ UNCHANGED <<flash, req, new, copied>>

DxeSetVariable(r) ==
  /\ pc = "Idle"
  /\ main' = Checked(ffs, main)
  /\ pc' = IF SomeStoreValid(ffs, main) THEN "Set" ELSE "Corrupt"
  /\ req' = r
  /\ UNCHANGED <<flash, new, copied>>

\* CreateVariable, UpdateVariable or DeleteVariable within the main store.
WriteInStore ==
  /\ pc = "Set"
  /\ content' = [content EXCEPT ![main][req.name] = req.value]
  /\ pc' = "Idle"
  /\ req' = NoRequest
  /\ UNCHANGED <<ffs, main, new, copied>>

\* It failed, or the request is invalid: nothing changes.
Reject ==
  /\ pc = "Set"
  /\ pc' = "Idle"
  /\ req' = NoRequest
  /\ UNCHANGED <<flash, main, new, copied>>
------------------------------------------------------------------------------
(***************************************************************************)
(* Garbage collection                                                      *)
(***************************************************************************)
\* The contents s with request r carried out; reduced to the preserve list.
Set(s, r)  == [s EXCEPT ![r.name] = r.value]
Cleared(s) == [n \in Names |-> IF n \in Preserved THEN s[n] ELSE Absent]

\* UpdateVarstore: the backup region is used when the main header is sound.
UpdateVarstore(m) == pc' = IF IsMainNvramStoreValid(ffs, m) THEN "Erase" ELSE "InPlace"

\* The error recovery of DxeSetVariable: CopyVarStoreToMemStore without the
\* variable, CreateVariable in the memory store, UpdateVarstore; the second pass
\* copies with SaveOnlyPreservedVars.  If there is still no room, CheckStore may
\* compact a damaged store without the new variable.
RecoverSetVariable ==
  /\ pc = "Set" /\ req.value # Absent
  /\ \E s \in {content[main], Cleared(content[main])} : new' \in {s, Set(s, req)}
  /\ UpdateVarstore(main)
  /\ UNCHANGED <<flash, main, req, copied>>

\* Mutant: the store to compact is taken from the region not in use.
RecoverBackup ==
  /\ pc = "Idle"
  /\ main' = Checked(ffs, main)
  /\ new' = content[Other(main')]
  /\ UpdateVarstore(main')
  /\ UNCHANGED <<flash, req, copied>>

\* CheckStore finds the store damaged and compacts it.
RecoverStore ==
  /\ pc = "Idle"
  /\ main' = Checked(ffs, main)
  /\ new' = content[main']
  /\ UpdateVarstore(main')
  /\ UNCHANGED <<flash, req, copied>>

\* UpdateFtVarstore: CopyVarStore to the backup region.
EraseVariables ==
  /\ pc = "Erase"
  /\ content' = [content EXCEPT ![Other(main)] = [n \in Names |-> Garbage]]
  /\ UNCHANGED <<ffs, main, pc, req, new, copied>>

EraseBytes ==
  /\ pc = "Erase"
  /\ ffs' = [ffs EXCEPT ![Other(main)] = {}]
  /\ content' = [content EXCEPT ![Other(main)] = Empty]
  /\ pc' = "Header"
  /\ UNCHANGED <<main, req, new, copied>>

\* Mutant: the header is copied with the state of a complete store.
WriteValidHeader ==
  /\ pc = "Header"
  /\ ffs' = [ffs EXCEPT ![Other(main)] = HeaderFlags \union {"DATA_VALID"}]
  /\ copied' = {}
  /\ pc' = "Copy"
  /\ UNCHANGED <<content, main, req, new>>

\* The header is written with the state HEADER_CONSTRUCTION | HEADER_VALID.
WriteHeader ==
  /\ pc = "Header"
  /\ ffs' = [ffs EXCEPT ![Other(main)] = HeaderFlags]
  /\ copied' = {}
  /\ pc' = "Copy"
  /\ UNCHANGED <<content, main, req, new>>

WritePartOfHeader ==
  /\ pc = "Header"
  /\ \E S \in SUBSET HeaderFlags : ffs' = [ffs EXCEPT ![Other(main)] = S]
  /\ UNCHANGED <<content, main, pc, req, new, copied>>

CopyVariable(n) ==
  /\ pc = "Copy" /\ n \notin copied
  /\ content' = [content EXCEPT ![Other(main)][n] = new[n]]
  /\ copied' = copied \union {n}
  /\ UNCHANGED <<ffs, main, pc, req, new>>

\* Mutant: the main store is not marked.
MarkNothing ==
  /\ pc = "Copy" /\ copied = Names
  /\ pc' \in {"Commit", "Idle"}
  /\ req' = IF pc' = "Idle" THEN NoRequest ELSE req
  /\ UNCHANGED <<ffs, content, main, new, copied>>

\* SetNvramFfsFileState; the write may have its effect and still be reported
\* as failed, which ends the update.
MarkMain ==
  /\ pc = "Copy" /\ copied = Names
  /\ ffs' = [ffs EXCEPT ![main] = @ \union {"MARKED_FOR_UPDATE"}]
  /\ pc' \in {"Commit", "Idle"}
  /\ req' = IF pc' = "Idle" THEN NoRequest ELSE req
  /\ UNCHANGED <<content, main, new, copied>>

SetDataValid ==
  /\ pc = "Commit"
  /\ ffs' = [ffs EXCEPT ![Other(main)] = @ \union {"DATA_VALID"}]
  /\ pc' \in {"Swap", "Idle"}
  /\ req' = NoRequest
  /\ UNCHANGED <<content, main, new, copied>>

SwapStores ==
  /\ pc = "Swap"
  /\ main' = Other(main)
  /\ pc' = "Idle"
  /\ UNCHANGED <<flash, req, new, copied>>

UpdatePcs == {"Erase", "Header", "Copy", "Commit"}

\* A write without effect is reported as failed: the error is returned.
DeviceError ==
  /\ pc \in UpdatePcs
  /\ pc' = "Idle"
  /\ req' = NoRequest
  /\ UNCHANGED <<flash, main, new, copied>>

\* Everything but the flash is lost.
PowerFail ==
  /\ pc # "Off"
  /\ pc' = "Off"
  /\ main' = "A"
  /\ req' = NoRequest
  /\ new' = Empty
  /\ copied' = {}
  /\ UNCHANGED flash

Next ==
  \/ PeiInitNVHelper
  \/ DxeGetVariable
  \/ \E r \in Requests : DxeSetVariable(r)
  \/ WriteInStore
  \/ Reject
  \/ RecoverSetVariable
  \/ RecoverStore
  \/ EraseVariables
  \/ EraseBytes
  \/ WriteHeader
  \/ WritePartOfHeader
  \/ \E n \in Names : CopyVariable(n)
  \/ MarkMain
  \/ SetDataValid
  \/ SwapStores
  \/ DeviceError
  \/ PowerFail

Spec == Init /\ [][Next]_vars
------------------------------------------------------------------------------
\* The types of the flash and of the driver's data; new in particular is always a
\* complete store, never one that was read from a half-erased region.
TypeOK ==
  /\ ffs \in [Regions -> SUBSET Flags]
  /\ content \in [Regions -> [Names -> Values \union {Absent, Garbage}]]
  /\ main \in Regions
  /\ pc \in {"Off", "Idle", "Set", "Swap", "InPlace", "Corrupt"} \union UpdatePcs
  /\ req \in Requests \union {NoRequest}
  /\ new \in Contents
  /\ copied \subseteq Names

\* The region a boot would use.
BootStore == Checked(ffs, "A")

\* At every moment a boot finds a valid and complete store, and the driver never
\* has to rewrite the only store it has in place.
AlwaysRecoverable ==
  /\ SomeStoreValid(ffs, "A")
  /\ content[BootStore] \in Contents
  /\ pc \notin {"InPlace", "Corrupt"}

\* Once CheckStore has run, the running driver uses the region that a boot would
\* use, even after an update whose last write was reported as failed.
RuntimeAgreesWithBoot ==
  Checked(ffs, main) = BootStore

\* The two regions seen by a boot are one variable store on which every request
\* is atomic: a power failure or a flash error in the middle of a garbage
\* collection changes nothing.
VS == INSTANCE VariableStore WITH store <- content[BootStore], request <- req
RefinesVariableStore == VS!Spec
==============================================================================
