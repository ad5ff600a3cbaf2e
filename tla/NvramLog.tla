------------------------------- MODULE NvramLog -------------------------------
(***************************************************************************)
(* One variable store of the NVRAM driver, record by record.  The store is *)
(* a log of NVAR records.  A new variable is a record appended to the log; *)
(* an update appends a data-only record and links the last record of the   *)
(* variable to it; a deletion clears the validity bit of its first record. *)
(* A record counts once its signature is written.                          *)
(*                                                                         *)
(* One step is one group of flash writes between two writes that change    *)
(* what a reader of the flash would see.  The power may fail between any   *)
(* two steps, and every write may be reported as failed, with or without   *)
(* its effect.  A garbage collection is one step: NvramSwap shows that it  *)
(* is atomic.                                                              *)
(***************************************************************************)
EXTENDS Integers, SequencesExt

CONSTANTS
  Names, Values, Absent, Preserved, NoRequest,
  Large,       \* values that take twice the space of the others
  Capacity,    \* size of the store, in the size of a small record
  Shipped,     \* variables of the flashed image, in the order of their records
  ShippedData, \* their value
  Calls,       \* the SetVariable calls the system makes
  ShortOfMemory  \* the passes of the error recovery that may run out of memory

ASSUME LogAssumption ==
  /\ Absent \notin Values
  /\ Preserved \subseteq Names
  /\ Large \subseteq Values
  /\ Capacity \in Nat \ {0}
  /\ Shipped \in Seq(Names) /\ IsInjective(Shipped)
  /\ ShippedData \in Values \ Large /\ Len(Shipped) <= Capacity
  /\ Calls \subseteq [name : Names, value : Values \union {Absent}]
  /\ NoRequest \notin Calls
  /\ ShortOfMemory \subseteq {"Recover", "SecondPass"}

VARIABLES
  log,   \* flash: the records
  info,  \* RAM: pFirstVar and pEndOfVars, as record numbers
  pc,    \* RAM: how far DxeSetVariable is
  req,   \* RAM: its arguments
  SaveOnlyPreservedVars,  \* RAM: the next copy leaves out the other variables
  last   \* the last request that returned EFI_SUCCESS, until the next call

vars == <<log, info, pc, req, SaveOnlyPreservedVars, last>>

(***************************************************************************)
(* state is "torn" if the size in the record's header is not readable,     *)
(* "incomplete" if it is but the signature is missing.  next is the number *)
(* of a record, 0 if the field is still erased.                            *)
(***************************************************************************)
Record(state, kind, n, v) ==
  [state |-> state, kind |-> kind, valid |-> TRUE, name |-> n, data |-> v, next |-> 0]

Size(v) == IF v \in Large THEN 2 ELSE 1

\* The space the records of l take.
Space(l) ==
  LET UpTo[i \in 0..Len(l)] == IF i = 0 THEN 0 ELSE UpTo[i - 1] + Size(l[i].data)
  IN UpTo[Len(l)]
-------------------------------------------------------------------------------
(***************************************************************************)
(* Reading a log l whose variables are taken to end after record e         *)
(***************************************************************************)
NvIsVariable(l, i, e) ==
  /\ i \in 1..e
  /\ l[i].state = "complete"
  /\ l[i].next = 0 \/ l[i].next <= e + 1

NvIsValid(l, i) == l[i].valid /\ l[i].kind = "head"

\* The variables NvGetNextNvar visits from record i on: records without a
\* signature are skipped, a record without a size ends the walk.
NvGetNextNvar(l, i, e) ==
  {j \in i..e : NvIsVariable(l, j, e) /\ \A k \in i..j : l[k].state # "torn"}

\* The first record has to be a variable; then the walk goes on from it.
NvGetValid(l, i, e) ==
  IF NvIsVariable(l, i, e) THEN {j \in NvGetNextNvar(l, i, e) : NvIsValid(l, j)} ELSE {}

\* The record with the data of the variable at record i.
NvGetDataNvar(l, i, e) ==
  LET Follow[j \in 1..Len(l)] ==
        IF NvIsVariable(l, l[j].next, e) THEN Follow[l[j].next] ELSE j
  IN Follow[i]

NvFindVariable(l, f, n) == {i \in NvGetValid(l, f.first, f.end) : l[i].name = n}

\* What GetVariable finds in log l.
View(l, f) ==
  [n \in Names |->
     LET found == NvFindVariable(l, f, n)
     IN IF found = {} THEN Absent ELSE l[NvGetDataNvar(l, Min(found), f.end)].data]

\* EnumerateStore: the end of the variables, one incomplete record included.
EnumerateStore(l, first) ==
  LET lastVar == Max(NvGetNextNvar(l, first, Len(l)))
  IN IF lastVar < Len(l) /\ l[lastVar + 1].state # "torn" THEN lastVar + 1 ELSE lastVar

NvInitInfoBuffer(l) ==
  LET valid == NvGetValid(l, 1, Len(l))
  IN IF valid = {} THEN [first |-> 1, end |-> 0]
     ELSE [first |-> Min(valid), end |-> EnumerateStore(l, Min(valid))]

\* What a boot finds.
BootView(l) == View(l, NvInitInfoBuffer(l))

\* Mutant: the flash at pEndOfVars is not looked at.
StoreAlwaysOk(l, f) == TRUE

\* Nothing is programmed at pEndOfVars.
IsStoreOk(l, f) == f.end = Len(l)
-------------------------------------------------------------------------------
(***************************************************************************)
(* Garbage collection, one step here                                       *)
(***************************************************************************)
\* Mutant: the links to newer data are not followed.
CopyFirstRecords(l, f, S) ==
  LET heads == NvGetValid(l, f.first, f.end)
  IN SelectSeq([i \in 1..Len(l) |-> [l[i] EXCEPT !.next = 0]],
               LAMBDA r : \E i \in heads : r.name \in S /\ r = [l[i] EXCEPT !.next = 0])

\* The variables in the set S, each with one record that holds its current data.
CopyVariables(l, f, S) ==
  LET copied == {i \in NvGetValid(l, f.first, f.end) : l[i].name \in S}
      Copy(i) == Record("complete", "head", l[i].name, l[NvGetDataNvar(l, i, f.end)].data)
      UpTo[i \in 0..Len(l)] ==
        IF i = 0 THEN <<>>
        ELSE IF i \in copied THEN Append(UpTo[i - 1], Copy(i)) ELSE UpTo[i - 1]
  IN UpTo[Len(l)]

\* Mutant: the preserve list is applied to every copy.
KeepPreserved == Preserved

\* Mutant: the test of VarNotInPreserveList is inverted.
KeepOthers == IF SaveOnlyPreservedVars THEN Names \ Preserved ELSE Names

\* The variables that CopyVariables copies.
Kept == IF SaveOnlyPreservedVars THEN Preserved ELSE Names

\* UpdateVarstore with the memory store l, and NvramReinitialize.
UpdateVarstore(l) ==
  /\ log' = l
  /\ info' = NvInitInfoBuffer(l)

\* The end of CheckStore, with f for Info: CopyVariables uses the flag up, then
\* UpdateVarstore may fail.
CompactStore(f) ==
  /\ \/ UpdateVarstore(CopyVariables(log, f, Kept))
     \/ log' = log /\ info' = f
  /\ SaveOnlyPreservedVars' = FALSE

\* CheckStore, with Recover = FALSE: a damaged store is reinitialised and, if
\* that does not help and there is enough memory, compacted.
CheckStore ==
  LET f == NvInitInfoBuffer(log)
  IN \/ IsStoreOk(log, info) /\ UNCHANGED <<log, info, SaveOnlyPreservedVars>>
     \/ ~IsStoreOk(log, info) /\ log' = log /\ info' = f /\ UNCHANGED SaveOnlyPreservedVars
     \/ ~IsStoreOk(log, info) /\ ~IsStoreOk(log, f) /\ CompactStore(f)
-------------------------------------------------------------------------------
Init ==
  /\ log = [i \in DOMAIN Shipped |-> Record("complete", "head", Shipped[i], ShippedData)]
  /\ info = [first |-> 1, end |-> 0]
  /\ pc = "Off"
  /\ req = NoRequest
  /\ SaveOnlyPreservedVars = FALSE
  /\ last = NoRequest

Boot ==
  /\ pc = "Off"
  /\ info' = NvInitInfoBuffer(log)
  /\ pc' = "Idle"
  /\ UNCHANGED <<log, req, SaveOnlyPreservedVars, last>>

DxeGetVariable ==
  /\ pc = "Idle" /\ ~IsStoreOk(log, info)
  /\ CheckStore
  /\ UNCHANGED <<pc, req, last>>

DxeSetVariable(r) ==
  /\ pc = "Idle"
  /\ CheckStore
  /\ req' = r
  /\ last' = NoRequest
  /\ pc' = "Set"

Return(success) ==
  /\ pc' = "Idle"
  /\ req' = NoRequest
  /\ last' = IF success THEN req ELSE NoRequest

Continue(label) == pc' = label /\ UNCHANGED <<req, last>>

Var == NvFindVariable(log, info, req.name)
-------------------------------------------------------------------------------
(***************************************************************************)
(* DeleteVariable                                                          *)
(***************************************************************************)
DeleteMissing ==
  /\ pc = "Set" /\ req.value = Absent /\ Var = {}
  /\ Return(FALSE)
  /\ UNCHANGED <<log, info, SaveOnlyPreservedVars>>

\* A failed write of the flag may have had its effect.
DeleteVariable ==
  /\ pc = "Set" /\ req.value = Absent /\ Var # {}
  /\ \/ log' = [log EXCEPT ![Min(Var)].valid = FALSE] /\ \E ok \in BOOLEAN : Return(ok)
     \/ log' = log /\ Return(FALSE)
  /\ UNCHANGED <<info, SaveOnlyPreservedVars>>
-------------------------------------------------------------------------------
(***************************************************************************)
(* CreateVariable and UpdateVariable                                       *)
(***************************************************************************)
OldData == NvGetDataNvar(log, Min(Var), info.end)

SameData ==
  /\ pc = "Set" /\ Var # {} /\ log[OldData].data = req.value
  /\ Return(TRUE)
  /\ UNCHANGED <<log, info, SaveOnlyPreservedVars>>

Writing ==
  /\ pc = "Set" /\ req.value # Absent
  /\ Var # {} => log[OldData].data # req.value

IsEnoughSpace(l, v) == Space(l) + Size(v) <= Capacity

BeforeEnd == SubSeq(log, 1, info.end)

NoSpace ==
  /\ Writing /\ ~IsEnoughSpace(BeforeEnd, req.value)
  /\ Continue("Recover")
  /\ UNCHANGED <<log, info, SaveOnlyPreservedVars>>

NewVar(state) ==
  Record(state, IF Var = {} THEN "head" ELSE "data", req.name, req.value)

\* NvProgram: the flash at pEndOfVars is erased, or holds what is written.
Programmable ==
  ~IsStoreOk(log, info) => log[info.end + 1] \in {NewVar("torn"), NewVar("incomplete")}

\* The flash with record r at pEndOfVars.
Programmed(r) == Append(BeforeEnd, r) \o SubSeq(log, info.end + 2, Len(log))

WriteHeader ==
  /\ Writing /\ IsEnoughSpace(BeforeEnd, req.value) /\ Programmable
  /\ log' = Programmed(NewVar("incomplete"))
  /\ Continue("Body")
  /\ UNCHANGED <<info, SaveOnlyPreservedVars>>

(***************************************************************************)
(* RecoverFromFlashUpdateFailure: a record with the size of the new one    *)
(* and without a signature is left behind as a hole; after any other       *)
(* damage pEndOfVars stays, so that the store is not OK.  DxeSetVariable   *)
(* returns the error if the store is OK, and recovers otherwise.           *)
(***************************************************************************)
IsHole(r) == r.state = "incomplete" /\ Size(r.data) = Size(req.value)

\* Mutant: pEndOfVars is always moved.
SkipAnything(l) ==
  /\ log' = l
  /\ info' = [info EXCEPT !.end = IF Len(l) > @ THEN @ + 1 ELSE @]
  /\ IF IsStoreOk(log', info') THEN Return(FALSE) ELSE Continue("Recover")
  /\ UNCHANGED SaveOnlyPreservedVars

RecoverFromFlashUpdateFailure(l) ==
  /\ log' = l
  /\ info' = [info EXCEPT !.end =
               IF Len(l) > @ /\ IsHole(l[@ + 1]) THEN @ + 1 ELSE @]
  /\ IF IsStoreOk(log', info') THEN Return(FALSE) ELSE Continue("Recover")
  /\ UNCHANGED SaveOnlyPreservedVars

\* Nothing, a part or all of the header is programmed.
HeaderFails ==
  /\ Writing /\ IsEnoughSpace(BeforeEnd, req.value) /\ Programmable
  /\ \E l \in {log, Programmed(NewVar("torn")), Programmed(NewVar("incomplete"))} :
       RecoverFromFlashUpdateFailure(l)

\* The flash at pEndOfVars holds something else.
HeaderRefused ==
  /\ Writing /\ IsEnoughSpace(BeforeEnd, req.value) /\ ~Programmable
  /\ RecoverFromFlashUpdateFailure(log)

Signed == [log EXCEPT ![info.end + 1].state = "complete"]

\* GUID, name, data, checksum, then the signature: a new variable is complete.
WriteNewVar ==
  /\ pc = "Body" /\ Var = {}
  /\ log' = Signed
  /\ info' = [info EXCEPT !.end = @ + 1]
  /\ Return(TRUE)
  /\ UNCHANGED SaveOnlyPreservedVars

WriteNewData ==
  /\ pc = "Body" /\ Var # {}
  /\ log' = Signed
  /\ Continue("Link")
  /\ UNCHANGED <<info, SaveOnlyPreservedVars>>

BodyFails ==
  /\ pc = "Body"
  /\ RecoverFromFlashUpdateFailure(log) \/ RecoverFromFlashUpdateFailure(Signed)

Linked == [log EXCEPT ![OldData].next = info.end + 1]

\* The next field of the old data record.
WriteNext ==
  /\ pc = "Link" /\ log[OldData].next \in {0, info.end + 1}
  /\ log' = Linked
  /\ info' = [info EXCEPT !.end = @ + 1]
  /\ Return(TRUE)
  /\ UNCHANGED SaveOnlyPreservedVars

NextFails ==
  /\ pc = "Link"
  /\ \/ RecoverFromFlashUpdateFailure(log)
     \/ log[OldData].next = 0 /\ RecoverFromFlashUpdateFailure(Linked)
-------------------------------------------------------------------------------
(***************************************************************************)
(* The error recovery of DxeSetVariable: the other variables are copied to *)
(* a memory store and the variable is created there.  If it does not fit,  *)
(* the second pass copies only the variables on the preserve list.         *)
(***************************************************************************)
Others == CopyVariables(log, info, Kept \ {req.name})

Fits == IsEnoughSpace(Others, req.value)

WithNewVar == Append(Others, Record("complete", "head", req.name, req.value))

\* CopyVarStoreToMemStore fails before CopyVariables resets the flag.
OutOfMemory ==
  /\ pc \in ShortOfMemory
  /\ Return(FALSE)
  /\ UNCHANGED <<log, info, SaveOnlyPreservedVars>>

Recover ==
  /\ pc \in {"Recover", "SecondPass"} /\ Fits
  /\ \/ UpdateVarstore(WithNewVar) /\ Return(TRUE)
     \/ Return(FALSE) /\ UNCHANGED <<log, info>>
  /\ SaveOnlyPreservedVars' = FALSE

\* The flag is set, and CheckStore (TRUE) leaves it: the store is sound, or
\* there is no memory to compact it.
StartSecondPass ==
  /\ pc = "Recover" /\ ~Fits
  /\ IsStoreOk(log, info) \/ pc \in ShortOfMemory
  /\ SaveOnlyPreservedVars' = TRUE
  /\ Continue("SecondPass")
  /\ UNCHANGED <<log, info>>

\* CheckStore (TRUE) compacts the damaged store, which uses the flag up.
ClearDamagedStore ==
  /\ pc = "Recover" /\ ~Fits /\ ~IsStoreOk(log, info)
  /\ UpdateVarstore(CopyVariables(log, info, Preserved)) \/ UNCHANGED <<log, info>>
  /\ SaveOnlyPreservedVars' = FALSE
  /\ Return(FALSE)

\* CopyVariables has reset the flag: CheckStore (TRUE) keeps all variables.
RecoveryFails ==
  /\ pc = "SecondPass" /\ ~Fits
  /\ \/ ~IsStoreOk(log, info) /\ UpdateVarstore(CopyVariables(log, info, Names))
     \/ UNCHANGED <<log, info>>
  /\ SaveOnlyPreservedVars' = FALSE
  /\ Return(FALSE)

PowerFail ==
  /\ pc # "Off"
  /\ pc' = "Off"
  /\ info' = [first |-> 1, end |-> 0]
  /\ req' = NoRequest
  /\ SaveOnlyPreservedVars' = FALSE
  /\ UNCHANGED <<log, last>>

Next ==
  \/ Boot
  \/ DxeGetVariable
  \/ \E r \in Calls : DxeSetVariable(r)
  \/ DeleteMissing
  \/ DeleteVariable
  \/ SameData
  \/ NoSpace
  \/ WriteHeader
  \/ HeaderFails
  \/ HeaderRefused
  \/ WriteNewVar
  \/ WriteNewData
  \/ BodyFails
  \/ WriteNext
  \/ NextFails
  \/ OutOfMemory
  \/ Recover
  \/ StartSecondPass
  \/ ClearDamagedStore
  \/ RecoveryFails
  \/ PowerFail

Spec == Init /\ [][Next]_vars
-------------------------------------------------------------------------------
\* The records fit in the store, and a link leads to a later record.
TypeOK ==
  /\ Space(log) <= Capacity
  /\ \A i \in DOMAIN log :
       /\ log[i] \in [state : {"torn", "incomplete", "complete"}, kind : {"head", "data"},
                      valid : BOOLEAN, name : Names, data : Values, next : 0..Capacity]
       /\ log[i].next # 0 => log[i].next > i
  /\ info \in [first : 1..Capacity, end : 0..Capacity] /\ info.end <= Len(log)
  /\ pc \in {"Off", "Idle", "Set", "Body", "Link", "Recover", "SecondPass"}
  /\ SaveOnlyPreservedVars \in BOOLEAN
  /\ req \in Calls \union {NoRequest} /\ last \in Calls \union {NoRequest}

\* pFirstVar is a variable unless the store is empty, which NvGetFirstValid and
\* EnumerateStore rely on.
FirstVarValid ==
  pc = "Idle" /\ info.end > 0 => NvIsVariable(log, info.first, info.end)

\* What SetVariable reported as done is there after the next boot, whenever
\* that happens.
SuccessDurable ==
  last # NoRequest => BootView(log)[last.name] = last.value

\* A caller of GetVariable reads what the next boot will find.
ReadsMatchFlash ==
  pc = "Idle" /\ IsStoreOk(log, info) => View(log, info) = BootView(log)
===============================================================================
