--------------------------- MODULE NvramSwapProofs ---------------------------
(***************************************************************************)
(* Proofs about NvramSwap, for any sets of variables and values: the       *)
(* flash always holds a valid store, the running driver and the next boot  *)
(* agree on it, and the two regions implement an atomic variable store.    *)
(***************************************************************************)
EXTENDS NvramSwap, TLAPS

\* Region m of the flash state f is the only candidate: it is complete and, if
\* the other one is complete as well, the other one is marked and m is not.
ValidStore(f, m) ==
  /\ "DATA_VALID" \in f[m]
  /\ "DATA_VALID" \in f[Other(m)] =>
       "MARKED_FOR_UPDATE" \notin f[m] /\ "MARKED_FOR_UPDATE" \in f[Other(m)]

\* What a garbage collection may write: the contents s, with or without the
\* request r, with or without the variables that are not preserved.
Goals(s, r) ==
  IF r = NoRequest THEN {s} ELSE {s, Set(s, r), Cleared(s), Set(Cleared(s), r)}

FlashInv ==
  /\ ValidStore(ffs, BootStore)
  /\ content[BootStore] \in Contents

RequestInv ==
  /\ pc \notin {"InPlace", "Corrupt"}
  /\ pc = "Set" => req # NoRequest
  /\ req # NoRequest => pc \in {"Set"} \union UpdatePcs

UpdateInv ==
  /\ pc \in {"Set"} \union UpdatePcs => main = BootStore
  /\ pc \in UpdatePcs => new \in Goals(content[main], req)
  /\ pc \in {"Header", "Copy", "Commit"} => ffs[Other(main)] \subseteq HeaderFlags
  /\ pc = "Copy" => \A n \in copied : content[Other(main)][n] = new[n]
  /\ pc = "Commit" => content[Other(main)] = new /\ "MARKED_FOR_UPDATE" \in ffs[main]
  /\ pc = "Swap" => BootStore = Other(main)

IInv == TypeOK /\ FlashInv /\ RequestInv /\ UpdateInv
------------------------------------------------------------------------------
\* The two regions are each other's backup.
LEMMA OtherRegion ==
  \A m \in Regions : Other(m) \in Regions /\ Other(m) # m /\ Other(Other(m)) = m
BY DEF Regions, Other

\* A flash state with one candidate m leads every check, whichever region it
\* takes for the main one, to m.
LEMMA ValidStoreIsChosen ==
  ASSUME NEW f, NEW m \in Regions, ValidStore(f, m), NEW k \in Regions
  PROVE  /\ Checked(f, k) = m
         /\ SomeStoreValid(f, k)
         /\ IsMainNvramStoreValid(f, m)
BY DEF ValidStore, Checked, SomeStoreValid, BackupStoreValid, IsMainNvramStoreValid,
       Regions, Other

\* Carrying out a request, or dropping variables, gives the contents of a store.
LEMMA GoalsAreContents ==
  ASSUME NEW s \in Contents, NEW r \in Requests \union {NoRequest}
  PROVE  Goals(s, r) \subseteq Contents
<1>1. Cleared(s) \in Contents
  BY DEF Cleared, Contents
<1>2. ASSUME r # NoRequest, NEW t \in Contents
      PROVE  Set(t, r) \in Contents
  BY <1>2 DEF Set, Contents, Requests
<1>3. QED
  BY <1>1, <1>2 DEF Goals

\* What the invariant says about the region in use.
LEMMA StoreInUse ==
  ASSUME IInv
  PROVE  /\ BootStore \in Regions
         /\ \A k \in Regions : Checked(ffs, k) = BootStore /\ SomeStoreValid(ffs, k)
         /\ IsMainNvramStoreValid(ffs, BootStore)
<1>1. BootStore \in Regions
  BY DEF BootStore, Checked, Regions, Other
<1>2. ValidStore(ffs, BootStore)
  BY DEF IInv, FlashInv
<1>3. QED
  BY <1>1, <1>2, ValidStoreIsChosen

\* Steps that leave the flash alone leave the region in use alone.
LEMMA SameFlash ==
  ASSUME IInv, UNCHANGED flash
  PROVE  FlashInv' /\ BootStore' = BootStore
BY DEF IInv, FlashInv, flash, BootStore, Checked, IsMainNvramStoreValid,
       BackupStoreValid, ValidStore
------------------------------------------------------------------------------
\* The state a flashed image boots from satisfies the invariant.
LEMMA InitIInv == Init => IInv
<1> SUFFICES ASSUME Init PROVE IInv
  OBVIOUS
<1>1. TypeOK
  BY DEF Init, TypeOK, Regions, Flags, HeaderFlags, Contents, Empty, UpdatePcs
<1>2. BootStore = "A" /\ ValidStore(ffs, "A")
  BY DEF Init, BootStore, Checked, IsMainNvramStoreValid, ValidStore, Regions, Other,
         HeaderFlags
<1>3. FlashInv
  BY <1>2 DEF FlashInv, Init, Regions
<1>4. RequestInv /\ UpdateInv
  BY DEF RequestInv, UpdateInv, Init, UpdatePcs
<1>5. QED
  BY <1>1, <1>3, <1>4 DEF IInv

\* Typing facts about the values the actions write.
LEMMA WritesAreTyped ==
  ASSUME TypeOK
  PROVE  /\ \A r \in Regions : \A S \in SUBSET Flags :
              [ffs EXCEPT ![r] = S] \in [Regions -> SUBSET Flags]
         /\ \A r \in Regions : \A s \in [Names -> Values \union {Absent, Garbage}] :
              [content EXCEPT ![r] = s] \in [Regions -> [Names -> Values \union {Absent, Garbage}]]
         /\ \A r \in Regions : \A n \in Names : \A v \in Values \union {Absent, Garbage} :
              [content EXCEPT ![r][n] = v] \in [Regions -> [Names -> Values \union {Absent, Garbage}]]
         /\ HeaderFlags \subseteq Flags
         /\ Empty \in Contents
         /\ Contents \subseteq [Names -> Values \union {Absent, Garbage}]
<1> USE DEF TypeOK
<1>1. \A r \in Regions : \A S \in SUBSET Flags :
        [ffs EXCEPT ![r] = S] \in [Regions -> SUBSET Flags]
  OBVIOUS
<1>2. \A r \in Regions : \A s \in [Names -> Values \union {Absent, Garbage}] :
        [content EXCEPT ![r] = s] \in [Regions -> [Names -> Values \union {Absent, Garbage}]]
  OBVIOUS
<1>3. \A r \in Regions : \A n \in Names : \A v \in Values \union {Absent, Garbage} :
        [content EXCEPT ![r][n] = v] \in [Regions -> [Names -> Values \union {Absent, Garbage}]]
  OBVIOUS
<1>4. HeaderFlags \subseteq Flags
  BY DEF HeaderFlags, Flags
<1>5. Empty \in Contents /\ Contents \subseteq [Names -> Values \union {Absent, Garbage}]
  BY DEF Empty, Contents
<1>6. QED
  BY <1>1, <1>2, <1>3, <1>4, <1>5

\* If a flash write leaves the region in use valid and its variables alone, it
\* stays in use.
LEMMA StillInUse ==
  ASSUME IInv, ValidStore(ffs', BootStore), content'[BootStore] \in Contents
  PROVE  FlashInv' /\ BootStore' = BootStore
<1>1. BootStore' = BootStore
  BY StoreInUse, ValidStoreIsChosen DEF BootStore, Regions
<1>2. QED
  BY <1>1 DEF FlashInv

\* Steps of an idle driver: the flash is left alone.
LEMMA IdleSteps ==
  ASSUME IInv,
         \/ PeiInitNVHelper \/ DxeGetVariable \/ Reject \/ SwapStores \/ PowerFail
         \/ DeviceError \/ \E r \in Requests : DxeSetVariable(r)
  PROVE  IInv'
<1> USE DEF flash, UpdatePcs
<1>1. UNCHANGED flash
  BY DEF PeiInitNVHelper, DxeGetVariable, Reject, SwapStores, PowerFail, DeviceError,
         DxeSetVariable
<1>2. FlashInv' /\ BootStore' = BootStore /\ ffs' = ffs /\ content' = content
  BY <1>1, SameFlash
<1>3. "A" \in Regions /\ main \in Regions
  BY DEF IInv, TypeOK, Regions
<1>4. CASE PeiInitNVHelper \/ DxeGetVariable
  <2>1. main' = BootStore /\ pc' = "Idle" /\ UNCHANGED <<req, new, copied>> /\ req = NoRequest
    BY <1>3, <1>4, StoreInUse DEF PeiInitNVHelper, DxeGetVariable, IInv, RequestInv
  <2>2. TypeOK'
    BY <1>2, <2>1, StoreInUse DEF IInv, TypeOK
  <2>3. QED
    BY <1>2, <2>1, <2>2 DEF IInv, RequestInv, UpdateInv
<1>5. ASSUME NEW r \in Requests, DxeSetVariable(r) PROVE IInv'
  <2>1. main' = BootStore /\ pc' = "Set" /\ req' = r /\ UNCHANGED <<new, copied>>
    BY <1>3, <1>5, StoreInUse DEF DxeSetVariable
  <2>2. r # NoRequest
    BY NvramAssumption
  <2>3. TypeOK'
    BY <1>2, <2>1, StoreInUse DEF IInv, TypeOK
  <2>4. QED
    BY <1>2, <2>1, <2>2, <2>3 DEF IInv, RequestInv, UpdateInv
<1>6. CASE Reject \/ DeviceError
  <2>1. pc' = "Idle" /\ req' = NoRequest /\ UNCHANGED <<main, new, copied>>
    BY <1>6 DEF Reject, DeviceError
  <2>2. QED
    BY <1>2, <2>1 DEF IInv, TypeOK, RequestInv, UpdateInv
<1>7. CASE SwapStores
  <2>1. TypeOK'
    BY <1>2, <1>7, OtherRegion DEF SwapStores, IInv, TypeOK
  <2>2. QED
    BY <1>2, <1>7, <2>1 DEF SwapStores, IInv, RequestInv, UpdateInv
<1>8. CASE PowerFail
  <2>1. TypeOK'
    BY <1>2, <1>3, <1>8, WritesAreTyped DEF PowerFail, IInv, TypeOK
  <2>2. QED
    BY <1>2, <1>8, <2>1 DEF PowerFail, IInv, RequestInv, UpdateInv
<1>9. QED
  BY <1>4, <1>5, <1>6, <1>7, <1>8

\* A request carried out inside the store in use.
LEMMA WriteInStoreStep ==
  ASSUME IInv, WriteInStore PROVE IInv'
<1>1. /\ pc = "Set" /\ pc' = "Idle" /\ req' = NoRequest /\ req \in Requests
      /\ UNCHANGED <<ffs, main, new, copied>>
      /\ main = BootStore /\ main \in Regions
  BY DEF WriteInStore, IInv, RequestInv, UpdateInv, TypeOK
<1>2. content'[main] \in Contents
  BY <1>1 DEF WriteInStore, IInv, FlashInv, TypeOK, Contents, Requests
<1>3. FlashInv'
  BY <1>1, <1>2, StillInUse DEF IInv, FlashInv, ValidStore
<1>4. TypeOK'
  BY <1>1, WritesAreTyped DEF WriteInStore, IInv, TypeOK, Requests
<1>5. QED
  BY <1>1, <1>3, <1>4 DEF IInv, RequestInv, UpdateInv, UpdatePcs

\* The start of a garbage collection: the main header is sound, so it goes to
\* the backup region, and the memory store is one of the permitted contents.
LEMMA RecoverSteps ==
  ASSUME IInv, RecoverSetVariable \/ RecoverStore PROVE IInv'
<1> USE DEF UpdatePcs
<1>1. UNCHANGED flash
  BY DEF RecoverSetVariable, RecoverStore
<1>2. FlashInv' /\ BootStore' = BootStore /\ ffs' = ffs /\ content' = content
  BY <1>1, SameFlash DEF flash
<1>3. main \in Regions /\ content[BootStore] \in Contents
  BY DEF IInv, TypeOK, FlashInv
<1>4. main' = BootStore /\ UNCHANGED <<req, copied>>
  BY <1>3, StoreInUse DEF RecoverSetVariable, RecoverStore, IInv, UpdateInv
<1>5. pc' = "Erase"
  BY <1>3, <1>4, StoreInUse DEF RecoverSetVariable, RecoverStore, UpdateVarstore
<1>6. new' \in Goals(content[BootStore], req)
  <2>1. CASE RecoverSetVariable
    BY <1>4, <2>1 DEF RecoverSetVariable, Goals, IInv, RequestInv
  <2>2. CASE RecoverStore
    BY <1>4, <2>2 DEF RecoverStore, Goals, IInv, RequestInv
  <2>3. QED
    BY <2>1, <2>2
<1>7. new' \in Contents
  BY <1>3, <1>6, GoalsAreContents DEF IInv, TypeOK
<1>8. TypeOK'
  BY <1>2, <1>4, <1>5, <1>7, StoreInUse DEF IInv, TypeOK
<1>9. RequestInv'
  BY <1>4, <1>5 DEF IInv, RequestInv
<1>10. UpdateInv'
  BY <1>2, <1>4, <1>5, <1>6 DEF UpdateInv
<1>11. QED
  BY <1>2, <1>8, <1>9, <1>10 DEF IInv

\* Writes to the backup region before it is complete.
LEMMA BackupSteps ==
  ASSUME IInv,
         \/ EraseVariables \/ EraseBytes \/ WriteHeader \/ WritePartOfHeader
         \/ \E n \in Names : CopyVariable(n)
  PROVE  IInv'
<1> DEFINE b == Other(main)
<1> USE DEF UpdatePcs
<1>1. /\ pc \in {"Erase", "Header", "Copy"} /\ pc' \in {"Erase", "Header", "Copy"}
      /\ UNCHANGED <<main, req, new>>
      /\ main = BootStore /\ main \in Regions /\ b \in Regions /\ b # main
  BY OtherRegion DEF EraseVariables, EraseBytes, WriteHeader, WritePartOfHeader, CopyVariable,
     IInv, UpdateInv, TypeOK
<1>2. TypeOK'
  <2>1. CASE EraseVariables
    BY <1>1, <2>1, WritesAreTyped DEF EraseVariables, IInv, TypeOK
  <2>2. CASE EraseBytes
    BY <1>1, <2>2, WritesAreTyped DEF EraseBytes, IInv, TypeOK
  <2>3. CASE WriteHeader \/ WritePartOfHeader
    <3>1. PICK S \in SUBSET Flags : ffs' = [ffs EXCEPT ![b] = S]
      BY <2>3, WritesAreTyped DEF WriteHeader, WritePartOfHeader, IInv
    <3>2. content' = content /\ copied' \in SUBSET Names
      BY <2>3 DEF WriteHeader, WritePartOfHeader, IInv, TypeOK
    <3>3. QED
      BY <1>1, <3>1, <3>2, WritesAreTyped DEF IInv, TypeOK
  <2>4. ASSUME NEW n \in Names, CopyVariable(n) PROVE TypeOK'
    <3>1. new[n] \in Values \union {Absent, Garbage}
      BY DEF IInv, TypeOK, Contents
    <3>2. QED
      BY <1>1, <2>4, <3>1, WritesAreTyped DEF CopyVariable, IInv, TypeOK
  <2>5. QED
    BY <2>1, <2>2, <2>3, <2>4
<1>3. ffs'[main] = ffs[main] /\ content'[main] = content[main]
  BY <1>1 DEF EraseVariables, EraseBytes, WriteHeader, WritePartOfHeader, CopyVariable,
     IInv, TypeOK
<1>4. /\ "DATA_VALID" \in ffs'[b] => ffs'[b] = ffs[b]
      /\ pc' \in {"Header", "Copy"} => ffs'[b] \subseteq HeaderFlags
  BY <1>1 DEF EraseVariables, EraseBytes, WriteHeader, WritePartOfHeader, CopyVariable,
     IInv, TypeOK, UpdateInv, HeaderFlags
<1>5. FlashInv' /\ BootStore' = BootStore
  <2>1. ValidStore(ffs', BootStore)
    BY <1>1, <1>3, <1>4 DEF IInv, FlashInv, ValidStore
  <2>2. content'[BootStore] \in Contents
    BY <1>1, <1>3 DEF IInv, FlashInv
  <2>3. QED
    BY <2>1, <2>2, StillInUse
<1>6. RequestInv'
  BY <1>1 DEF IInv, RequestInv
<1>7. pc' = "Copy" => \A n \in copied' : content'[b][n] = new[n]
  BY <1>1 DEF EraseVariables, EraseBytes, WriteHeader, WritePartOfHeader, CopyVariable,
     IInv, TypeOK, UpdateInv
<1>8. UpdateInv'
  BY <1>1, <1>3, <1>4, <1>5, <1>7 DEF IInv, UpdateInv
<1>9. QED
  BY <1>2, <1>5, <1>6, <1>8 DEF IInv

\* The mark on the main store, while the backup is not valid yet.
LEMMA MarkMainStep ==
  ASSUME IInv, MarkMain PROVE IInv'
<1> DEFINE b == Other(main)
<1> USE DEF UpdatePcs
<1>1. /\ pc = "Copy" /\ pc' \in {"Commit", "Idle"} /\ copied = Names
      /\ UNCHANGED <<content, main, new, copied>>
      /\ req' \in {req, NoRequest} /\ (pc' = "Idle" => req' = NoRequest)
      /\ (pc' = "Commit" => req' = req)
      /\ main = BootStore /\ main \in Regions /\ b \in Regions /\ b # main
      /\ ffs[b] \subseteq HeaderFlags
  BY OtherRegion DEF MarkMain, IInv, UpdateInv, TypeOK
<1>2. TypeOK'
  BY <1>1, WritesAreTyped DEF MarkMain, IInv, TypeOK, Flags
<1>3. /\ ffs'[b] = ffs[b] /\ "MARKED_FOR_UPDATE" \in ffs'[main]
      /\ "DATA_VALID" \in ffs[main] => "DATA_VALID" \in ffs'[main]
  BY <1>1 DEF MarkMain, IInv, TypeOK
<1>4. FlashInv' /\ BootStore' = BootStore
  BY <1>1, <1>3, StillInUse DEF IInv, FlashInv, ValidStore, HeaderFlags
<1>5. content[b] = new
  <2>1. \A n \in Names : content[b][n] = new[n]
    BY <1>1 DEF IInv, UpdateInv
  <2>2. QED
    BY <1>1, <2>1 DEF IInv, TypeOK, Contents
<1>6. RequestInv' /\ UpdateInv'
  BY <1>1, <1>3, <1>4, <1>5 DEF IInv, RequestInv, UpdateInv
<1>7. QED
  BY <1>2, <1>4, <1>6 DEF IInv

\* The commit: the backup region becomes the one in use.
LEMMA SetDataValidStep ==
  ASSUME IInv, SetDataValid
  PROVE  IInv' /\ BootStore' = Other(main) /\ content'[BootStore'] = new
<1> DEFINE b == Other(main)
<1> USE DEF UpdatePcs
<1>1. /\ pc = "Commit" /\ pc' \in {"Swap", "Idle"} /\ req' = NoRequest
      /\ UNCHANGED <<content, main, new, copied>>
      /\ main \in Regions /\ b \in Regions /\ b # main /\ Other(b) = main
      /\ content[b] = new /\ "MARKED_FOR_UPDATE" \in ffs[main]
  BY OtherRegion DEF SetDataValid, IInv, UpdateInv, TypeOK
<1>2. TypeOK'
  BY <1>1, WritesAreTyped DEF SetDataValid, IInv, TypeOK, Flags
<1>3. /\ ffs'[main] = ffs[main] /\ "DATA_VALID" \in ffs'[b]
      /\ "MARKED_FOR_UPDATE" \in ffs'[b] => "MARKED_FOR_UPDATE" \in ffs[b]
  BY <1>1 DEF SetDataValid, IInv, TypeOK
<1>4. "MARKED_FOR_UPDATE" \notin ffs[b]
  BY <1>1 DEF IInv, UpdateInv, HeaderFlags
<1>5. ValidStore(ffs', b)
  BY <1>1, <1>3, <1>4 DEF ValidStore
<1>6. BootStore' = b
  BY <1>1, <1>5, ValidStoreIsChosen DEF BootStore, Regions
<1>7. FlashInv'
  BY <1>1, <1>5, <1>6 DEF FlashInv, IInv, TypeOK
<1>8. RequestInv' /\ UpdateInv'
  BY <1>1, <1>6 DEF RequestInv, UpdateInv
<1>9. QED
  BY <1>1, <1>2, <1>6, <1>7, <1>8 DEF IInv

\* A step that changes nothing keeps the invariant.
LEMMA StutterStep ==
  ASSUME IInv, UNCHANGED vars PROVE IInv'
BY DEF vars, IInv, TypeOK, FlashInv, RequestInv, UpdateInv, BootStore, Checked,
       IsMainNvramStoreValid, BackupStoreValid, ValidStore

\* Every step of the driver, of the flash part and of the power keeps the
\* invariant.
LEMMA NextIInv == IInv /\ [Next]_vars => IInv'
BY IdleSteps, WriteInStoreStep, RecoverSteps, BackupSteps, MarkMainStep,
   SetDataValidStep, StutterStep DEF Next

\* The inductive invariant holds in every reachable state.
THEOREM Invariance == Spec => []IInv
BY InitIInv, NextIInv, PTL DEF Spec

\* Every variable of the model keeps its type.
THEOREM TypeCorrect == Spec => []TypeOK
<1>1. IInv => TypeOK
  BY DEF IInv
<1>2. QED
  BY <1>1, Invariance, PTL

\* Whenever the power fails, the next boot (PeiInitNVHelper) finds a valid and
\* complete store; UpdateVarstore never has to rewrite the only store in place.
THEOREM Recoverable == Spec => []AlwaysRecoverable
<1>1. IInv => AlwaysRecoverable
  BY StoreInUse DEF IInv, FlashInv, RequestInv, AlwaysRecoverable, Regions
<1>2. QED
  BY <1>1, Invariance, PTL

\* After CheckStore the running driver uses the region the next boot will use.
THEOREM Agreement == Spec => []RuntimeAgreesWithBoot
<1>1. IInv => RuntimeAgreesWithBoot
  BY StoreInUse DEF IInv, TypeOK, RuntimeAgreesWithBoot
<1>2. QED
  BY <1>1, Invariance, PTL
------------------------------------------------------------------------------
\* The variable operators of the abstract store are the ones of this module.
LEMMA InitRefines == Init => VS!Init
<1> SUFFICES ASSUME Init PROVE VS!Init
  OBVIOUS
<1>1. content[BootStore] \in Contents
  BY InitIInv DEF IInv, FlashInv
<1>2. QED
  BY <1>1 DEF Init, VS!Init, VS!Contents, Contents

\* Each step is a step of the abstract store or leaves it alone.
LEMMA NextRefines == IInv /\ [Next]_vars => [VS!Next]_VS!vars
<1> SUFFICES ASSUME IInv, [Next]_vars PROVE [VS!Next]_VS!vars
  OBVIOUS
<1> USE DEF VS!vars
<1>1. ASSUME UNCHANGED flash
      PROVE  content'[BootStore'] = content[BootStore]
  BY <1>1, SameFlash DEF flash
<1>2. CASE UNCHANGED vars
  BY <1>1, <1>2 DEF vars, flash
<1>3. CASE PeiInitNVHelper \/ DxeGetVariable \/ RecoverSetVariable \/ RecoverStore \/ SwapStores
  BY <1>1, <1>3 DEF PeiInitNVHelper, DxeGetVariable, RecoverSetVariable, RecoverStore, SwapStores
<1>4. ASSUME NEW r \in Requests, DxeSetVariable(r) PROVE VS!Next
  <2>1. content'[BootStore'] = content[BootStore] /\ req = NoRequest /\ req' = r
    BY <1>1, <1>4 DEF DxeSetVariable, IInv, RequestInv, UpdatePcs
  <2>2. QED
    BY <2>1 DEF VS!Next, VS!SetVariable, VS!Requests, Requests
<1>5. CASE WriteInStore
  <2>1. req # NoRequest /\ main = BootStore /\ main \in Regions /\ req' = NoRequest
    BY <1>5 DEF WriteInStore, IInv, RequestInv, UpdateInv, TypeOK
  <2>2. BootStore' = BootStore
    BY <1>5 DEF WriteInStore, BootStore, Checked, IsMainNvramStoreValid, BackupStoreValid
  <2>3. content'[BootStore'] = [content[BootStore] EXCEPT ![req.name] = req.value]
    BY <1>5, <2>1, <2>2 DEF WriteInStore, IInv, TypeOK
  <2>4. QED
    BY <2>1, <2>3 DEF VS!Next, VS!Commit, VS!Set
<1>6. CASE Reject \/ DeviceError \/ PowerFail
  <2>1. content'[BootStore'] = content[BootStore] /\ req' = NoRequest
    BY <1>1, <1>6 DEF Reject, DeviceError, PowerFail
  <2>2. QED
    BY <2>1 DEF VS!Next, VS!Abort
<1>7. CASE \/ EraseVariables \/ EraseBytes \/ WriteHeader \/ WritePartOfHeader
           \/ \E n \in Names : CopyVariable(n)
  <2>1. req' = req /\ main' = main /\ pc' \in UpdatePcs
    BY <1>7 DEF EraseVariables, EraseBytes, WriteHeader, WritePartOfHeader, CopyVariable,
       UpdatePcs
  <2>2. main = BootStore /\ main' = BootStore' /\ main \in Regions
    BY <1>7, <2>1, BackupSteps DEF IInv, UpdateInv, TypeOK, UpdatePcs, EraseVariables,
       EraseBytes, WriteHeader, WritePartOfHeader, CopyVariable
  <2>3. content'[main] = content[main]
    BY <1>7, <2>2, OtherRegion DEF EraseVariables, EraseBytes, WriteHeader,
       WritePartOfHeader, CopyVariable, IInv, TypeOK
  <2>4. QED
    BY <2>1, <2>2, <2>3
<1>8. CASE MarkMain
  <2>1. req' \in {req, NoRequest} /\ content' = content
    BY <1>8 DEF MarkMain
  <2>2. BootStore' = BootStore
    <3>1. /\ main = BootStore /\ main \in Regions /\ Other(main) # main
          /\ ffs[Other(main)] \subseteq HeaderFlags
      BY <1>8, OtherRegion DEF MarkMain, IInv, UpdateInv, TypeOK, UpdatePcs
    <3>2. ValidStore(ffs', BootStore)
      BY <1>8, <3>1, OtherRegion DEF MarkMain, IInv, TypeOK, FlashInv, ValidStore, HeaderFlags
    <3>3. QED
      BY <2>1, <3>2, StillInUse DEF IInv, FlashInv
  <2>3. QED
    BY <2>1, <2>2 DEF VS!Next, VS!Abort
<1>9. CASE SetDataValid
  <2>1. content'[BootStore'] \in Goals(content[BootStore], req) /\ req' = NoRequest
    BY <1>9, SetDataValidStep DEF SetDataValid, IInv, UpdateInv, UpdatePcs
  <2>2. CASE req = NoRequest
    BY <2>1, <2>2 DEF Goals
  <2>3. CASE req # NoRequest
    BY <2>1, <2>3 DEF Goals, Set, Cleared, VS!Next, VS!Commit, VS!Abort, VS!Set, VS!Cleared
  <2>4. QED
    BY <2>2, <2>3
<1>10. QED
  BY <1>2, <1>3, <1>4, <1>5, <1>6, <1>7, <1>8, <1>9 DEF Next

\* The two regions, as a boot sees them, implement the atomic variable store.
THEOREM Refinement == Spec => RefinesVariableStore
BY Invariance, InitRefines, NextRefines, PTL DEF Spec, RefinesVariableStore, VS!Spec
==============================================================================
