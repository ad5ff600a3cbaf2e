---------------------------- MODULE NvramLogStore ----------------------------
(***************************************************************************)
(* The log of NvramLog as a variable store.  The variables a boot would    *)
(* find are kept in a variable of their own, so that TLC computes them     *)
(* once per step.                                                          *)
(***************************************************************************)
EXTENDS MCNvramLog

\* The variable setup is on the preserve list and nobody deletes it.
ASSUME SetupAssumption ==
  /\ setup \in Preserved
  /\ \E i \in DOMAIN Shipped : Shipped[i] = setup
  /\ [name |-> setup, value |-> Absent] \notin Calls

VARIABLE store

StoreInit == Init /\ store = BootView(log)
StoreNext == Next /\ store' = BootView(log')
StoreSpec == StoreInit /\ [][StoreNext]_<<vars, store>>

\* The request is carried out once the flash holds it, even if the driver is
\* still recovering from a write that was reported as failed.
Pending ==
  IF pc \in {"Off", "Idle", "Set"} \/ store[req.name] # req.value THEN req ELSE NoRequest

\* To a boot, the log is a variable store on which every request is atomic,
\* whatever writes fail and wherever the power is lost.
VS == INSTANCE VariableStore WITH request <- Pending
RefinesVariableStore == VS!Spec

\* However full and however damaged the store is, a variable on the preserve
\* list changes only by a request for it.
PreservedKept ==
  [][\A n \in Preserved : store'[n] # store[n] => req # NoRequest /\ req.name = n]_store

\* A variable that nobody deletes disappears only in a SetVariable for which a
\* compacted store has no room: SaveOnlyPreservedVars does not outlive the call
\* that sets it.
DroppedOnlyWhenFull ==
  [][\A n \in Names :
       store[n] # Absent /\ store'[n] = Absent =>
         \/ req # NoRequest /\ req.name = n
         \/ /\ pc \in {"Recover", "SecondPass"}
            /\ ~IsEnoughSpace(CopyVariables(log, info, Names \ {req.name}), req.value)]_store
==============================================================================
