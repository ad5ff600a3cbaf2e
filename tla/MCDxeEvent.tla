----------------------------- MODULE MCDxeEvent -----------------------------
(***************************************************************************)
(* Four events for DxeEvent: a timer with a notification function, an      *)
(* event to wait for that is a timer too, and a group of two events at     *)
(* different TPLs.                                                         *)
(***************************************************************************)
EXTENDS DxeEvent, TLC

CONSTANTS poll, ready, gA, gB, grp

MCEvents == {poll, ready, gA, gB}
MCKind == poll :> "signal" @@ ready :> "wait" @@ gA :> "signal" @@ gB :> "signal"
MCTplOf == poll :> Callback @@ ready :> Callback @@ gA :> Callback @@ gB :> Notify
MCGroupOf == poll :> NoGroup @@ ready :> NoGroup @@ gA :> grp @@ gB :> grp
MCTimerEvents == {poll, ready}
MCExisting == <<poll, gA, gB>>
MCWaitLists == {<<ready>>, <<ready, gA>>}
==============================================================================
