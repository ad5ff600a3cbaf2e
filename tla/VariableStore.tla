---------------------------- MODULE VariableStore ----------------------------
(***************************************************************************)
(* What the non-volatile variable services promise: a map from variables   *)
(* to values in which a SetVariable request takes effect at once or not at *)
(* all, whatever power failures and flash errors happen meanwhile.  When   *)
(* there is no room left, the driver drops the variables that are not on   *)
(* the preserve list; the request may then still fail.                     *)
(***************************************************************************)
CONSTANTS
  Names,      \* variables (name and vendor GUID)
  Values,     \* data a variable can hold
  Absent,     \* the value of a variable that does not exist
  Preserved,  \* variables on the preserve list
  NoRequest   \* no request is in progress

Contents == [Names -> Values \union {Absent}]
Requests == [name : Names, value : Values \union {Absent}]

VARIABLES store, request

vars == <<store, request>>

\* The contents s with request r carried out; reduced to the preserve list.
Set(s, r)  == [s EXCEPT ![r.name] = r.value]
Cleared(s) == [n \in Names |-> IF n \in Preserved THEN s[n] ELSE Absent]

Init ==
  /\ store \in Contents
  /\ request = NoRequest

SetVariable(r) ==
  /\ request = NoRequest
  /\ request' = r
  /\ UNCHANGED store

Commit ==
  /\ request # NoRequest
  /\ store' \in {Set(store, request), Set(Cleared(store), request)}
  /\ request' = NoRequest

Abort ==
  /\ request # NoRequest
  /\ store' \in {store, Cleared(store)}
  /\ request' = NoRequest

Next == (\E r \in Requests : SetVariable(r)) \/ Commit \/ Abort

Spec == Init /\ [][Next]_vars
==============================================================================
