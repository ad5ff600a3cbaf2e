------------------------------ MODULE MCNvramLog ------------------------------
(***************************************************************************)
(* Instances of NvramLog.  The variable setup stands for the variables a   *)
(* board always has: it is never deleted.                                  *)
(***************************************************************************)
EXTENDS NvramLog

CONSTANT setup

MCShipped == <<setup>>
MCEmpty   == <<>>

MCCalls ==
  {r \in [name : Names, value : Values \union {Absent}] : r # [name |-> setup, value |-> Absent]}
===============================================================================
