----------------------------- MODULE MCReFlash -----------------------------
(***************************************************************************)
(* Builds of the firmware for ReFlash                                      *)
(***************************************************************************)
EXTENDS ReFlash

\* The default of the module FtRecovery: the backup is part of the image
BuildTime == [ft |-> TRUE, backup |-> TRUE, capsules |-> TRUE]

\* A backup made at run time
RuntimeBackup == [ft |-> TRUE, backup |-> FALSE, capsules |-> TRUE]

\* The configuration of the board: no fault tolerance
Board == [ft |-> FALSE, backup |-> FALSE, capsules |-> TRUE]

MCBuilds == {BuildTime, RuntimeBackup, Board}
MCRuntimeBackup == {[RuntimeBackup EXCEPT !.capsules = FALSE]}
=============================================================================
