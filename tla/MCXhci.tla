------------------------------- MODULE MCXhci -------------------------------
(***************************************************************************)
(* The smallest rings in which a TD crosses the Link: a transfer of three  *)
(* bytes at an odd address takes two rounds, the first of them two TRBs.   *)
(***************************************************************************)
EXTENDS Xhci

MCSize == [bulk |-> 3, int |-> 1]
MCTransfers == {<<1, 3>>}
=============================================================================
