------------------------------ MODULE MCMtftp4 ------------------------------
(***************************************************************************)
(* Files for Mtftp4 with block numbers 0, 1 and 2.                         *)
(***************************************************************************)
EXTENDS Mtftp4

Download(size, buffer, timeout) ==
  [op |-> "RRQ", size |-> size, buffer |-> buffer, source |-> "Buffer", timeout |-> timeout]
Upload(size, source, timeout) ==
  [op |-> "WRQ", size |-> size, buffer |-> size, source |-> source, timeout |-> timeout]

MCTokens == {Download(10, 10, 1), Download(3, 1, 2),
             Upload(1, "Buffer", 2), Upload(7, "PacketNeeded", 1)}
==============================================================================
