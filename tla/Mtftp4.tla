------------------------------- MODULE Mtftp4 -------------------------------
(***************************************************************************)
(* The MTFTP4 client of the network stack (AmiNetworkPkg, Mtftp4Dxe): one  *)
(* child instance that downloads (RRQ) and uploads (WRQ) files with a      *)
(* server over a network that loses, duplicates and reorders packets.      *)
(*                                                                         *)
(* Block numbers have 16 bits in the code and roll over to zero; here they *)
(* are 0 .. Bound.  The input callbacks, the timer tick and the calls of   *)
(* the user run at TPL_CALLBACK, so each of them is one action.  Lengths   *)
(* are in bytes and a full block has BlkSize of them.  The server and the  *)
(* network are external.  Multicast downloads are not modelled: the client *)
(* is always the master.                                                   *)
(***************************************************************************)
EXTENDS Integers, Sequences, SequencesExt

CONSTANTS Bound,        \* the greatest block number, 0xffff in the code
          BlkSize,      \* MTFTP4_DEFAULT_BLKSIZE
          MaxRetry,     \* Config->TryCount
          Tokens,       \* what the user may ask for: records of the
                        \* operation, the sizes of the file and of the
                        \* user's buffer, the source of an upload and
                        \* Override->TimeoutValue in ticks
          Replies,      \* how a server may answer a request
          Window,       \* packets under way in one direction
          Ports,        \* ports the server can allocate in an operation
          MaxDups,      \* packets duplicated in an operation
          ServerRetries \* retransmissions of one server session

\* A packet does not live for a whole round of block numbers (Window).
ASSUME Mtftp4Assumption ==
  /\ {Bound, BlkSize, MaxRetry, Window} \subseteq Nat \ {0}
  /\ {Ports, MaxDups, ServerRetries} \subseteq Nat
  /\ Window <= Bound
  /\ Replies \subseteq {"plain", "oack", "malformed", "error"}
  /\ \A t \in Tokens :
       /\ t.op \in {"RRQ", "WRQ"}
       /\ t.size \in Nat /\ t.buffer \in Nat
       /\ t.source \in {"Buffer", "PacketNeeded"} /\ t.timeout \in Nat \ {0}

VARIABLES
  State,                    \* Instance->State
  Operation, Blocks, LastBlock, ConnectedPort, LastPacket,
  PacketToLive, CurRetry,   \* fields of Instance that an operation uses
  token,                    \* what the user asked for last
  Status, Buffer, BufferSize,   \* the fields of the token that change
  given,                    \* chunks that PacketNeeded has returned
  server,                   \* the server's sessions, by port
  toServer, toClient,       \* packets under way, in the order sent
  dups                      \* packets duplicated in this operation

instance == <<Operation, Blocks, LastBlock, ConnectedPort, LastPacket,
              PacketToLive, CurRetry>>
request == <<State, token>>
vars == <<instance, request, Status, Buffer, BufferSize, given, server,
          toServer, toClient, dups>>

-----------------------------------------------------------------------------
(***************************************************************************)
(* Files: block i of a file has BlkSize bytes, but for the last one, which *)
(* has fewer and may be empty.  The content of a block is who sent it, the *)
(* client or a session of the server, and its place in the file.           *)
(***************************************************************************)
BlockCount(size) == size \div BlkSize + 1
BlockLen(size, i) == CASE i < BlockCount(size) -> BlkSize
                       [] i = BlockCount(size) -> size % BlkSize
                       [] OTHER -> 0

Client == 0
Content(src, i) == [src |-> src, pos |-> i]
Unwritten == Content(Client, 0)

\* A block number in the 16 bits that a packet has for it
Wire(i) == i % (Bound + 1)

-----------------------------------------------------------------------------
(***************************************************************************)
(* The block ranges: what is still to be transferred                       *)
(***************************************************************************)
BlockRange(start, end, bound, round) ==
  [Start |-> start, End |-> end, Bound |-> bound, Round |-> round]

AllocateRange(start, end) == BlockRange(start, end, end, 0)

InitBlockRange(start, end) == <<AllocateRange(start, end)>>

\* The same range with another end
EndingAt(r, end) == BlockRange(r.Start, end, r.Bound, r.Round)

GetNextBlockNum(b) == IF b = <<>> THEN -1 ELSE Head(b).Start

\* Mutant: one block number too many is kept.
SetLastPast(b, last) ==
  LET k == SelectLastInSeq(b, LAMBDA r : r.Start <= last)
  IN  IF k > 0 /\ b[k].End > last
      THEN Append(SubSeq(b, 1, k - 1), EndingAt(b[k], last + 1))
      ELSE SubSeq(b, 1, k)

SetLastBlockNum(b, last) ==
  LET k == SelectLastInSeq(b, LAMBDA r : r.Start <= last)
  IN  IF k > 0 /\ b[k].End > last
      THEN Append(SubSeq(b, 1, k - 1), EndingAt(b[k], last))
      ELSE SubSeq(b, 1, k)

\* The first range that does not end before num, 0 if there is none
RangeOf(b, num) == SelectInSeq(b, LAMBDA r : r.End >= num)

BlockFound(b, num) == RangeOf(b, num) > 0 /\ b[RangeOf(b, num)].Start <= num

\* The first block of a range is removed: its number rolls over to zero.
AdvanceRange(r) ==
  IF r.Start + 1 > r.Bound
  THEN BlockRange(0, r.End, r.Bound, r.Round + 1)
  ELSE BlockRange(r.Start + 1, r.End, r.Bound, r.Round)

RemoveBlockNum(b, num, completed) ==
  LET i == RangeOf(b, num)
      r == b[i]
  IN  CASE ~BlockFound(b, num) -> b
        [] BlockFound(b, num) /\ r.Start = num ->
             IF completed \/ AdvanceRange(r).Start > r.End
             THEN RemoveAt(b, i)
             ELSE ReplaceAt(b, i, AdvanceRange(r))
        [] BlockFound(b, num) /\ r.Start < num /\ r.End = num ->
             ReplaceAt(b, i, EndingAt(r, num - 1))
        [] OTHER ->
             InsertAt(ReplaceAt(b, i, EndingAt(r, num - 1)), i + 1,
                      AllocateRange(num + 1, r.End))

\* The number of a block in the file, set when its range starts with it
TotalBlock(b, num) ==
  LET r == b[RangeOf(b, num)]
  IN  IF r.Round > 0
      THEN num + r.Bound + (r.Round - 1) * (r.Bound + 1) + 1
      ELSE num

-----------------------------------------------------------------------------
(***************************************************************************)
(* The network, in each direction: a packet may be overtaken, stay for a   *)
(* second delivery or be lost; it is lost at the latest when Window later  *)
(* packets have been sent, which the first in the line sees first.         *)
(***************************************************************************)
Older(p) == [port |-> p.port, age |-> p.age + 1, pkt |-> p.pkt]

\* The packets that stay under way when another one is sent
Staying(way) ==
  IF way # <<>> /\ Head(way).age + 1 >= Window THEN Tail(way) ELSE way

Post(way, p) ==
  Append([i \in DOMAIN Staying(way) |-> Older(Staying(way)[i])], p)

Delivered(again) == /\ again => dups < MaxDups
                    /\ dups' = IF again THEN dups + 1 ELSE dups

Rest(way, i, again) == IF again THEN way ELSE RemoveAt(way, i)

\* Packets; requests go to the port the server listens on.
Listening == 0
NoPacket == [op |-> "none"]
Request(op) == [op |-> op]
Ack(i) == [op |-> "ACK", block |-> i]
Data(i, content, len) ==
  [op |-> "DATA", block |-> i, data |-> content, len |-> len]
Oack(valid) == [op |-> "OACK", valid |-> valid]
Error == [op |-> "ERROR"]

Addressed(pkt, port) ==
  [port |-> IF pkt.op \in {"RRQ", "WRQ"} THEN Listening ELSE port,
   age  |-> 0,
   pkt  |-> pkt]

-----------------------------------------------------------------------------
(***************************************************************************)
(* Sending, retransmission and the end of an operation                     *)
(***************************************************************************)
SendPacket(pkt, port) ==
  /\ LastPacket' = pkt
  /\ CurRetry' = 0
  /\ PacketToLive' = token.timeout
  /\ toServer' = Post(toServer, Addressed(pkt, port))

Retransmit(port) == toServer' = Post(toServer, Addressed(LastPacket, port))

\* Mutant: the number of the last block is kept for the next operation.
CleanKeepsLastBlock(result) ==
  /\ Status' = IF Operation # "none" THEN result ELSE Status
  /\ Operation' = "none"
  /\ Blocks' = <<>>
  /\ LastBlock' = LastBlock
  /\ ConnectedPort' = 0
  /\ LastPacket' = NoPacket
  /\ PacketToLive' = 0
  /\ CurRetry' = 0
  /\ toClient' = <<>>

\* The UDP port is closed: packets that are still under way to it are lost.
CleanOperation(result) ==
  /\ Status' = IF Operation # "none" THEN result ELSE Status
  /\ Operation' = "none"
  /\ Blocks' = <<>>
  /\ LastBlock' = 0
  /\ ConnectedPort' = 0
  /\ LastPacket' = NoPacket
  /\ PacketToLive' = 0
  /\ CurRetry' = 0
  /\ toClient' = <<>>

\* An ERROR packet, then the end of the operation
FailWith(result, port) ==
  /\ toServer' = Post(toServer, Addressed(Error, port))
  /\ CleanOperation(result)

-----------------------------------------------------------------------------
(***************************************************************************)
(* The user: Configure, and ReadFile or WriteFile (Mtftp4Start).  Each     *)
(* operation has a UDP port of its own: packets and sessions of earlier    *)
(* operations are of no concern to it.                                     *)
(***************************************************************************)
NoToken == [op |-> "none"]

Init ==
  /\ State = "UNCONFIGED"
  /\ Operation = "none" /\ Blocks = <<>> /\ LastBlock = 0
  /\ ConnectedPort = 0 /\ LastPacket = NoPacket
  /\ PacketToLive = 0 /\ CurRetry = 0
  /\ token = NoToken
  /\ Status = "NOT_STARTED" /\ Buffer = <<>> /\ BufferSize = 0
  /\ given = 0
  /\ server = <<>> /\ toServer = <<>> /\ toClient = <<>> /\ dups = 0

Configure ==
  /\ State = "UNCONFIGED"
  /\ State' = "CONFIGED"
  /\ UNCHANGED <<instance, token, Status, Buffer, BufferSize,
                 given, server, toServer, toClient, dups>>

\* Configure with no data: a pending operation is aborted.
ConfigureReset ==
  /\ State = "CONFIGED"
  /\ State' = "UNCONFIGED"
  /\ CleanOperation("ABORTED")
  /\ UNCHANGED <<token, Buffer, BufferSize, given, server,
                 toServer, dups>>

FirstBlock(op) == IF op = "WRQ" THEN 0 ELSE 1

Start(t) ==
  /\ State = "CONFIGED"
  /\ Operation = "none"
  /\ token' = t
  /\ Status' = "NOT_READY"
  /\ Buffer' = [i \in 1 .. BlockCount(t.size) |->
                  IF t.op = "WRQ" THEN Content(Client, i) ELSE Unwritten]
  /\ BufferSize' = t.buffer
  /\ given' = 0
  /\ Operation' = t.op
  /\ Blocks' = Blocks \o InitBlockRange(FirstBlock(t.op), Bound)
  /\ LastPacket' = Request(t.op)
  /\ CurRetry' = 0
  /\ PacketToLive' = t.timeout
  /\ ConnectedPort' = 0
  /\ toServer' = <<Addressed(Request(t.op), Listening)>>
  /\ server' = <<>>
  /\ dups' = 0
  /\ UNCHANGED <<State, LastBlock, toClient>>

-----------------------------------------------------------------------------
(***************************************************************************)
(* Download: Mtftp4RrqInput for a packet p that comes from the connected   *)
(* port, or connects to its port; rest is what stays under way             *)
(***************************************************************************)
\* Mutant: a packet from another port is taken, and answered there.
AcceptedFromAnywhere(p) == TRUE

Accepted(p) == ConnectedPort \in {0, p.port}

\* The packet makes no difference, but for the port it may have fixed.
Ignored(p, rest) ==
  /\ toClient' = rest
  /\ ConnectedPort' = p.port
  /\ UNCHANGED <<Operation, Blocks, LastBlock, LastPacket, PacketToLive,
                 CurRetry, toServer, Status, Buffer, BufferSize, given>>

RrqRetransmit(p, rest) ==
  /\ GetNextBlockNum(Blocks) # p.pkt.block
  /\ toClient' = rest
  /\ ConnectedPort' = p.port
  /\ Retransmit(p.port)
  /\ UNCHANGED <<Operation, Blocks, LastBlock, LastPacket, PacketToLive,
                 CurRetry, Status, Buffer, BufferSize, given>>

\* Whether the block is the last one, as its length tells
IsLast(p) == p.pkt.len < BlkSize

\* The ranges when Mtftp4RemoveBlockNum is called for the block
Trimmed(p) ==
  IF IsLast(p) THEN SetLastBlockNum(Blocks, p.pkt.block) ELSE Blocks

Remaining(p) == RemoveBlockNum(Trimmed(p), p.pkt.block, IsLast(p))

BlockEnd(p) ==
  (TotalBlock(Trimmed(p), p.pkt.block) - 1) * BlkSize + p.pkt.len

\* LastBlock as Mtftp4RrqSaveBlock sets it
LastSeen(p) == IF IsLast(p) THEN p.pkt.block ELSE LastBlock

TooSmall(p) == BlockEnd(p) > BufferSize /\ LastSeen(p) # 0

\* The block is copied if it fits, and the next one asked for; an ACK of
\* the last block ends the operation.
RrqSaveBlock(p) ==
  IF BlockEnd(p) <= BufferSize
  THEN /\ Buffer' = [Buffer EXCEPT
                       ![TotalBlock(Trimmed(p), p.pkt.block)] = p.pkt.data]
       /\ BufferSize' = IF IsLast(p) THEN BlockEnd(p) ELSE BufferSize
  ELSE UNCHANGED <<Buffer, BufferSize>>

RrqSendAck(p, rest) ==
  LET next == GetNextBlockNum(Remaining(p))
  IN  IF next < 0
      THEN /\ toServer' = Post(toServer, Addressed(Ack(LastSeen(p)), p.port))
           /\ CleanOperation("SUCCESS")
      ELSE /\ SendPacket(Ack(Wire(next - 1)), p.port)
           /\ Blocks' = Remaining(p)
           /\ LastBlock' = LastSeen(p)
           /\ ConnectedPort' = p.port
           /\ toClient' = rest
           /\ UNCHANGED <<Operation, Status>>

RrqHandleData(p, rest) ==
  /\ p.pkt.op = "DATA"
  /\ \/ RrqRetransmit(p, rest)
     \/ /\ GetNextBlockNum(Blocks) = p.pkt.block
        /\ \/ TooSmall(p) /\ BufferSize' = BlockEnd(p)
              /\ FailWith("BUFFER_TOO_SMALL", p.port) /\ UNCHANGED Buffer
           \/ ~TooSmall(p) /\ RrqSaveBlock(p) /\ RrqSendAck(p, rest)
        /\ UNCHANGED given

RrqHandleOack(p, rest) ==
  /\ p.pkt.op = "OACK"
  /\ \/ GetNextBlockNum(Blocks) # 1 /\ Ignored(p, rest)
     \/ /\ GetNextBlockNum(Blocks) = 1
        /\ \/ ~p.pkt.valid /\ FailWith("TFTP_ERROR", p.port)
           \/ /\ p.pkt.valid
              /\ SendPacket(Ack(0), p.port)
              /\ ConnectedPort' = p.port
              /\ toClient' = rest
              /\ UNCHANGED <<Operation, Blocks, LastBlock, Status>>
        /\ UNCHANGED <<Buffer, BufferSize, given>>

-----------------------------------------------------------------------------
(***************************************************************************)
(* Upload: Mtftp4WrqInput                                                  *)
(***************************************************************************)
\* Block number num, out of the user's buffer or from PacketNeeded.  Number
\* 0 stands for the bytes in front of the buffer: Start is -BlkSize there,
\* and Start + BlkSize is 0 in 64 bits.
BlockData(num) ==
  IF token.source = "Buffer"
  THEN LET start == (num - 1) * BlkSize
       IN  Data(num, Content(Client, num),
                IF BufferSize < start + BlkSize THEN BufferSize - start
                                                ELSE BlkSize)
  ELSE Data(num, Content(Client, given + 1),
            BlockLen(token.size, given + 1))

WrqSendBlock(num, left, port, rest) ==
  LET pkt == BlockData(num)
      last == pkt.len < BlkSize
  IN  /\ SendPacket(pkt, port)
      /\ LastBlock' = IF last THEN num ELSE LastBlock
      /\ Blocks' = IF last THEN SetLastBlockNum(left, num) ELSE left
      /\ given' = IF token.source = "Buffer" THEN given ELSE given + 1
      /\ ConnectedPort' = port
      /\ toClient' = rest
      /\ UNCHANGED <<Operation, Status>>

\* The ranges are empty: the end, or an error when the block was not the last
WrqFinish(num, port) ==
  IF LastBlock = num
  THEN CleanOperation("SUCCESS") /\ UNCHANGED toServer
  ELSE FailWith("TFTP_ERROR", port)

WrqHandleAck(p, num, rest) ==
  LET left == RemoveBlockNum(Blocks, num, FALSE)
      next == GetNextBlockNum(left)
  IN  \/ GetNextBlockNum(Blocks) # num /\ Ignored(p, rest)
      \/ /\ GetNextBlockNum(Blocks) = num
         /\ \/ next < 0 /\ WrqFinish(num, p.port) /\ UNCHANGED given
            \/ next >= 0 /\ WrqSendBlock(next, left, p.port, rest)
            \/ /\ next >= 0 /\ token.source = "PacketNeeded"  \* it fails
               /\ FailWith("ABORTED", p.port)
               /\ UNCHANGED given
         /\ UNCHANGED <<Buffer, BufferSize>>

WrqHandleOack(p, rest) ==
  /\ p.pkt.op = "OACK"
  /\ \/ GetNextBlockNum(Blocks) # 0 /\ Ignored(p, rest)
     \/ /\ GetNextBlockNum(Blocks) = 0 /\ ~p.pkt.valid
        /\ FailWith("TFTP_ERROR", p.port)
        /\ UNCHANGED <<Buffer, BufferSize, given>>
     \/ /\ GetNextBlockNum(Blocks) = 0 /\ p.pkt.valid
        /\ WrqHandleAck(p, 0, rest)

-----------------------------------------------------------------------------
(***************************************************************************)
(* Both directions: CheckPacket may refuse an OACK, an ERROR or a new      *)
(* block; UDP may report an error; the timer ticks.                        *)
(***************************************************************************)
HandleError(p) ==
  /\ p.pkt.op = "ERROR"
  /\ CleanOperation("TFTP_ERROR")
  /\ UNCHANGED <<Buffer, BufferSize, given, toServer>>

CheckPacketFails(p) ==
  /\ \/ p.pkt.op = "OACK" /\ FailWith("ABORTED", p.port)
     \/ p.pkt.op = "ERROR" /\ CleanOperation("ABORTED") /\ UNCHANGED toServer
     \/ /\ p.pkt.op = "DATA" /\ p.pkt.block = GetNextBlockNum(Blocks)
        /\ FailWith("ABORTED", p.port)
  /\ UNCHANGED <<Buffer, BufferSize, given>>

Input(i, again) ==
  LET p == toClient[i]
      rest == Rest(toClient, i, again)
  IN  /\ Delivered(again)
      /\ \/ /\ ~Accepted(p)
            /\ toClient' = rest
            /\ UNCHANGED <<instance, toServer, Status, Buffer, BufferSize,
                           given>>
         \/ /\ Accepted(p)
            /\ \/ /\ Operation = "RRQ"
                  /\ RrqHandleData(p, rest) \/ RrqHandleOack(p, rest)
               \/ /\ Operation = "WRQ"
                  /\ \/ p.pkt.op = "ACK" /\ WrqHandleAck(p, p.pkt.block, rest)
                     \/ WrqHandleOack(p, rest)
               \/ HandleError(p)
               \/ CheckPacketFails(p)
      /\ UNCHANGED <<request, server>>

InputFails ==
  /\ Operation # "none"
  /\ CleanOperation("ICMP_ERROR")
  /\ UNCHANGED <<request, Buffer, BufferSize, given, server, toServer, dups>>

\* Mutant: one retry too many
OneRetryMore == CurRetry + 1 <= MaxRetry

RetriesLeft == CurRetry + 1 < MaxRetry

\* Mutant: a retransmission starts a new series of retries.
TickForgetsRetries ==
  /\ PacketToLive > 0
  /\ PacketToLive' = IF PacketToLive > 1 THEN PacketToLive - 1 ELSE token.timeout
  /\ IF PacketToLive > 1 THEN UNCHANGED toServer ELSE Retransmit(ConnectedPort)
  /\ CurRetry' = 0
  /\ UNCHANGED <<Operation, Blocks, LastBlock, ConnectedPort, LastPacket,
                 Status, toClient>>
  /\ UNCHANGED <<request, Buffer, BufferSize, given, server, dups>>

OnTimerTick ==
  /\ PacketToLive > 0
  /\ \/ /\ PacketToLive > 1
        /\ PacketToLive' = PacketToLive - 1
        /\ UNCHANGED <<Operation, Blocks, LastBlock, ConnectedPort,
                       LastPacket, CurRetry, Status, toServer, toClient>>
     \/ /\ PacketToLive = 1
        /\ \/ FailWith("ABORTED", ConnectedPort)      \* TimeoutCallback
           \/ /\ RetriesLeft
              /\ CurRetry' = CurRetry + 1
              /\ PacketToLive' = token.timeout
              /\ Retransmit(ConnectedPort)
              /\ UNCHANGED <<Operation, Blocks, LastBlock, ConnectedPort,
                             LastPacket, Status, toClient>>
           \/ /\ ~RetriesLeft
              /\ CleanOperation("TIMEOUT")
              /\ UNCHANGED toServer
  /\ UNCHANGED <<request, Buffer, BufferSize, given, server, dups>>

-----------------------------------------------------------------------------
(***************************************************************************)
(* The server: a session of its own, at a new port, for every request that *)
(* reaches it.  It answers the acknowledgement of the block it has sent    *)
(* last and no other, and acknowledges a block again when it comes again.  *)
(* What it does after the operation has ended goes to a closed UDP port    *)
(* and is left out.                                                        *)
(***************************************************************************)
ServerPacket(port, s) ==
  [port |-> port,
   age  |-> 0,
   pkt  |-> CASE s.reply = "error" -> Error
              [] s.reply = "malformed" -> Oack(FALSE)
              [] s.reply = "oack" /\ s.last = 0 -> Oack(TRUE)
              [] OTHER ->
                   IF s.op = "RRQ"
                   THEN Data(Wire(s.last), Content(port, s.last),
                             BlockLen(token.size, s.last))
                   ELSE Ack(Wire(s.last))]

ServerSends(port, s) == toClient' = Post(toClient, ServerPacket(port, s))

Session(op, reply, left, got, last) ==
  [op |-> op, reply |-> reply, left |-> left, got |-> got, last |-> last]

ServerStart(op, reply) ==
  LET s == Session(op, reply, ServerRetries, <<>>,
                   IF op = "RRQ" /\ reply = "plain" THEN 1 ELSE 0)
  IN  /\ Len(server) < Ports
      /\ server' = Append(server, s)
      /\ ServerSends(Len(server) + 1, s)

ServerAck(port, num) ==
  LET s == server[port]
      next == Session(s.op, s.reply, ServerRetries, s.got, s.last + 1)
  IN  /\ s.op = "RRQ" /\ Wire(s.last) = num
      /\ s.last < BlockCount(token.size)
      /\ server' = [server EXCEPT ![port] = next]
      /\ ServerSends(port, next)

ServerData(port, pkt) ==
  LET s == server[port]
      next == Session(s.op, s.reply, ServerRetries, Append(s.got, pkt.data),
                      s.last + 1)
  IN  /\ s.op = "WRQ"
      /\ \/ /\ pkt.block = Wire(s.last + 1)
            /\ server' = [server EXCEPT ![port] = next]
            /\ ServerSends(port, next)
         \/ /\ pkt.block = Wire(s.last)
            /\ ServerSends(port, s)
            /\ UNCHANGED server

ServerInput(i, again) ==
  LET p == toServer[i]
  IN  /\ Operation # "none"
      /\ Delivered(again)
      /\ toServer' = Rest(toServer, i, again)
      /\ \/ p.pkt.op \in {"RRQ", "WRQ"}
            /\ \E reply \in Replies : ServerStart(p.pkt.op, reply)
         \/ p.pkt.op = "ACK" /\ ServerAck(p.port, p.pkt.block)
         \/ p.pkt.op = "DATA" /\ ServerData(p.port, p.pkt)
      /\ UNCHANGED <<instance, request, Status, Buffer, BufferSize, given>>

ServerTimeout(port) ==
  LET s == server[port]
  IN  /\ s.left > 0 /\ Operation # "none"
      /\ server' = [server EXCEPT ![port] =
                       Session(s.op, s.reply, s.left - 1, s.got, s.last)]
      /\ ServerSends(port, s)
      /\ UNCHANGED <<instance, request, Status, Buffer, BufferSize, given,
                     toServer, dups>>

\* A packet is lost, or reaches a server that has no use for it.
Lose ==
  /\ Operation # "none"
  /\ \/ /\ \E i \in DOMAIN toServer : toServer' = RemoveAt(toServer, i)
        /\ UNCHANGED toClient
     \/ /\ \E i \in DOMAIN toClient : toClient' = RemoveAt(toClient, i)
        /\ UNCHANGED toServer
  /\ UNCHANGED <<instance, request, Status, Buffer, BufferSize, given, server,
                 dups>>

-----------------------------------------------------------------------------
Next ==
  \/ Configure \/ ConfigureReset
  \/ \E t \in Tokens : Start(t)
  \/ \E i \in DOMAIN toClient, again \in BOOLEAN : Input(i, again)
  \/ InputFails
  \/ OnTimerTick
  \/ \E i \in DOMAIN toServer, again \in BOOLEAN : ServerInput(i, again)
  \/ \E port \in DOMAIN server : ServerTimeout(port)
  \/ Lose

Spec == Init /\ [][Next]_vars

\* The timer of the service keeps ticking; nothing else is promised.
FairSpec == Spec /\ WF_vars(OnTimerTick)

-----------------------------------------------------------------------------
Results == {"NOT_STARTED", "NOT_READY", "SUCCESS", "TIMEOUT", "ABORTED",
            "TFTP_ERROR", "ICMP_ERROR", "BUFFER_TOO_SMALL"}

\* The fields of the instance and of the token have their types; an idle
\* instance has nothing left of its last operation, an active one has a
\* packet to retransmit and a running timeout.
TypeOK ==
  /\ State \in {"UNCONFIGED", "CONFIGED"}
  /\ Operation \in {"none", "RRQ", "WRQ"}
  /\ \A i \in DOMAIN Blocks : /\ Blocks[i].Start \in 0 .. Bound
                              /\ Blocks[i].End \in 0 .. Bound
                              /\ Blocks[i].Round \in Nat
  /\ LastBlock \in 0 .. Bound
  /\ ConnectedPort \in 0 .. Ports
  /\ PacketToLive \in Nat
  /\ CurRetry \in 0 .. MaxRetry - 1
  /\ token \in Tokens \union {NoToken}
  /\ Status \in Results
  /\ BufferSize \in Nat
  /\ given \in Nat /\ dups \in 0 .. MaxDups
  /\ Len(server) <= Ports /\ Len(toServer) <= Window /\ Len(toClient) <= Window
  /\ IF Operation = "none"
     THEN Blocks = <<>> /\ LastPacket = NoPacket /\ PacketToLive = 0
     ELSE Blocks # <<>> /\ LastPacket # NoPacket /\ PacketToLive \in 1 .. token.timeout

\* EFI_SUCCESS for a download: the buffer has every block of the file in its
\* place, all from one session of the server, and BufferSize is the length of
\* the file (Mtftp4RrqSaveBlock, whatever the network and the roll-over of
\* the block numbers did).
DownloadIntact ==
  Status = "SUCCESS" /\ token.op = "RRQ" =>
    /\ BufferSize = token.size
    /\ \E port \in DOMAIN server : \A i \in DOMAIN Buffer :
         BlockLen(token.size, i) > 0 => Buffer[i] = Content(port, i)

\* EFI_SUCCESS for an upload: a session of the server has received the blocks
\* of the file, each once and in order (Mtftp4WrqHandleAck).
UploadIntact ==
  Status = "SUCCESS" /\ token.op = "WRQ" =>
    \E port \in DOMAIN server :
      server[port].got = [i \in 1 .. BlockCount(token.size) |->
                            Content(Client, i)]

\* EFI_BUFFER_TOO_SMALL tells the length of the file, and only for a file
\* that does not fit ("this will give a accurate file length",
\* Mtftp4RrqSaveBlock).
SizeAccurate ==
  Status = "BUFFER_TOO_SMALL" =>
    BufferSize = token.size /\ token.size > token.buffer

\* What the token tells the user is true, for each of the three ways an
\* operation can move data.
ResultAccurate == DownloadIntact /\ UploadIntact /\ SizeAccurate

\* The block that the client waits for, as a number in the file
Expected == Head(Blocks).Start + Head(Blocks).Round * (Bound + 1)

\* Client and server go in step: the server has sent, or received, the block
\* the client waits for or the one before it, never more or less; and the
\* blocks that the client takes for received are in the buffer as far as they
\* fit.
InStep ==
  Operation # "none" /\ ConnectedPort # 0 =>
    /\ server[ConnectedPort].reply # "error" =>
         server[ConnectedPort].last \in {Expected - 1, Expected}
    /\ Operation = "RRQ" => \A i \in 1 .. Expected - 1 :
         i * BlkSize <= BufferSize => Buffer[i] = Content(ConnectedPort, i)

\* An upload sends nothing but blocks of the file.
UploadWithinFile ==
  \A i \in DOMAIN toServer :
    toServer[i].pkt.op = "DATA" =>
      toServer[i].pkt.data.pos \in 1 .. BlockCount(token.size)

\* Every operation ends, whatever the network loses or repeats: with a result, or
\* because Mtftp4OnTimerTick has run out of retries.  Each answer starts the retries
\* anew, so that this needs a server that sends finitely many packets in a session.
OperationEnds == Operation # "none" ~> Operation = "none"
=============================================================================
