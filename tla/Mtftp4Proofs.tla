---------------------------- MODULE Mtftp4Proofs ----------------------------
(***************************************************************************)
(* Proofs about Mtftp4, for any files, any number of ports, duplicates and *)
(* retries and any Bound on block numbers: client and server stay in step  *)
(* through the roll-over of block numbers, and what the token tells the    *)
(* user is true.                                                           *)
(***************************************************************************)
EXTENDS Mtftp4, SequenceTheorems, TLAPS

(***************************************************************************)
(* Files that an operation can transfer as the code is: an upload does not *)
(* end in a block with the greatest number, one from a buffer has a number *)
(* of its own for every block, and a download ends in block number 0 only  *)
(* if it fits.                                                             *)
(***************************************************************************)
Transferable(t) ==
  /\ t.op = "WRQ" => Wire(BlockCount(t.size)) # Bound
  /\ t.op = "WRQ" /\ t.source = "Buffer" =>
       t.buffer = t.size /\ BlockCount(t.size) <= Bound
  /\ t.op = "RRQ" => Wire(BlockCount(t.size)) # 0 \/ t.size <= t.buffer

Premise == \A t \in Tokens : Transferable(t)

-----------------------------------------------------------------------------
(***************************************************************************)
(* The inductive invariant                                                 *)
(***************************************************************************)
Packets ==
  [op : {"RRQ", "WRQ", "ERROR"}]
    \union [op : {"ACK"}, block : 0 .. Bound]
    \union [op : {"DATA"}, block : 0 .. Bound,
            data : [src : Nat, pos : Nat], len : Nat]
    \union [op : {"OACK"}, valid : BOOLEAN]

\* The packets under way are no older than Window, and the older one is in
\* front: Window bounds how many there are.
Way(w) ==
  /\ w \in Seq([port : Nat, age : Nat, pkt : Packets])
  /\ \A i \in 1 .. Len(w) : w[i].age < Window /\ w[i].age >= Len(w) - i
  /\ \A i, j \in 1 .. Len(w) : i < j => w[j].age < w[i].age

Sessions ==
  [op : {"RRQ", "WRQ"}, reply : {"plain", "oack", "malformed", "error"},
   left : Nat, got : Seq([src : Nat, pos : Nat]), last : Nat]

Types ==
  /\ State \in {"UNCONFIGED", "CONFIGED"}
  /\ Operation \in {"none", "RRQ", "WRQ"}
  /\ token \in Tokens \union {NoToken}
  /\ Status \in Results
  /\ BufferSize \in Nat
  /\ CurRetry \in 0 .. MaxRetry - 1
  /\ given \in Nat /\ dups \in 0 .. MaxDups
  /\ server \in Seq(Sessions) /\ Len(server) <= Ports
  /\ Way(toServer) /\ Way(toClient)

Idle ==
  /\ Blocks = <<>> /\ LastBlock = 0 /\ ConnectedPort = 0
  /\ LastPacket = NoPacket /\ PacketToLive = 0 /\ toClient = <<>>

\* The last block of an upload has been sent.
AtEnd == Operation = "WRQ" /\ Expected = BlockCount(token.size)

\* One range that starts with block x of the file and ends with number e
Place(x, e) == <<BlockRange(Wire(x), e, Bound, x \div (Bound + 1))>>

\* One range is left: it starts with the block the client waits for.
Ranges ==
  /\ Expected \in Nat
  /\ Blocks = Place(Expected, IF AtEnd THEN Wire(Expected) ELSE Bound)
  /\ LastBlock = IF AtEnd THEN Wire(Expected) ELSE 0
  /\ Operation = "WRQ" => Expected <= BlockCount(token.size)

\* What the token and the counters are in an operation.
Running ==
  /\ token \in Tokens /\ token.op = Operation
  /\ Status = "NOT_READY"
  /\ PacketToLive \in 1 .. token.timeout
  /\ BufferSize = token.buffer
  /\ ConnectedPort \in 0 .. Len(server)
  /\ Operation = "WRQ" /\ token.source = "PacketNeeded" => given = Expected

\* The packet that the client would send again
Pending ==
  IF ConnectedPort = 0
  THEN LastPacket = Request(Operation) /\ Expected = FirstBlock(Operation)
  ELSE /\ Expected > 0
       /\ Operation = "RRQ" => LastPacket = Ack(Wire(Expected - 1))
       /\ Operation = "WRQ" =>
            LastPacket = Data(Wire(Expected), Content(Client, Expected),
                              BlockLen(token.size, Expected))

Answers(s) == s.reply \in {"plain", "oack"}

\* A session s of a transfer op in which the client waits for block x.  If the
\* client may listen to it, it is at block x or at the one before it.
InSession(s, op, size, x, heard) ==
  /\ s.op = op
  /\ op = "RRQ" =>
       s.last <= BlockCount(size) /\ (s.reply = "plain" => s.last > 0)
  /\ op = "WRQ" => s.got = [i \in 1 .. s.last |-> Content(Client, i)]
  /\ Answers(s) /\ heard => s.last \in {x - 1, x}

\* A packet q of session s: the block it is about is no farther behind the
\* session than later packets have been sent.
Answer(q, s, op, size) ==
  \/ q.pkt = Error /\ s.reply = "error"
  \/ q.pkt = Oack(FALSE) /\ s.reply = "malformed"
  \/ q.pkt = Oack(TRUE) /\ s.reply = "oack" /\ s.last <= q.age
  \/ /\ Answers(s)
     /\ \E k \in 0 .. s.last :
          /\ s.last - k <= q.age
          /\ IF op = "RRQ"
             THEN k > 0 /\ q.pkt = Data(Wire(k), Content(q.port, k), BlockLen(size, k))
             ELSE q.pkt = Ack(Wire(k))

\* A packet q of a client that is connected to port and waits for block x, in
\* the same way.
Sent(q, op, port, x, size) ==
  \/ q.pkt = Request(op)
  \/ /\ port # 0 /\ q.port = port /\ op = "RRQ"
     /\ \E k \in 0 .. x - 1 : x - 1 - k <= q.age /\ q.pkt = Ack(Wire(k))
  \/ /\ port # 0 /\ q.port = port /\ op = "WRQ"
     /\ \E k \in 1 .. x :
          x - k <= q.age /\ q.pkt = Data(Wire(k), Content(Client, k), BlockLen(size, k))

SessionsOK ==
  \A port \in 1 .. Len(server) :
    InSession(server[port], Operation, token.size, Expected, ConnectedPort \in {0, port})

AnswersOK ==
  \A i \in 1 .. Len(toClient) :
    /\ toClient[i].port \in 1 .. Len(server)
    /\ Answer(toClient[i], server[toClient[i].port], Operation, token.size)

SentOK ==
  \A i \in 1 .. Len(toServer) :
    Sent(toServer[i], Operation, ConnectedPort, Expected, token.size)

\* The blocks that the client takes for received
Received ==
  Operation = "RRQ" =>
    /\ Buffer \in [1 .. BlockCount(token.size) -> [src : Nat, pos : Nat]]
    /\ ConnectedPort # 0 => \A i \in 1 .. Expected - 1 :
         i * BlkSize <= BufferSize => Buffer[i] = Content(ConnectedPort, i)

Active ==
  /\ Ranges /\ Running /\ Pending /\ Received
  /\ ConnectedPort # 0 => Answers(server[ConnectedPort])
  /\ SessionsOK /\ AnswersOK /\ SentOK

Inv ==
  /\ Types
  /\ UploadWithinFile
  /\ ResultAccurate
  /\ Operation = "none" => Idle
  /\ Operation # "none" => Active

-----------------------------------------------------------------------------
(***************************************************************************)
(* Block numbers and files                                                 *)
(***************************************************************************)
LEMMA Division ==
  ASSUME NEW m \in Nat \ {0}, NEW n \in Nat
  PROVE  n = m * (n \div m) + (n % m) /\ n \div m \in Int /\ n % m \in 0 .. (m - 1)
<1>1. n \div m \in Int
  OBVIOUS
<1>2. n % m \in 0 .. (m - 1)
  OBVIOUS
<1> DEFINE q == n \div m
           t == n % m
<1>3. n = m * q + t
  BY <1>1, <1>2
<1> QED BY <1>1, <1>2, <1>3

\* The remainder of a division is determined by its range.
LEMMA Remainder ==
  ASSUME NEW m \in Nat \ {0}, NEW s \in 0 .. (m - 1), NEW r \in Int
  PROVE  (s + r * m) % m = s
<1> DEFINE n == s + r * m
           q == n \div m
           t == n % m
<1>0. n \in Int /\ q \in Int
  OBVIOUS
<1>1. n = m * q + t /\ t \in 0 .. (m - 1)
  BY <1>0
<1> HIDE DEF t, q
<1>2. s - t = m * (q - r)
  BY <1>0, <1>1
<1> DEFINE d == q - r
<1>3. d \in Int /\ s - t = m * d
  BY <1>0, <1>2
<1> HIDE DEF d
<1>4. d <= 0
  <2>1. d >= 1 => m * d >= m
    BY <1>3
  <2> QED BY <1>1, <1>3, <2>1
<1>5. d >= 0
  <2>1. d <= -1 => m * d <= -m
    BY <1>3
  <2> QED BY <1>1, <1>3, <2>1
<1>6. d = 0
  BY <1>3, <1>4, <1>5
<1>7. m * d = 0
  BY <1>6
<1>8. s = t
  BY <1>1, <1>3, <1>7
<1> QED BY <1>8 DEF t

\* Block numbers have the range of Bound; a number that has not rolled over is
\* its own, and numbers that are not a round apart are different.
LEMMA WireFacts ==
  /\ \A i \in Nat : Wire(i) \in 0 .. Bound
  /\ \A s \in 0 .. Bound, r \in Nat : Wire(s + r * (Bound + 1)) = s
  /\ \A s \in 0 .. Bound : Wire(s) = s
  /\ \A a, b \in Nat : a <= b /\ b - a <= Bound /\ Wire(a) = Wire(b) => a = b
<1>0. Bound \in Nat /\ Bound + 1 \in Nat \ {0} /\ (Bound + 1) - 1 = Bound
  BY Mtftp4Assumption
<1> DEFINE m == Bound + 1
<1>1. \A i \in Nat : Wire(i) \in 0 .. Bound
  BY <1>0 DEF Wire
<1>2. ASSUME NEW s \in 0 .. Bound, NEW r \in Nat PROVE Wire(s + r * (Bound + 1)) = s
  BY <1>0, Remainder DEF Wire
<1>3. ASSUME NEW s \in 0 .. Bound PROVE Wire(s) = s
  BY <1>0 DEF Wire
<1>4. ASSUME NEW a \in Nat, NEW b \in Nat, a <= b, b - a <= Bound, Wire(a) = Wire(b)
      PROVE  a = b
  <2> DEFINE q == a \div m
             p == b \div m
             t == a % m
  <2>1. q \in Int /\ p \in Int /\ m \in Nat \ {0}
    BY <1>0
  <2>2. a = m * q + t /\ b = m * p + t
    <3>1. b % m = t
      BY <1>4 DEF Wire
    <3>2. a = m * q + t /\ b = m * p + (b % m)
      <4> HIDE DEF m
      <4> QED BY <2>1, Division
    <3> HIDE DEF m, q, p, t
    <3> QED BY <3>1, <3>2, Zenon
  <2>3. t \in Int
    BY <2>1
  <2> HIDE DEF q, p, t, m
  <2> DEFINE d == p - q
  <2>4. d \in Int /\ b - a = m * d
    BY <2>1, <2>2, <2>3
  <2> HIDE DEF d
  <2>5. d <= 0
    <3>1. d >= 1 => m * d >= m
      BY <2>1, <2>4
    <3>2. b - a < m
      BY <1>0, <1>4 DEF m
    <3> QED BY <2>1, <2>4, <3>1, <3>2
  <2>6. d >= 0
    <3>1. d <= -1 => m * d <= -m
      BY <2>1, <2>4
    <3> QED BY <2>1, <2>4, <3>1, <1>4
  <2>7. d = 0
    BY <2>4, <2>5, <2>6
  <2>8. m * d = 0
    BY <2>1, <2>7
  <2> QED BY <2>4, <2>8
<1> QED BY <1>1, <1>2, <1>3, <1>4

\* What a file of a given size is made of.
LEMMA FileFacts ==
  ASSUME NEW size \in Nat
  PROVE  /\ BlockCount(size) \in Nat \ {0}
         /\ \A i \in Nat : BlockLen(size, i) \in 0 .. BlkSize
         /\ \A i \in 1 .. BlockCount(size) :
              /\ BlockLen(size, i) < BlkSize <=> i = BlockCount(size)
              /\ i # BlockCount(size) => BlockLen(size, i) = BlkSize /\ i * BlkSize <= size
         /\ (BlockCount(size) - 1) * BlkSize + BlockLen(size, BlockCount(size)) = size
<1>0. BlkSize \in Nat \ {0}
  BY Mtftp4Assumption
<1> DEFINE q == size \div BlkSize
           t == size % BlkSize
<1>1. q \in Nat /\ t \in 0 .. (BlkSize - 1) /\ size = BlkSize * q + t
  BY <1>0
<1>2. BlockCount(size) = q + 1
  BY DEF BlockCount
<1>3. \A i \in Nat : BlockLen(size, i) = IF i < q + 1 THEN BlkSize ELSE IF i = q + 1 THEN t ELSE 0
  BY <1>1, <1>2 DEF BlockLen
<1> HIDE DEF q, t
<1>4. \A i \in Nat : BlockLen(size, i) \in 0 .. BlkSize
  BY <1>0, <1>1, <1>3
<1>5. ASSUME NEW i \in 1 .. q + 1
      PROVE  /\ BlockLen(size, i) < BlkSize <=> i = q + 1
             /\ i # q + 1 => BlockLen(size, i) = BlkSize
  BY <1>0, <1>1, <1>3
<1>6. ASSUME NEW i \in 1 .. q PROVE i * BlkSize <= size
  <2>1. i * BlkSize <= q * BlkSize
    BY <1>0, <1>1
  <2>2. q * BlkSize = BlkSize * q /\ q * BlkSize \in Nat /\ i * BlkSize \in Nat
    BY <1>0, <1>1
  <2> QED BY <1>0, <1>1, <2>1, <2>2
<1>7. q * BlkSize + BlockLen(size, q + 1) = size
  <2>1. BlockLen(size, q + 1) = t
    BY <1>1, <1>3
  <2>2. q * BlkSize = BlkSize * q
    BY <1>0, <1>1
  <2> QED BY <1>0, <1>1, <2>1, <2>2
<1>8. (q + 1) - 1 = q /\ q + 1 \in Nat \ {0}
  BY <1>1
<1>9. \A i \in 1 .. q + 1 : i # q + 1 => i \in 1 .. q
  BY <1>1
<1> QED BY <1>2, <1>4, <1>5, <1>6, <1>7, <1>8, <1>9

-----------------------------------------------------------------------------
(***************************************************************************)
(* The network                                                             *)
(***************************************************************************)
\* A sequence without the element at one index.
LEMMA RemoveFacts ==
  ASSUME NEW T, NEW w \in Seq(T), NEW i \in 1 .. Len(w)
  PROVE  /\ RemoveAt(w, i) \in Seq(T)
         /\ Len(RemoveAt(w, i)) = Len(w) - 1
         /\ \A j \in 1 .. Len(w) - 1 :
              RemoveAt(w, i)[j] = IF j < i THEN w[j] ELSE w[j + 1]
<1> DEFINE u == SubSeq(w, 1, i - 1)
           v == SubSeq(w, i + 1, Len(w))
<1>0. Len(w) \in Nat /\ i \in Nat
  OBVIOUS
<1>1. /\ u \in Seq(T) /\ Len(u) = i - 1
      /\ \A j \in 1 .. (i - 1) : u[j] = w[j]
  <2>1. \A j \in 1 .. (i - 1) : j \in 1 .. Len(w)
    BY <1>0
  <2> QED BY <1>0, <2>1
<1>2. /\ v \in Seq(T) /\ Len(v) = Len(w) - i
      /\ \A j \in 1 .. (Len(w) - i) : v[j] = w[i + j]
  <2>1. \A j \in (i + 1) .. Len(w) : j \in 1 .. Len(w)
    BY <1>0
  <2>2. v \in Seq(T) /\ Len(v) = Len(w) - i
    BY <1>0, <2>1
  <2>3. ASSUME NEW j \in 1 .. (Len(w) - i) PROVE v[j] = w[i + j]
    <3>1. v[j] = w[(i + 1) + j - 1]
      BY <1>0, <2>1
    <3>2. (i + 1) + j - 1 = i + j
      BY <1>0
    <3> QED BY <3>1, <3>2
  <2> QED BY <2>2, <2>3
<1>3. RemoveAt(w, i) = u \o v
  BY DEF RemoveAt
<1> HIDE DEF u, v
<1>4. u \o v \in Seq(T) /\ Len(u \o v) = Len(w) - 1
  <2>1. u \in Seq(T) /\ v \in Seq(T)
    BY <1>1, <1>2
  <2>2. u \o v \in Seq(T) /\ Len(u \o v) = Len(u) + Len(v)
    BY <2>1
  <2>3. Len(u) = i - 1 /\ Len(v) = Len(w) - i
    BY <1>1, <1>2
  <2> QED BY <1>0, <2>2, <2>3
<1>5. ASSUME NEW j \in 1 .. Len(w) - 1
      PROVE  (u \o v)[j] = IF j < i THEN w[j] ELSE w[j + 1]
  <2>1. (u \o v)[j] = IF j <= Len(u) THEN u[j] ELSE v[j - Len(u)]
    BY <1>0, <1>1, <1>2
  <2>2. CASE j < i
    BY <1>0, <1>1, <2>1, <2>2
  <2>3. CASE j >= i
    <3>1. j - Len(u) \in 1 .. (Len(w) - i) /\ i + (j - Len(u)) = j + 1 /\ ~(j <= Len(u)) /\ ~(j < i)
      BY <1>0, <1>1, <2>3
    <3>2. v[j - Len(u)] = w[i + (j - Len(u))]
      BY <1>2, <3>1
    <3> QED BY <2>1, <3>1, <3>2
  <2>4. j < i \/ j >= i
    BY <1>0
  <2> QED BY <2>2, <2>3, <2>4
<1> QED BY <1>3, <1>4, <1>5

\* Every packet of v is one of w.
Among(v, w) == \A j \in 1 .. Len(v) : \E k \in 1 .. Len(w) : v[j] = w[k]

\* A packet of v is p or one of w that has grown older.
Newer(v, w, p) ==
  \A j \in 1 .. Len(v) : v[j] = p \/ \E k \in 1 .. Len(w) : v[j] = Older(w[k])

\* Losing or delivering a packet leaves a part of those under way.
LEMMA RemoveWay ==
  ASSUME NEW w, Way(w), NEW i \in 1 .. Len(w)
  PROVE  Way(RemoveAt(w, i)) /\ Among(RemoveAt(w, i), w)
<1> DEFINE T == [port : Nat, age : Nat, pkt : Packets]
           v == RemoveAt(w, i)
           At(j) == IF j < i THEN j ELSE j + 1
<1>0. w \in Seq(T) /\ Len(w) \in Nat /\ i \in Nat
  BY DEF Way
<1>1. v \in Seq(T) /\ Len(v) = Len(w) - 1 /\ \A j \in 1 .. Len(v) : v[j] = w[At(j)]
  <2>1. \A j \in 1 .. Len(w) - 1 : v[j] = IF j < i THEN w[j] ELSE w[j + 1]
    BY <1>0, RemoveFacts
  <2>2. v \in Seq(T) /\ Len(v) = Len(w) - 1
    BY <1>0, RemoveFacts
  <2> HIDE DEF v
  <2> QED BY <2>1, <2>2
<1> HIDE DEF v
<1>a. Len(v) = Len(w) - 1
  BY <1>1
<1>2. \A j \in 1 .. Len(v) : At(j) \in 1 .. Len(w) /\ Len(w) - At(j) >= Len(v) - j
  BY <1>0, <1>a
<1>3. \A j, k \in 1 .. Len(v) : j < k => At(j) < At(k)
  BY <1>0, <1>a
<1> HIDE DEF At
<1>4. \A j \in 1 .. Len(w) : w[j].age \in Nat
  <2>1. \A x \in T : x.age \in Nat
    OBVIOUS
  <2> HIDE DEF T
  <2> QED BY <1>0, <2>1
<1> HIDE DEF T
<1>5. \A j \in 1 .. Len(v) : v[j].age < Window /\ v[j].age >= Len(v) - j
  <2> TAKE j \in 1 .. Len(v)
  <2>1. w[At(j)].age < Window /\ w[At(j)].age >= Len(w) - At(j)
    BY <1>2 DEF Way
  <2>2. v[j].age = w[At(j)].age /\ w[At(j)].age \in Nat /\ At(j) \in Nat /\ Len(v) \in Int
    BY <1>0, <1>1, <1>2, <1>4
  <2>3. Len(w) - At(j) >= Len(v) - j
    BY <1>2
  <2> QED BY <1>0, <2>1, <2>2, <2>3
<1>6. \A j, k \in 1 .. Len(v) : j < k => v[k].age < v[j].age
  BY <1>1, <1>2, <1>3 DEF Way
<1>7. Way(v)
  BY <1>1, <1>5, <1>6 DEF Way, T
<1>8. Among(v, w)
  BY <1>1, <1>2 DEF Among
<1> QED BY <1>7, <1>8 DEF v

LEMMA RestWay ==
  ASSUME NEW w, Way(w), NEW i \in 1 .. Len(w), NEW again
  PROVE  Way(Rest(w, i, again)) /\ Among(Rest(w, i, again), w)
<1>1. CASE again
  BY <1>1 DEF Rest, Among
<1>2. CASE ~again
  BY <1>2, RemoveWay DEF Rest
<1> QED BY <1>1, <1>2

\* Sending a packet: the others grow older, and the oldest may be lost.
LEMMA PostWay ==
  ASSUME NEW w, Way(w), NEW p \in [port : Nat, age : {0}, pkt : Packets]
  PROVE  Way(Post(w, p)) /\ Newer(Post(w, p), w, p)
<1> DEFINE T == [port : Nat, age : Nat, pkt : Packets]
           s == Staying(w)
           d == IF w # <<>> /\ Head(w).age + 1 >= Window THEN 1 ELSE 0
           o == [i \in DOMAIN s |-> Older(s[i])]
           v == Append(o, p)
<1>0. w \in Seq(T) /\ Len(w) \in Nat /\ d \in {0, 1} /\ Window \in Nat \ {0}
  BY Mtftp4Assumption DEF Way
<1>1. /\ s \in Seq(T) /\ Len(s) = Len(w) - d
      /\ \A j \in 1 .. Len(s) : s[j] = w[j + d] /\ j + d \in 1 .. Len(w)
  <2> HIDE DEF T
  <2>1. CASE w # <<>> /\ Head(w).age + 1 >= Window
    <3>1. s = Tail(w) /\ d = 1
      BY <2>1 DEF Staying
    <3>2. Tail(w) \in Seq(T) /\ Len(Tail(w)) = Len(w) - 1
      BY <1>0, <2>1
    <3>3. \A j \in 1 .. (Len(w) - 1) : Tail(w)[j] = w[j + 1] /\ j + 1 \in 1 .. Len(w)
      BY <1>0, <2>1
    <3> QED BY <3>1, <3>2, <3>3
  <2>2. CASE ~(w # <<>> /\ Head(w).age + 1 >= Window)
    <3>1. s = w /\ d = 0
      BY <2>2 DEF Staying
    <3> QED BY <1>0, <3>1
  <2> QED BY <2>1, <2>2
<1>2. \A j \in 1 .. Len(w) : /\ w[j].age \in Nat /\ w[j].age < Window
                             /\ w[j].age >= Len(w) - j /\ w[j] \in T
  <2>1. \A x \in T : x.age \in Nat
    OBVIOUS
  <2> HIDE DEF T
  <2>2. \A j \in 1 .. Len(w) : w[j] \in T
    BY <1>0
  <2> QED BY <2>1, <2>2 DEF Way
<1>b. \A x \in T : Older(x) \in T
  BY DEF Older
<1>5. p \in T /\ p.age = 0
  OBVIOUS
<1> HIDE DEF T
<1>3. \A j \in 1 .. Len(s) : s[j].age + 1 < Window
  <2> TAKE j \in 1 .. Len(s)
  <2>1. s[j] = w[j + d] /\ j + d \in 1 .. Len(w) /\ w # <<>>
    BY <1>0, <1>1
  <2>2. Head(w) = w[1] /\ 1 \in 1 .. Len(w)
    BY <1>0, <2>1
  <2>3. CASE d = 1
    <3>1. 1 < j + d
      BY <1>0, <1>1, <2>3
    <3>2. w[j + d].age < w[1].age
      BY <2>1, <2>2, <3>1 DEF Way
    <3> QED BY <1>0, <1>2, <2>1, <2>2, <3>2
  <2>4. CASE d = 0
    <3>1. w[1].age + 1 < Window
      BY <1>0, <1>2, <2>1, <2>2, <2>4
    <3>2. j = 1 \/ w[j].age < w[1].age
      BY <1>0, <1>1, <2>1, <2>2, <2>4 DEF Way
    <3> QED BY <1>0, <1>2, <2>1, <2>2, <2>4, <3>1, <3>2
  <2> QED BY <1>0, <2>3, <2>4
<1> HIDE DEF s, d
<1>4. o \in Seq(T) /\ Len(o) = Len(s) /\ \A j \in 1 .. Len(s) : o[j] = Older(s[j])
  <2>1. DOMAIN s = 1 .. Len(s) /\ Len(s) \in Nat
    BY <1>1
  <2>2. \A j \in 1 .. Len(s) : Older(s[j]) \in T
    BY <1>1, <1>b
  <2>3. o = [j \in 1 .. Len(s) |-> Older(s[j])]
    BY <2>1
  <2> HIDE DEF o
  <2> QED BY <2>1, <2>2, <2>3
<1> HIDE DEF o
<1>6. /\ v \in Seq(T) /\ Len(v) = Len(s) + 1 /\ v[Len(s) + 1] = p
      /\ \A j \in 1 .. Len(s) : v[j] = Older(s[j])
  BY <1>1, <1>4, <1>5
<1> HIDE DEF v
<1>7. \A j \in 1 .. Len(s) : /\ v[j].age = w[j + d].age + 1 /\ v[j].age < Window
                             /\ v[j] = Older(w[j + d]) /\ j + d \in 1 .. Len(w)
  BY <1>1, <1>3, <1>6 DEF Older
<1>8. \A j \in 1 .. Len(v) : j \in 1 .. Len(s) \/ j = Len(s) + 1
  BY <1>1, <1>6
<1>9. \A j \in 1 .. Len(v) : v[j].age < Window /\ v[j].age >= Len(v) - j
  <2> TAKE j \in 1 .. Len(v)
  <2>1. CASE j \in 1 .. Len(s)
    <3>1. v[j].age = w[j + d].age + 1 /\ v[j].age < Window /\ j + d \in 1 .. Len(w)
      BY <1>7, <2>1
    <3>2. w[j + d].age \in Nat /\ w[j + d].age >= Len(w) - (j + d)
      BY <1>2, <3>1
    <3>3. Len(v) = (Len(w) - d) + 1
      BY <1>1, <1>6
    <3> QED BY <1>0, <3>1, <3>2, <3>3
  <2>2. CASE j = Len(s) + 1
    BY <1>0, <1>1, <1>5, <1>6, <2>2
  <2> QED BY <1>8, <2>1, <2>2
<1>10. \A j, k \in 1 .. Len(v) : j < k => v[k].age < v[j].age
  <2> SUFFICES ASSUME NEW j \in 1 .. Len(v), NEW k \in 1 .. Len(v), j < k
               PROVE  v[k].age < v[j].age
    OBVIOUS
  <2>1. j \in 1 .. Len(s)
    BY <1>1, <1>6, <1>8
  <2>2. v[j].age = w[j + d].age + 1 /\ w[j + d].age \in Nat
    BY <1>2, <1>7, <2>1
  <2>3. CASE k \in 1 .. Len(s)
    <3>1. v[k].age = w[k + d].age + 1 /\ w[k + d].age \in Nat
      BY <1>2, <1>7, <2>3
    <3>2. j + d < k + d /\ j + d \in 1 .. Len(w) /\ k + d \in 1 .. Len(w)
      BY <1>0, <1>7, <2>1, <2>3
    <3>3. w[k + d].age < w[j + d].age
      BY <3>2 DEF Way
    <3> QED BY <2>2, <3>1, <3>3
  <2>4. CASE k = Len(s) + 1
    BY <1>5, <1>6, <2>2, <2>4
  <2> QED BY <1>8, <2>3, <2>4
<1>11. Way(v)
  BY <1>6, <1>9, <1>10 DEF Way, T
<1>12. Newer(v, w, p)
  BY <1>6, <1>7, <1>8 DEF Newer
<1>13. Post(w, p) = v
  BY DEF Post, v, o, s
<1> QED BY <1>11, <1>12, <1>13

\* No more packets are under way than the network can hold.
LEMMA WayLen ==
  ASSUME NEW w, Way(w) PROVE Len(w) \in 0 .. Window
<1>0. Len(w) \in Nat /\ Window \in Nat
  BY Mtftp4Assumption DEF Way
<1>1. CASE Len(w) = 0
  BY <1>0, <1>1
<1>2. CASE Len(w) > 0
  <2>1. 1 \in 1 .. Len(w)
    BY <1>0, <1>2
  <2>2. w[1].age < Window /\ w[1].age >= Len(w) - 1
    BY <2>1 DEF Way
  <2>3. w[1].age \in Nat
    <3> DEFINE T == [port : Nat, age : Nat, pkt : Packets]
    <3>1. \A x \in T : x.age \in Nat
      OBVIOUS
    <3>2. w \in Seq(T)
      BY DEF Way
    <3> HIDE DEF T
    <3> QED BY <2>1, <3>1, <3>2
  <2> QED BY <1>0, <2>2, <2>3
<1> QED BY <1>0, <1>1, <1>2

-----------------------------------------------------------------------------
(***************************************************************************)
(* The block ranges, when there is one range                               *)
(***************************************************************************)
\* Sequences of one element.
LEMMA OneElement ==
  ASSUME NEW x, NEW y
  PROVE  /\ Len(<<x>>) = 1 /\ <<x>>[1] = x /\ Head(<<x>>) = x /\ <<x>> # <<>>
         /\ RemoveAt(<<x>>, 1) = <<>>
         /\ ReplaceAt(<<x>>, 1, y) = <<y>>
         /\ SubSeq(<<x>>, 1, 1) = <<x>>
         /\ Append(SubSeq(<<x>>, 1, 0), y) = <<y>>
<1>1. Len(<<x>>) = 1 /\ <<x>>[1] = x /\ Head(<<x>>) = x /\ <<x>> # <<>>
  OBVIOUS
<1>2. RemoveAt(<<x>>, 1) = <<>>
  <2>1. <<x>> \in Seq({x}) /\ 1 \in 1 .. Len(<<x>>)
    OBVIOUS
  <2>2. RemoveAt(<<x>>, 1) \in Seq({x}) /\ Len(RemoveAt(<<x>>, 1)) = Len(<<x>>) - 1
    BY <2>1, RemoveFacts
  <2> QED BY <1>1, <2>2, EmptySeq
<1>3. ReplaceAt(<<x>>, 1, y) = <<y>>
  BY DEF ReplaceAt
<1>4. SubSeq(<<x>>, 1, 1) = <<x>>
  <2> DEFINE s == SubSeq(<<x>>, 1, 1)
  <2>1. s \in Seq({x}) /\ Len(s) = 1 /\ s[1] = x
    OBVIOUS
  <2>2. <<x>> \in Seq({x})
    OBVIOUS
  <2>3. \A i \in 1 .. Len(s) : i = 1
    BY <2>1
  <2> HIDE DEF s
  <2>4. \A i \in 1 .. Len(s) : s[i] = <<x>>[i]
    BY <1>1, <2>1, <2>3
  <2>5. s = <<x>>
    BY <1>1, <2>1, <2>2, <2>4, SeqEqual
  <2> QED BY <2>5 DEF s
<1>5. Append(SubSeq(<<x>>, 1, 0), y) = <<y>>
  <2>1. SubSeq(<<x>>, 1, 0) = <<>>
    OBVIOUS
  <2>2. Append(<<>>, y) = <<y>>
    OBVIOUS
  <2> QED BY <2>1, <2>2
<1> QED BY <1>1, <1>2, <1>3, <1>4, <1>5

\* The first and the last element of a sequence of one that a test selects.
LEMMA Selected ==
  /\ \A I : I = {1} => Min(I) = 1 /\ Max(I) = 1
<1> SUFFICES ASSUME NEW I, I = {1} PROVE Min(I) = 1 /\ Max(I) = 1
  OBVIOUS
<1>1. \E x \in I : \A y \in I : x <= y
  OBVIOUS
<1>2. Min(I) \in I
  BY <1>1 DEF Min
<1>3. \E x \in I : \A y \in I : x >= y
  OBVIOUS
<1>4. Max(I) \in I
  BY <1>3 DEF Max
<1> QED BY <1>2, <1>4

\* One range that starts with block number s
Only(s, e, n) == <<BlockRange(s, e, Bound, n)>>

\* What the services for block ranges do with the first block of one range.
LEMMA OneRange ==
  ASSUME NEW s \in 0 .. Bound, NEW e \in s .. Bound, NEW n \in Nat
  PROVE  /\ GetNextBlockNum(Only(s, e, n)) = s
         /\ Head(Only(s, e, n)) = BlockRange(s, e, Bound, n)
         /\ Only(s, e, n) # <<>>
         /\ SetLastBlockNum(Only(s, e, n), s) = Only(s, s, n)
         /\ RemoveBlockNum(Only(s, e, n), s, TRUE) = <<>>
         /\ RemoveBlockNum(Only(s, e, n), s, FALSE) =
              IF s = Bound THEN Only(0, e, n + 1)
              ELSE IF s = e THEN <<>> ELSE Only(s + 1, e, n)
         /\ TotalBlock(Only(s, e, n), s) = s + n * (Bound + 1)
<1> DEFINE r == BlockRange(s, e, Bound, n)
           b == Only(s, e, n)
<1>0. Bound \in Nat \ {0} /\ s \in Nat /\ e \in Nat /\ s <= e /\ e <= Bound
  BY Mtftp4Assumption
<1>1. r.Start = s /\ r.End = e /\ r.Bound = Bound /\ r.Round = n
  BY DEF BlockRange
<1>2. b = <<r>>
  BY DEF Only
<1> HIDE DEF r, b
<1>3. Len(b) = 1 /\ b[1] = r /\ Head(b) = r /\ b # <<>>
  BY <1>2, OneElement
<1>4. GetNextBlockNum(b) = s
  BY <1>1, <1>3 DEF GetNextBlockNum
<1>5. RangeOf(b, s) = 1
  <2> DEFINE I == {i \in 1 .. Len(b) : b[i].End >= s}
  <2>1. I = {1}
    <3>1. \A i \in 1 .. Len(b) : i = 1
      BY <1>3
    <3>2. 1 \in 1 .. Len(b) /\ b[1].End >= s
      BY <1>0, <1>1, <1>3
    <3> QED BY <3>1, <3>2
  <2>2. RangeOf(b, s) = IF I # {} THEN Min(I) ELSE 0
    BY DEF RangeOf, SelectInSeq
  <2> HIDE DEF I
  <2> QED BY <2>1, <2>2, Selected
<1>6. BlockFound(b, s)
  BY <1>0, <1>1, <1>3, <1>5 DEF BlockFound
<1>7. SetLastBlockNum(b, s) = Only(s, s, n)
  <2> DEFINE I == {i \in 1 .. Len(b) : b[i].Start <= s}
             k == SelectLastInSeq(b, LAMBDA x : x.Start <= s)
  <2>1. I = {1}
    <3>1. \A i \in 1 .. Len(b) : i = 1
      BY <1>3
    <3>2. 1 \in 1 .. Len(b) /\ b[1].Start <= s
      BY <1>0, <1>1, <1>3
    <3> QED BY <3>1, <3>2
  <2>2. k = IF I # {} THEN Max(I) ELSE 0
    BY DEF SelectLastInSeq
  <2>3. SetLastBlockNum(b, s) = IF k > 0 /\ b[k].End > s
                                THEN Append(SubSeq(b, 1, k - 1), EndingAt(b[k], s))
                                ELSE SubSeq(b, 1, k)
    BY DEF SetLastBlockNum
  <2> HIDE DEF I, k
  <2>4. k = 1
    BY <2>1, <2>2, Selected
  <2>5. SetLastBlockNum(b, s) = IF e > s THEN Append(SubSeq(b, 1, 0), EndingAt(r, s))
                                         ELSE SubSeq(b, 1, 1)
    BY <1>1, <1>3, <2>3, <2>4
  <2>6. EndingAt(r, s) = BlockRange(s, s, Bound, n)
    BY <1>1 DEF EndingAt
  <2>7. CASE e > s
    <3>1. SetLastBlockNum(b, s) = <<EndingAt(r, s)>>
      BY <1>2, <2>5, <2>7, OneElement
    <3> QED BY <3>1, <2>6 DEF Only
  <2>8. CASE ~(e > s)
    <3>1. SetLastBlockNum(b, s) = b
      BY <1>2, <2>5, <2>8, OneElement
    <3>2. e = s
      BY <1>0, <2>8
    <3> QED BY <3>1, <3>2 DEF b
  <2> QED BY <2>7, <2>8
<1>8. ASSUME NEW c \in BOOLEAN
      PROVE  RemoveBlockNum(b, s, c) = IF c \/ AdvanceRange(r).Start > e
                                       THEN <<>> ELSE <<AdvanceRange(r)>>
  <2>1. RemoveBlockNum(b, s, c) = IF c \/ AdvanceRange(r).Start > e
                                  THEN RemoveAt(b, 1) ELSE ReplaceAt(b, 1, AdvanceRange(r))
    BY <1>0, <1>1, <1>3, <1>5, <1>6 DEF RemoveBlockNum
  <2>2. RemoveAt(b, 1) = <<>> /\ ReplaceAt(b, 1, AdvanceRange(r)) = <<AdvanceRange(r)>>
    BY <1>2, OneElement
  <2> QED BY <2>1, <2>2
<1>9. RemoveBlockNum(b, s, TRUE) = <<>>
  BY <1>8
<1>10. RemoveBlockNum(b, s, FALSE) = IF s = Bound THEN Only(0, e, n + 1)
                                     ELSE IF s = e THEN <<>> ELSE Only(s + 1, e, n)
  <2>1. RemoveBlockNum(b, s, FALSE) = IF AdvanceRange(r).Start > e
                                      THEN <<>> ELSE <<AdvanceRange(r)>>
    BY <1>8
  <2>2. AdvanceRange(r) = IF s = Bound THEN BlockRange(0, e, Bound, n + 1)
                                       ELSE BlockRange(s + 1, e, Bound, n)
    BY <1>0, <1>1 DEF AdvanceRange
  <2>3. CASE s = Bound
    <3>1. AdvanceRange(r).Start = 0
      BY <2>2, <2>3 DEF BlockRange
    <3>2. ~(0 > e)
      BY <1>0
    <3>3. RemoveBlockNum(b, s, FALSE) = <<AdvanceRange(r)>>
      BY <2>1, <3>1, <3>2
    <3> QED BY <2>2, <2>3, <3>3 DEF Only
  <2>4. CASE s # Bound
    <3>1. AdvanceRange(r).Start = s + 1
      BY <2>2, <2>4 DEF BlockRange
    <3>2. s + 1 > e <=> s = e
      BY <1>0
    <3> QED BY <2>1, <2>2, <2>4, <3>1, <3>2 DEF Only
  <2> QED BY <2>3, <2>4
<1>11. TotalBlock(b, s) = s + n * (Bound + 1)
  <2>1. TotalBlock(b, s) = IF n > 0 THEN s + Bound + (n - 1) * (Bound + 1) + 1 ELSE s
    BY <1>1, <1>3, <1>5 DEF TotalBlock
  <2>2. (n - 1) * (Bound + 1) = n * (Bound + 1) - (Bound + 1)
    BY <1>0
  <2>3. n = 0 => n * (Bound + 1) = 0
    BY <1>0
  <2>4. n * (Bound + 1) \in Nat
    BY <1>0
  <2> QED BY <1>0, <2>1, <2>2, <2>3, <2>4
<1> QED BY <1>3, <1>4, <1>7, <1>9, <1>10, <1>11 DEF b, r

LEMMA NextNumber ==
  ASSUME NEW x \in Nat
  PROVE  /\ x = Wire(x) + (x \div (Bound + 1)) * (Bound + 1)
         /\ x \div (Bound + 1) \in Nat
         /\ Wire(x + 1) = IF Wire(x) = Bound THEN 0 ELSE Wire(x) + 1
         /\ (x + 1) \div (Bound + 1) =
              IF Wire(x) = Bound THEN x \div (Bound + 1) + 1 ELSE x \div (Bound + 1)
<1> DEFINE m == Bound + 1
           q == x \div m
           t == x % m
<1>0. Bound \in Nat /\ m \in Nat \ {0} /\ m = Bound + 1
  BY Mtftp4Assumption
<1>1. Wire(x) = t /\ t \in 0 .. Bound
  BY WireFacts DEF Wire
<1>2. x = m * q + t /\ q \in Nat
  <2>1. q \in Nat
    BY <1>0
  <2> HIDE DEF m
  <2> QED BY <1>0, <2>1, Division
<1> HIDE DEF q, t
<1>3. x = t + q * m
  <2> HIDE DEF m
  <2> QED BY <1>0, <1>1, <1>2
<1>4. ASSUME NEW s \in 0 .. Bound, NEW n \in Nat, x + 1 = s + n * m
      PROVE  Wire(x + 1) = s /\ (x + 1) \div m = n
  <2>1. Wire(x + 1) = s
    BY <1>4, WireFacts
  <2> DEFINE y == x + 1
             p == y \div m
  <2>2. y \in Nat /\ p \in Int /\ y % m = s
    BY <1>0, <2>1 DEF Wire
  <2>3. y = m * p + s
    <3> HIDE DEF m, y
    <3>1. y = m * p + (y % m)
      BY <1>0, <2>2, Division
    <3> QED BY <2>2, <3>1, Zenon
  <2>4. y = s + n * m
    BY <1>4
  <2> HIDE DEF y, p, m
  <2>5. m * (p - n) = 0
    BY <1>0, <2>2, <2>3, <2>4
  <2>6. p = n
    BY <1>0, <2>2, <2>5
  <2> QED BY <2>1, <2>6 DEF y, p
<1>5. CASE t = Bound
  <2>1. (q + 1) * m = q * m + m /\ q * m \in Nat
    BY <1>0, <1>2
  <2>2. x + 1 = 0 + (q + 1) * m
    <3> HIDE DEF m
    <3> QED BY <1>0, <1>2, <1>3, <1>5, <2>1
  <2>3. q + 1 \in Nat /\ 0 \in 0 .. Bound
    BY <1>0, <1>2
  <2>4. Wire(x + 1) = 0 /\ (x + 1) \div m = q + 1
    BY <1>4, <2>2, <2>3
  <2> QED BY <1>1, <1>2, <1>3, <1>5, <2>4 DEF q
<1>6. CASE t # Bound
  <2>1. q * m \in Nat
    BY <1>0, <1>2
  <2>2. x + 1 = (t + 1) + q * m /\ t + 1 \in 0 .. Bound
    <3> HIDE DEF m
    <3> QED BY <1>0, <1>1, <1>3, <1>6, <2>1
  <2>3. Wire(x + 1) = t + 1 /\ (x + 1) \div m = q
    BY <1>2, <1>4, <2>2
  <2> QED BY <1>1, <1>2, <1>3, <1>6, <2>3 DEF q
<1> QED BY <1>5, <1>6

\* The same for the range that starts with block x of the file.
LEMMA PlaceFacts ==
  ASSUME NEW x \in Nat, NEW e \in Wire(x) .. Bound
  PROVE  /\ Head(Place(x, e)).Start + Head(Place(x, e)).Round * (Bound + 1) = x
         /\ Place(x, e) # <<>> /\ Len(Place(x, e)) = 1
         /\ Place(x, e)[1] = BlockRange(Wire(x), e, Bound, x \div (Bound + 1))
         /\ GetNextBlockNum(Place(x, e)) = Wire(x)
         /\ SetLastBlockNum(Place(x, e), Wire(x)) = Place(x, Wire(x))
         /\ RemoveBlockNum(Place(x, e), Wire(x), TRUE) = <<>>
         /\ RemoveBlockNum(Place(x, e), Wire(x), FALSE) =
              IF Wire(x) = e /\ e # Bound THEN <<>> ELSE Place(x + 1, e)
         /\ TotalBlock(Place(x, e), Wire(x)) = x
<1> DEFINE s == Wire(x)
           n == x \div (Bound + 1)
<1>0. Bound \in Nat \ {0}
  BY Mtftp4Assumption
<1>1. s \in 0 .. Bound /\ n \in Nat /\ x = s + n * (Bound + 1) /\ e \in s .. Bound
  BY WireFacts, NextNumber
<1>2. Place(x, e) = Only(s, e, n) /\ Place(x, s) = Only(s, s, n)
  BY DEF Place, Only
<1>3. Place(x + 1, e) = IF s = Bound THEN Only(0, e, n + 1) ELSE Only(s + 1, e, n)
  <2>1. Place(x + 1, e) = Only(Wire(x + 1), e, (x + 1) \div (Bound + 1))
    BY DEF Place, Only
  <2>2. Wire(x + 1) = (IF s = Bound THEN 0 ELSE s + 1)
    BY NextNumber
  <2>3. (x + 1) \div (Bound + 1) = (IF s = Bound THEN n + 1 ELSE n)
    BY NextNumber
  <2> HIDE DEF s, n
  <2> QED BY <2>1, <2>2, <2>3
<1> HIDE DEF s, n
<1>4. /\ GetNextBlockNum(Only(s, e, n)) = s
      /\ Head(Only(s, e, n)) = BlockRange(s, e, Bound, n)
      /\ Only(s, e, n) # <<>>
      /\ SetLastBlockNum(Only(s, e, n), s) = Only(s, s, n)
      /\ RemoveBlockNum(Only(s, e, n), s, TRUE) = <<>>
      /\ RemoveBlockNum(Only(s, e, n), s, FALSE) =
           IF s = Bound THEN Only(0, e, n + 1)
           ELSE IF s = e THEN <<>> ELSE Only(s + 1, e, n)
      /\ TotalBlock(Only(s, e, n), s) = s + n * (Bound + 1)
  BY <1>1, OneRange
<1>5. Len(Only(s, e, n)) = 1 /\ Only(s, e, n)[1] = BlockRange(s, e, Bound, n)
  BY OneElement DEF Only
<1>6. RemoveBlockNum(Place(x, e), s, FALSE) =
        IF s = e /\ e # Bound THEN <<>> ELSE Place(x + 1, e)
  BY <1>2, <1>3, <1>4
<1>7. Head(Place(x, e)).Start = s /\ Head(Place(x, e)).Round = n
  BY <1>2, <1>4 DEF BlockRange
<1> QED BY <1>1, <1>2, <1>4, <1>5, <1>6, <1>7 DEF s, n

-----------------------------------------------------------------------------
(***************************************************************************)
(* Packets and sessions                                                    *)
(***************************************************************************)
LEMMA PacketTypes ==
  /\ \A op \in {"RRQ", "WRQ"} : Request(op) \in Packets
  /\ Error \in Packets
  /\ \A i \in 0 .. Bound : Ack(i) \in Packets
  /\ \A i \in 0 .. Bound, c \in [src : Nat, pos : Nat], len \in Nat : Data(i, c, len) \in Packets
  /\ \A v \in BOOLEAN : Oack(v) \in Packets
<1>1. \A op \in {"RRQ", "WRQ"} : Request(op) \in Packets
  BY DEF Packets, Request
<1>2. Error \in Packets
  BY DEF Packets, Error
<1>3. \A i \in 0 .. Bound : Ack(i) \in Packets
  BY DEF Packets, Ack
<1>4. \A i \in 0 .. Bound, c \in [src : Nat, pos : Nat], len \in Nat : Data(i, c, len) \in Packets
  BY DEF Packets, Data
<1>5. \A v \in BOOLEAN : Oack(v) \in Packets
  BY DEF Packets, Oack
<1> QED BY <1>1, <1>2, <1>3, <1>4, <1>5

\* The kinds of packets, and what they carry.
LEMMA PacketFields ==
  /\ \A op : Request(op).op = op
  /\ Error.op = "ERROR"
  /\ \A i : Ack(i).op = "ACK" /\ Ack(i).block = i
  /\ \A i, c, len : /\ Data(i, c, len).op = "DATA" /\ Data(i, c, len).block = i
                    /\ Data(i, c, len).data = c /\ Data(i, c, len).len = len
  /\ \A v : Oack(v).op = "OACK" /\ Oack(v).valid = v
BY DEF Request, Error, Ack, Data, Oack

\* The packet of a block of a file
LEMMA DataType ==
  ASSUME NEW src \in Nat, NEW k \in Nat, NEW size \in Nat
  PROVE  Data(Wire(k), Content(src, k), BlockLen(size, k)) \in Packets
<1>1. Wire(k) \in 0 .. Bound
  BY WireFacts
<1>2. Content(src, k) \in [src : Nat, pos : Nat]
  BY DEF Content
<1>3. BlockLen(size, k) \in Nat
  <2>1. BlockLen(size, k) \in 0 .. BlkSize
    BY FileFacts
  <2> QED BY <2>1, Mtftp4Assumption
<1> HIDE DEF Data
<1> QED BY <1>1, <1>2, <1>3, PacketTypes

LEMMA AddressedFacts ==
  ASSUME NEW pkt \in Packets, NEW port \in Nat
  PROVE  /\ Addressed(pkt, port) \in [port : Nat, age : {0}, pkt : Packets]
         /\ Addressed(pkt, port).pkt = pkt
         /\ Addressed(pkt, port).age = 0
         /\ pkt.op \notin {"RRQ", "WRQ"} => Addressed(pkt, port).port = port
<1> HIDE DEF Packets
<1> QED BY DEF Addressed, Listening

\* A packet of the client stays what it is when the client sends another one,
\* be it for the same block or for the next one.
LEMMA SentOlder ==
  ASSUME NEW op, NEW port, NEW x \in Nat, NEW size, NEW q, q.age \in Nat,
         NEW old \in {0, port}, Sent(q, op, old, x, size), NEW y \in {x, x + 1}
  PROVE  Sent(Older(q), op, port, y, size)
<1> DEFINE p == Older(q)
<1>1. p.port = q.port /\ p.age = q.age + 1 /\ p.pkt = q.pkt
  BY DEF Older
<1> HIDE DEF p
<1>2. CASE q.pkt = Request(op)
  BY <1>1, <1>2 DEF Sent, p
<1>3. CASE /\ old # 0 /\ q.port = old /\ op = "RRQ"
           /\ \E k \in 0 .. x - 1 : x - 1 - k <= q.age /\ q.pkt = Ack(Wire(k))
  <2>1. PICK k \in 0 .. x - 1 : x - 1 - k <= q.age /\ q.pkt = Ack(Wire(k))
    BY <1>3
  <2>2. k \in 0 .. y - 1 /\ y - 1 - k <= p.age
    BY <1>1, <2>1
  <2>3. p.pkt = Ack(Wire(k)) /\ port # 0 /\ p.port = port
    BY <1>1, <1>3, <2>1
  <2>4. Sent(p, op, port, y, size)
    BY <1>3, <2>2, <2>3 DEF Sent
  <2> QED BY <2>4 DEF p
<1>4. CASE /\ old # 0 /\ q.port = old /\ op = "WRQ"
           /\ \E k \in 1 .. x : x - k <= q.age /\ q.pkt = Data(Wire(k), Content(Client, k), BlockLen(size, k))
  <2>1. PICK k \in 1 .. x : x - k <= q.age /\ q.pkt = Data(Wire(k), Content(Client, k), BlockLen(size, k))
    BY <1>4
  <2>2. k \in 1 .. y /\ y - k <= p.age
    BY <1>1, <2>1
  <2>3. p.pkt = Data(Wire(k), Content(Client, k), BlockLen(size, k)) /\ port # 0 /\ p.port = port
    BY <1>1, <1>4, <2>1
  <2>4. Sent(p, op, port, y, size)
    BY <1>4, <2>2, <2>3 DEF Sent
  <2> QED BY <2>4 DEF p
<1> QED BY <1>2, <1>3, <1>4 DEF Sent

\* The same for a packet of the server; its session may be at the next block.
LEMMA AnswerOlder ==
  ASSUME NEW op, NEW size, NEW s, NEW t, NEW q, q.age \in Nat, s.last \in Nat,
         Answer(q, s, op, size), t.reply = s.reply, t.last \in {s.last, s.last + 1}
  PROVE  Answer(Older(q), t, op, size)
<1> DEFINE p == Older(q)
<1>1. p.port = q.port /\ p.age = q.age + 1 /\ p.pkt = q.pkt
  BY DEF Older
<1> HIDE DEF p
<1>2. CASE q.pkt = Error /\ s.reply = "error"
  BY <1>1, <1>2 DEF Answer, p
<1>3. CASE q.pkt = Oack(FALSE) /\ s.reply = "malformed"
  BY <1>1, <1>3 DEF Answer, p
<1>4. CASE q.pkt = Oack(TRUE) /\ s.reply = "oack" /\ s.last <= q.age
  <2>1. t.last <= p.age
    BY <1>1, <1>4
  <2>2. Answer(p, t, op, size)
    BY <1>1, <1>4, <2>1 DEF Answer
  <2> QED BY <2>2 DEF p
<1>5. CASE /\ Answers(s)
           /\ \E k \in 0 .. s.last :
                /\ s.last - k <= q.age
                /\ IF op = "RRQ"
                   THEN k > 0 /\ q.pkt = Data(Wire(k), Content(q.port, k), BlockLen(size, k))
                   ELSE q.pkt = Ack(Wire(k))
  <2>1. PICK k \in 0 .. s.last :
                /\ s.last - k <= q.age
                /\ IF op = "RRQ"
                   THEN k > 0 /\ q.pkt = Data(Wire(k), Content(q.port, k), BlockLen(size, k))
                   ELSE q.pkt = Ack(Wire(k))
    BY <1>5
  <2>2. k \in 0 .. t.last /\ t.last - k <= p.age
    BY <1>1, <2>1
  <2>3. Answers(t)
    BY <1>5 DEF Answers
  <2>4. Answer(p, t, op, size)
    BY <1>1, <2>1, <2>2, <2>3 DEF Answer
  <2> QED BY <2>4 DEF p
<1> QED BY <1>2, <1>3, <1>4, <1>5 DEF Answer

\* What a session sends is a packet of that session.
LEMMA ServerAnswers ==
  ASSUME NEW op \in {"RRQ", "WRQ"}, NEW s \in Sessions, NEW port \in Nat, NEW x, NEW heard,
         token.size \in Nat, InSession(s, op, token.size, x, heard)
  PROVE  /\ ServerPacket(port, s) \in [port : Nat, age : {0}, pkt : Packets]
         /\ ServerPacket(port, s).port = port
         /\ Answer(ServerPacket(port, s), s, op, token.size)
<1> DEFINE p == ServerPacket(port, s)
<1>0. /\ s.op = op /\ s.last \in Nat
      /\ s.reply \in {"plain", "oack", "malformed", "error"}
      /\ op = "RRQ" /\ s.reply = "plain" => s.last > 0
  BY DEF InSession, Sessions
<1>1. p.port = port /\ p.age = 0 /\ p = [port |-> port, age |-> 0, pkt |-> p.pkt]
  BY DEF ServerPacket
<1>2. CASE s.reply = "error"
  <2>1. p.pkt = Error
    BY <1>2 DEF ServerPacket
  <2> HIDE DEF p
  <2>2. p \in [port : Nat, age : {0}, pkt : Packets]
    BY <1>1, <2>1, PacketTypes
  <2> QED BY <1>1, <1>2, <2>1, <2>2 DEF Answer, p
<1>3. CASE s.reply = "malformed"
  <2>1. p.pkt = Oack(FALSE)
    BY <1>3 DEF ServerPacket
  <2> HIDE DEF p
  <2>2. p \in [port : Nat, age : {0}, pkt : Packets]
    BY <1>1, <2>1, PacketTypes
  <2> QED BY <1>1, <1>3, <2>1, <2>2 DEF Answer, p
<1>4. CASE s.reply = "oack" /\ s.last = 0
  <2>1. p.pkt = Oack(TRUE)
    BY <1>4 DEF ServerPacket
  <2> HIDE DEF p
  <2>2. p \in [port : Nat, age : {0}, pkt : Packets]
    BY <1>1, <2>1, PacketTypes
  <2>3. s.last <= p.age
    BY <1>1, <1>4
  <2> QED BY <1>1, <1>4, <2>1, <2>2, <2>3 DEF Answer, p
<1>5. CASE s.reply \in {"plain", "oack"} /\ op = "RRQ" /\ s.last > 0
  <2>1. p.pkt = Data(Wire(s.last), Content(p.port, s.last), BlockLen(token.size, s.last))
    <3>1. ~(s.reply = "oack" /\ s.last = 0)
      BY <1>0, <1>5
    <3>2. p.pkt = Data(Wire(s.last), Content(port, s.last), BlockLen(token.size, s.last))
      BY <1>0, <1>5, <3>1 DEF ServerPacket
    <3> HIDE DEF p
    <3> QED BY <1>1, <3>2
  <2>2. p.pkt \in Packets
    BY <1>0, <1>1, <2>1, DataType
  <2> HIDE DEF p
  <2>3. p \in [port : Nat, age : {0}, pkt : Packets]
    BY <1>1, <2>2
  <2>4. s.last \in 0 .. s.last /\ s.last - s.last <= p.age
    BY <1>0, <1>1
  <2>5. Answer(p, s, op, token.size)
    BY <1>5, <2>1, <2>4 DEF Answer, Answers
  <2> QED BY <1>1, <2>3, <2>5 DEF p
<1>6. CASE s.reply \in {"plain", "oack"} /\ op = "WRQ" /\ ~(s.reply = "oack" /\ s.last = 0)
  <2>1. p.pkt = Ack(Wire(s.last))
    BY <1>0, <1>6 DEF ServerPacket
  <2>2. p.pkt \in Packets
    BY <1>0, <2>1, PacketTypes, WireFacts
  <2> HIDE DEF p
  <2>3. p \in [port : Nat, age : {0}, pkt : Packets]
    BY <1>1, <2>2
  <2>4. s.last \in 0 .. s.last /\ s.last - s.last <= p.age
    BY <1>0, <1>1
  <2>5. Answer(p, s, op, token.size)
    BY <1>6, <2>1, <2>4 DEF Answer, Answers
  <2> QED BY <1>1, <2>3, <2>5 DEF p
<1>7. s.last > 0 \/ s.last = 0
  BY <1>0
<1> QED BY <1>0, <1>2, <1>3, <1>4, <1>5, <1>6, <1>7

-----------------------------------------------------------------------------
(***************************************************************************)
(* What is under way, from one state to the next                           *)
(***************************************************************************)
LEMMA AgeType ==
  ASSUME NEW w, Way(w), NEW i \in 1 .. Len(w)
  PROVE  w[i].age \in Nat /\ w[i].age < Window /\ w[i].port \in Nat /\ w[i].pkt \in Packets
<1> DEFINE T == [port : Nat, age : Nat, pkt : Packets]
<1>1. \A x \in T : x.age \in Nat /\ x.port \in Nat /\ x.pkt \in Packets
  BY DEF T
<1>2. w \in Seq(T)
  BY DEF Way
<1> HIDE DEF T
<1>3. w[i] \in T
  BY <1>2
<1>4. w[i].age < Window
  BY DEF Way
<1> QED BY <1>1, <1>3, <1>4

LEMMA SentKept ==
  ASSUME SentOK, Among(toServer', toServer), Operation' = Operation, token' = token,
         ConnectedPort' = ConnectedPort, Expected' = Expected
  PROVE  SentOK'
<1> SUFFICES ASSUME NEW j \in 1 .. Len(toServer')
             PROVE  Sent(toServer'[j], Operation', ConnectedPort', Expected', token.size)
  BY DEF SentOK
<1>1. PICK k \in 1 .. Len(toServer) : toServer'[j] = toServer[k]
  BY DEF Among
<1>2. Sent(toServer[k], Operation, ConnectedPort, Expected, token.size)
  BY DEF SentOK
<1> QED BY <1>1, <1>2

LEMMA SentPosted ==
  ASSUME SentOK, Way(toServer), NEW p, Newer(toServer', toServer, p),
         Operation' = Operation, token' = token,
         ConnectedPort \in {0, ConnectedPort'},
         Expected \in Nat, Expected' \in {Expected, Expected + 1},
         Sent(p, Operation, ConnectedPort', Expected', token.size)
  PROVE  SentOK'
<1> SUFFICES ASSUME NEW j \in 1 .. Len(toServer')
             PROVE  Sent(toServer'[j], Operation, ConnectedPort', Expected', token.size)
  BY DEF SentOK
<1>1. CASE toServer'[j] = p
  BY <1>1
<1>2. CASE \E k \in 1 .. Len(toServer) : toServer'[j] = Older(toServer[k])
  <2>1. PICK k \in 1 .. Len(toServer) : toServer'[j] = Older(toServer[k])
    BY <1>2
  <2>2. Sent(toServer[k], Operation, ConnectedPort, Expected, token.size)
    BY DEF SentOK
  <2>3. toServer[k].age \in Nat
    BY AgeType
  <2>4. Sent(Older(toServer[k]), Operation, ConnectedPort', Expected', token.size)
    BY <2>2, <2>3, SentOlder
  <2> QED BY <2>1, <2>4
<1> QED BY <1>1, <1>2 DEF Newer

LEMMA AnswersKept ==
  ASSUME AnswersOK, Among(toClient', toClient), Operation' = Operation, token' = token,
         server' = server
  PROVE  AnswersOK'
<1> SUFFICES ASSUME NEW j \in 1 .. Len(toClient')
             PROVE  /\ toClient'[j].port \in 1 .. Len(server)
                    /\ Answer(toClient'[j], server[toClient'[j].port], Operation, token.size)
  BY DEF AnswersOK
<1>1. PICK k \in 1 .. Len(toClient) : toClient'[j] = toClient[k]
  BY DEF Among
<1> QED BY <1>1 DEF AnswersOK

LEMMA AnswersPosted ==
  ASSUME AnswersOK, Way(toClient), NEW p, Newer(toClient', toClient, p),
         Operation' = Operation, token' = token, server \in Seq(Sessions),
         1 .. Len(server) \subseteq 1 .. Len(server'),
         \A port \in 1 .. Len(server) :
           /\ server'[port].reply = server[port].reply
           /\ server'[port].last \in {server[port].last, server[port].last + 1},
         p.port \in 1 .. Len(server'),
         Answer(p, server'[p.port], Operation, token.size)
  PROVE  AnswersOK'
<1> SUFFICES ASSUME NEW j \in 1 .. Len(toClient')
             PROVE  /\ toClient'[j].port \in 1 .. Len(server')
                    /\ Answer(toClient'[j], server'[toClient'[j].port], Operation, token.size)
  BY DEF AnswersOK
<1>1. CASE toClient'[j] = p
  BY <1>1
<1>2. CASE \E k \in 1 .. Len(toClient) : toClient'[j] = Older(toClient[k])
  <2>1. PICK k \in 1 .. Len(toClient) : toClient'[j] = Older(toClient[k])
    BY <1>2
  <2> DEFINE q == toClient[k]
  <2>2. q.port \in 1 .. Len(server) /\ Answer(q, server[q.port], Operation, token.size)
    BY DEF AnswersOK
  <2>3. q.age \in Nat
    BY AgeType
  <2>4. toClient'[j] = Older(q)
    BY <2>1
  <2> HIDE DEF q
  <2>5. server[q.port].last \in Nat
    <3>1. server[q.port] \in Sessions
      BY <2>2
    <3> QED BY <3>1 DEF Sessions
  <2>6. /\ server'[q.port].reply = server[q.port].reply
        /\ server'[q.port].last \in {server[q.port].last, server[q.port].last + 1}
    BY <2>2
  <2>7. Answer(Older(q), server'[q.port], Operation, token.size)
    BY <2>2, <2>3, <2>5, <2>6, AnswerOlder
  <2>8. Older(q).port = q.port
    BY DEF Older
  <2>9. q.port \in 1 .. Len(server')
    BY <2>2
  <2> QED BY <2>4, <2>7, <2>8, <2>9
<1> QED BY <1>1, <1>2 DEF Newer

LEMMA UploadKept ==
  ASSUME UploadWithinFile, Way(toServer), Way(toServer'), Among(toServer', toServer), token' = token
  PROVE  UploadWithinFile'
<1>1. DOMAIN toServer = 1 .. Len(toServer) /\ DOMAIN toServer' = 1 .. Len(toServer')
  BY DEF Way
<1> SUFFICES ASSUME NEW j \in 1 .. Len(toServer'), toServer'[j].pkt.op = "DATA"
             PROVE  toServer'[j].pkt.data.pos \in 1 .. BlockCount(token.size)
  BY <1>1 DEF UploadWithinFile
<1>2. PICK k \in 1 .. Len(toServer) : toServer'[j] = toServer[k]
  BY DEF Among
<1> QED BY <1>1, <1>2 DEF UploadWithinFile

LEMMA UploadPosted ==
  ASSUME UploadWithinFile, Way(toServer), Way(toServer'), NEW p,
         Newer(toServer', toServer, p), token' = token,
         p.pkt.op = "DATA" => p.pkt.data.pos \in 1 .. BlockCount(token.size)
  PROVE  UploadWithinFile'
<1>1. DOMAIN toServer = 1 .. Len(toServer) /\ DOMAIN toServer' = 1 .. Len(toServer')
  BY DEF Way
<1> SUFFICES ASSUME NEW j \in 1 .. Len(toServer'), toServer'[j].pkt.op = "DATA"
             PROVE  toServer'[j].pkt.data.pos \in 1 .. BlockCount(token.size)
  BY <1>1 DEF UploadWithinFile
<1>2. CASE toServer'[j] = p
  BY <1>2
<1>3. CASE \E k \in 1 .. Len(toServer) : toServer'[j] = Older(toServer[k])
  <2>1. PICK k \in 1 .. Len(toServer) : toServer'[j] = Older(toServer[k])
    BY <1>3
  <2>2. toServer'[j].pkt = toServer[k].pkt
    BY <2>1 DEF Older
  <2> QED BY <1>1, <2>2 DEF UploadWithinFile
<1> QED BY <1>2, <1>3 DEF Newer

-----------------------------------------------------------------------------
(***************************************************************************)
(* Steps that end an operation, and steps of the client that do not        *)
(***************************************************************************)
\* Where the client is in an operation.
LEMMA Here ==
  ASSUME Inv, Operation # "none"
  PROVE  /\ Operation \in {"RRQ", "WRQ"} /\ token.op = Operation /\ token \in Tokens
         /\ token.size \in Nat /\ token.buffer \in Nat /\ token.timeout \in Nat \ {0}
         /\ token.source \in {"Buffer", "PacketNeeded"}
         /\ BlockCount(token.size) \in Nat \ {0}
         /\ Expected \in Nat /\ Wire(Expected) \in 0 .. Bound
         /\ GetNextBlockNum(Blocks) = Wire(Expected)
         /\ server \in Seq(Sessions) /\ Len(server) \in Nat
         /\ \A port \in 1 .. Len(server) : server[port] \in Sessions /\ server[port].last \in Nat
<1>0. Operation \in {"RRQ", "WRQ"}
  BY DEF Inv, Types
<1>1. token.op = Operation /\ token \in Tokens
  BY DEF Inv, Active, Running
<1>2. /\ token.size \in Nat /\ token.buffer \in Nat /\ token.timeout \in Nat \ {0}
      /\ token.source \in {"Buffer", "PacketNeeded"}
  BY <1>1, Mtftp4Assumption
<1>3. BlockCount(token.size) \in Nat \ {0}
  BY <1>2, FileFacts
<1> DEFINE e == IF AtEnd THEN Wire(Expected) ELSE Bound
<1>4. Expected \in Nat /\ Blocks = Place(Expected, e)
  BY DEF Inv, Active, Ranges
<1>5. Wire(Expected) \in 0 .. Bound
  BY <1>4, WireFacts
<1>6. e \in Wire(Expected) .. Bound
  BY <1>5, Mtftp4Assumption
<1> HIDE DEF e
<1>7. GetNextBlockNum(Blocks) = Wire(Expected)
  BY <1>4, <1>6, PlaceFacts
<1>8. server \in Seq(Sessions)
  BY DEF Inv, Types
<1>9. \A port \in 1 .. Len(server) : server[port] \in Sessions
  BY <1>8
<1>10. \A s \in Sessions : s.last \in Nat
  BY DEF Sessions
<1> QED BY <1>0, <1>1, <1>2, <1>3, <1>4, <1>5, <1>7, <1>8, <1>9, <1>10

\* The range that starts with block x, as the client's next one.
LEMMA Placed ==
  ASSUME NEW x \in Nat, NEW e \in Wire(x) .. Bound, Blocks' = Place(x, e)
  PROVE  Expected' = x
BY PlaceFacts DEF Expected

LEMMA EmptyWay == Way(<<>>)
<1>1. Len(<<>>) = 0 /\ <<>> \in Seq([port : Nat, age : Nat, pkt : Packets])
  BY EmptySeq
<1>2. \A i \in 1 .. Len(<<>>) : FALSE
  BY <1>1
<1> QED BY <1>1, <1>2 DEF Way

\* Mtftp4CleanOperation, whatever the result.
LEMMA CleanStep ==
  ASSUME Inv, NEW result \in Results, CleanOperation(result),
         State' \in {"UNCONFIGED", "CONFIGED"}, token' = token, server' = server,
         BufferSize' \in Nat, given' = given, dups' \in 0 .. MaxDups,
         Way(toServer'), UploadWithinFile', ResultAccurate'
  PROVE  Inv'
<1>1. Operation' = "none" /\ Idle'
  BY DEF CleanOperation, Idle
<1>2. Way(toClient')
  BY EmptyWay DEF CleanOperation
<1>3. CurRetry' \in 0 .. MaxRetry - 1
  BY Mtftp4Assumption DEF CleanOperation
<1>4. Status' \in Results
  BY DEF CleanOperation, Inv, Types
<1>5. Types'
  <2>1. /\ token' \in Tokens \union {NoToken} /\ given' \in Nat
        /\ server' \in Seq(Sessions) /\ Len(server') <= Ports
    BY DEF Inv, Types
  <2> QED BY <1>1, <1>2, <1>3, <1>4, <2>1 DEF Types
<1> QED BY <1>1, <1>5 DEF Inv

\* The client goes on with the block it waits for or with the next one.
LEMMA ClientStep ==
  ASSUME Inv, Operation # "none",
         UNCHANGED <<State, token, Operation, Status, server>>,
         dups' \in 0 .. MaxDups, given' \in Nat, CurRetry' \in 0 .. MaxRetry - 1,
         PacketToLive' \in 1 .. token.timeout, BufferSize' = BufferSize,
         Operation = "WRQ" /\ token.source = "PacketNeeded" => given' = Expected',
         Ranges', Pending', Received',
         ConnectedPort' \in 0 .. Len(server), ConnectedPort \in {0, ConnectedPort'},
         ConnectedPort' = 0 => Expected' = Expected,
         ConnectedPort' # 0 =>
           /\ Answers(server[ConnectedPort'])
           /\ server[ConnectedPort'].last \in {Expected' - 1, Expected'},
         Way(toClient'), Among(toClient', toClient),
         Way(toServer'), UploadWithinFile', SentOK'
  PROVE  Inv'
<1>1. Types'
  BY DEF Inv, Types
<1>2. ResultAccurate'
  <2>1. Status' = "NOT_READY"
    BY DEF Inv, Active, Running
  <2> QED BY <2>1 DEF ResultAccurate, DownloadIntact, UploadIntact, SizeAccurate
<1>3. Running'
  <2>1. Running
    BY DEF Inv, Active
  <2> QED BY <2>1 DEF Running
<1>4. ConnectedPort' # 0 => Answers(server'[ConnectedPort'])
  OBVIOUS
<1>5. SessionsOK'
  <2> SUFFICES ASSUME NEW port \in 1 .. Len(server)
               PROVE  InSession(server[port], Operation, token.size, Expected', ConnectedPort' \in {0, port})
    BY DEF SessionsOK
  <2>1. InSession(server[port], Operation, token.size, Expected, ConnectedPort \in {0, port})
    BY DEF Inv, Active, SessionsOK
  <2>2. Answers(server[port]) /\ ConnectedPort' \in {0, port} => server[port].last \in {Expected' - 1, Expected'}
    BY <2>1 DEF InSession
  <2> QED BY <2>1, <2>2 DEF InSession
<1>6. AnswersOK'
  BY AnswersKept DEF Inv, Active
<1>7. Active'
  BY <1>3, <1>4, <1>5, <1>6 DEF Active
<1> QED BY <1>1, <1>2, <1>7 DEF Inv

\* An operation that ends with neither of the results that say something of
\* the file.
LEMMA EndStep ==
  ASSUME Inv, Operation # "none", NEW result \in Results \ {"SUCCESS", "BUFFER_TOO_SMALL"},
         CleanOperation(result), UNCHANGED <<State, token, server, BufferSize, given>>,
         dups' \in 0 .. MaxDups,
         toServer' = toServer \/ \E port \in Nat : toServer' = Post(toServer, Addressed(Error, port))
  PROVE  Inv'
<1>0. Way(toServer) /\ UploadWithinFile /\ BufferSize \in Nat /\ State \in {"UNCONFIGED", "CONFIGED"}
  BY DEF Inv, Types
<1>1. Way(toServer') /\ UploadWithinFile'
  <2>1. CASE toServer' = toServer
    BY <1>0, <2>1 DEF UploadWithinFile
  <2>2. CASE \E port \in Nat : toServer' = Post(toServer, Addressed(Error, port))
    <3>1. PICK port \in Nat : toServer' = Post(toServer, Addressed(Error, port))
      BY <2>2
    <3> DEFINE p == Addressed(Error, port)
    <3>2. p \in [port : Nat, age : {0}, pkt : Packets] /\ p.pkt = Error
      BY PacketTypes, AddressedFacts
    <3>3. toServer' = Post(toServer, p)
      BY <3>1
    <3> HIDE DEF p
    <3>4. Way(toServer') /\ Newer(toServer', toServer, p)
      BY <1>0, <3>2, <3>3, PostWay
    <3>5. p.pkt.op # "DATA"
      BY <3>2 DEF Error
    <3> QED BY <1>0, <3>4, <3>5, UploadPosted
  <2> QED BY <2>1, <2>2
<1>2. Status' = result
  BY DEF CleanOperation
<1>3. ResultAccurate'
  BY <1>2 DEF ResultAccurate, DownloadIntact, UploadIntact, SizeAccurate
<1> QED BY <1>0, <1>1, <1>3, CleanStep

LEMMA ConfigureResetStep ==
  ASSUME Inv, ConfigureReset PROVE Inv'
<1> USE DEF ConfigureReset
<1>1. CASE Operation = "none"
  <2>1. Status' = Status
    BY <1>1 DEF CleanOperation
  <2>2. ResultAccurate'
    BY <2>1 DEF Inv, ResultAccurate, DownloadIntact, UploadIntact, SizeAccurate
  <2>3. Way(toServer') /\ UploadWithinFile' /\ BufferSize' \in Nat /\ dups' \in 0 .. MaxDups
    BY DEF Inv, Types, UploadWithinFile
  <2> QED BY <2>2, <2>3, CleanStep DEF Results
<1>2. CASE Operation # "none"
  <2>1. Status' = "ABORTED"
    BY <1>2 DEF CleanOperation
  <2>2. ResultAccurate'
    BY <2>1 DEF ResultAccurate, DownloadIntact, UploadIntact, SizeAccurate
  <2>3. Way(toServer') /\ UploadWithinFile' /\ BufferSize' \in Nat /\ dups' \in 0 .. MaxDups
    BY DEF Inv, Types, UploadWithinFile
  <2> QED BY <2>2, <2>3, CleanStep DEF Results
<1> QED BY <1>1, <1>2

LEMMA InputFailsStep ==
  ASSUME Inv, InputFails PROVE Inv'
<1>1. dups' \in 0 .. MaxDups
  BY DEF Inv, Types, InputFails
<1> QED BY <1>1, EndStep DEF InputFails, Results, request

\* A step that changes nothing but State.
LEMMA SameStep ==
  ASSUME Inv, State' \in {"UNCONFIGED", "CONFIGED"},
         UNCHANGED <<instance, token, Status, Buffer, BufferSize, given, server,
                     toServer, toClient, dups>>
  PROVE  Inv'
<1> USE DEF instance
<1>1. Types'
  BY DEF Inv, Types
<1>2. UploadWithinFile' /\ ResultAccurate'
  BY DEF Inv, UploadWithinFile, ResultAccurate, DownloadIntact, UploadIntact, SizeAccurate
<1>3. Operation' = "none" => Idle'
  BY DEF Inv, Idle
<1>4. Expected' = Expected
  BY DEF Expected
<1>5. Operation' # "none" => Active'
  <2> SUFFICES ASSUME Active PROVE Active'
    BY DEF Inv
  <2>1. Ranges'
    BY <1>4 DEF Active, Ranges, AtEnd
  <2>2. Running'
    BY <1>4 DEF Active, Running
  <2>3. Pending'
    BY <1>4 DEF Active, Pending
  <2>4. Received'
    BY <1>4 DEF Active, Received
  <2>5. ConnectedPort' # 0 => Answers(server'[ConnectedPort'])
    BY DEF Active
  <2>6. SessionsOK' /\ AnswersOK' /\ SentOK'
    BY <1>4 DEF Active, SessionsOK, AnswersOK, SentOK
  <2> QED BY <2>1, <2>2, <2>3, <2>4, <2>5, <2>6 DEF Active
<1> QED BY <1>1, <1>2, <1>3, <1>5 DEF Inv

LEMMA ConfigureStep ==
  ASSUME Inv, Configure PROVE Inv'
BY SameStep DEF Configure

\* The user starts an operation.
LEMMA StartStep ==
  ASSUME Inv, NEW t \in Tokens, Start(t) PROVE Inv'
<1>0. /\ t.op \in {"RRQ", "WRQ"} /\ t.size \in Nat /\ t.buffer \in Nat /\ t.timeout \in Nat \ {0}
      /\ BlockCount(t.size) \in Nat \ {0} /\ MaxRetry \in Nat \ {0} /\ Ports \in Nat /\ MaxDups \in Nat
      /\ Bound \in Nat \ {0}
  BY FileFacts, Mtftp4Assumption
<1>1. Operation = "none" /\ Idle
  BY DEF Inv, Start
<1> DEFINE x == FirstBlock(t.op)
<1>2. x \in {0, 1} /\ Wire(x) = x /\ Bound \in Wire(x) .. Bound
  BY <1>0, WireFacts DEF FirstBlock
<1>3. Blocks' = Place(x, Bound)
  <2>1. Blocks' = <<AllocateRange(x, Bound)>>
    <3>1. Blocks' = <<>> \o <<AllocateRange(x, Bound)>>
      BY <1>1 DEF Start, Idle, InitBlockRange
    <3> QED BY <3>1
  <2>2. x \div (Bound + 1) = 0
    BY <1>0, <1>2
  <2> QED BY <1>2, <2>1, <2>2 DEF Place, AllocateRange
<1>4. Expected' = x
  BY <1>2, <1>3, Placed
<1> HIDE DEF x
<1>5. /\ token' = t /\ Status' = "NOT_READY" /\ Operation' = t.op /\ BufferSize' = t.buffer
      /\ given' = 0 /\ LastPacket' = Request(t.op) /\ CurRetry' = 0 /\ PacketToLive' = t.timeout
      /\ ConnectedPort' = 0 /\ server' = <<>> /\ dups' = 0 /\ State' = State
      /\ LastBlock' = 0 /\ toClient' = <<>>
  BY <1>1 DEF Start, Idle
<1> DEFINE p == Addressed(Request(t.op), Listening)
<1>6. p \in [port : Nat, age : {0}, pkt : Packets] /\ p.pkt = Request(t.op)
  <2>1. Request(t.op) \in Packets /\ Listening \in Nat
    BY <1>0, PacketTypes DEF Listening
  <2> QED BY <2>1, AddressedFacts
<1>7. toServer' = <<p>>
  BY DEF Start
<1> HIDE DEF p
<1>8. Len(toServer') = 1 /\ toServer'[1] = p /\ DOMAIN toServer' = {1}
  BY <1>7
<1>9. Way(toServer')
  <2>1. p \in [port : Nat, age : Nat, pkt : Packets] /\ p.age = 0
    <3> HIDE DEF Packets
    <3> QED BY <1>6
  <2>2. <<p>> \in Seq([port : Nat, age : Nat, pkt : Packets])
    BY <2>1
  <2>3. \A i \in 1 .. Len(toServer') : i = 1
    BY <1>8
  <2>4. Window \in Nat \ {0}
    BY Mtftp4Assumption
  <2>5. \A i \in 1 .. Len(toServer') : /\ toServer'[i].age < Window
                                       /\ toServer'[i].age >= Len(toServer') - i
    BY <1>8, <2>1, <2>3, <2>4
  <2>6. \A i, j \in 1 .. Len(toServer') : ~(i < j)
    BY <2>3
  <2> QED BY <1>7, <2>2, <2>5, <2>6 DEF Way
<1>10. UploadWithinFile'
  <2>1. p.pkt.op # "DATA"
    BY <1>0, <1>6 DEF Request
  <2> QED BY <1>8, <2>1 DEF UploadWithinFile
<1>11. ResultAccurate'
  BY <1>5 DEF ResultAccurate, DownloadIntact, UploadIntact, SizeAccurate
<1>12. server' \in Seq(Sessions) /\ Len(server') = 0 /\ \A port \in 1 .. Len(server') : FALSE
  BY <1>5
<1>13. Types'
  BY <1>0, <1>5, <1>9, <1>12, EmptyWay DEF Types, Inv, Results
<1>14. Ranges'
  <2>1. ~AtEnd'
    BY <1>0, <1>2, <1>4, <1>5 DEF AtEnd, FirstBlock, x
  <2>2. Operation' = "WRQ" => Expected' <= BlockCount(token'.size)
    BY <1>0, <1>2, <1>4, <1>5
  <2> QED BY <1>2, <1>3, <1>4, <1>5, <2>1, <2>2 DEF Ranges
<1>15. Running'
  BY <1>0, <1>4, <1>5, <1>12 DEF Running, FirstBlock, x
<1>16. Pending'
  BY <1>4, <1>5 DEF Pending, x
<1>17. Received'
  <2>1. Operation' = "RRQ" => Buffer' = [i \in 1 .. BlockCount(t.size) |-> Unwritten]
    BY <1>5 DEF Start
  <2>2. Unwritten \in [src : Nat, pos : Nat]
    BY DEF Unwritten, Content, Client
  <2> QED BY <1>5, <2>1, <2>2 DEF Received
<1>18. SessionsOK'
  BY <1>12 DEF SessionsOK
<1>19. AnswersOK'
  BY <1>5 DEF AnswersOK
<1>20. SentOK'
  <2>1. \A i \in 1 .. Len(toServer') : i = 1
    BY <1>8
  <2> QED BY <1>5, <1>6, <1>8, <2>1 DEF SentOK, Sent
<1>21. Active'
  BY <1>5, <1>14, <1>15, <1>16, <1>17, <1>18, <1>19, <1>20 DEF Active
<1> QED BY <1>0, <1>5, <1>10, <1>11, <1>13, <1>21 DEF Inv

-----------------------------------------------------------------------------
(***************************************************************************)
(* The timer and the network                                               *)
(***************************************************************************)
\* LastPacket is a packet that the client may send to the port it is
\* connected to, and an upload sends blocks of the file.
LEMMA PendingFacts ==
  ASSUME Inv, Operation # "none"
  PROVE  /\ ConnectedPort \in Nat
         /\ Addressed(LastPacket, ConnectedPort) \in [port : Nat, age : {0}, pkt : Packets]
         /\ Sent(Addressed(LastPacket, ConnectedPort), Operation, ConnectedPort, Expected, token.size)
         /\ LastPacket.op = "DATA" => LastPacket.data.pos \in 1 .. BlockCount(token.size)
         /\ LastPacket # NoPacket /\ LastPacket \in Packets
<1>0. /\ Operation \in {"RRQ", "WRQ"} /\ token.size \in Nat /\ Expected \in Nat /\ Len(server) \in Nat
      /\ BlockCount(token.size) \in Nat
  BY Here
<1>1. ConnectedPort \in Nat /\ Pending /\ (Operation = "WRQ" => Expected <= BlockCount(token.size))
  BY <1>0 DEF Inv, Active, Running, Ranges
<1> DEFINE p == Addressed(LastPacket, ConnectedPort)
<1>2. CASE ConnectedPort = 0
  <2>1. LastPacket = Request(Operation)
    BY <1>1, <1>2 DEF Pending
  <2>2. LastPacket \in Packets /\ LastPacket.op \in {"RRQ", "WRQ"}
    BY <1>0, <2>1, PacketTypes DEF Request
  <2>3. p \in [port : Nat, age : {0}, pkt : Packets] /\ p.pkt = LastPacket
    BY <1>1, <2>2, AddressedFacts
  <2> HIDE DEF p
  <2>4. Sent(p, Operation, ConnectedPort, Expected, token.size)
    BY <2>1, <2>3 DEF Sent
  <2> QED BY <1>1, <2>2, <2>3, <2>4 DEF p, NoPacket
<1>3. CASE ConnectedPort # 0 /\ Operation = "RRQ"
  <2>1. LastPacket = Ack(Wire(Expected - 1)) /\ Expected > 0
    BY <1>1, <1>3 DEF Pending
  <2>2. LastPacket \in Packets /\ LastPacket.op = "ACK"
    <3>1. Expected - 1 \in Nat
      BY <1>0, <2>1
    <3> QED BY <2>1, <3>1, WireFacts, PacketTypes DEF Ack
  <2>3. /\ p \in [port : Nat, age : {0}, pkt : Packets] /\ p.pkt = LastPacket
        /\ p.age = 0 /\ p.port = ConnectedPort
    BY <1>1, <2>2, AddressedFacts
  <2> HIDE DEF p
  <2>4. Expected - 1 \in 0 .. Expected - 1 /\ Expected - 1 - (Expected - 1) <= p.age
    BY <1>0, <2>1, <2>3
  <2>5. Sent(p, Operation, ConnectedPort, Expected, token.size)
    BY <1>3, <2>1, <2>3, <2>4 DEF Sent
  <2> QED BY <1>1, <2>2, <2>3, <2>5 DEF p, NoPacket
<1>4. CASE ConnectedPort # 0 /\ Operation = "WRQ"
  <2> DEFINE d == Data(Wire(Expected), Content(Client, Expected), BlockLen(token.size, Expected))
  <2>1. LastPacket = d /\ Expected > 0
    BY <1>1, <1>4 DEF Pending
  <2>2. d.op = "DATA" /\ d.data.pos = Expected
    BY DEF Data, Content
  <2>3. d \in Packets
    BY <1>0, DataType DEF Client
  <2>4. /\ p \in [port : Nat, age : {0}, pkt : Packets] /\ p.pkt = LastPacket
        /\ p.age = 0 /\ p.port = ConnectedPort
    <3> HIDE DEF d
    <3> QED BY <1>1, <2>1, <2>2, <2>3, AddressedFacts
  <2> HIDE DEF p
  <2>5. Expected \in 1 .. Expected /\ Expected - Expected <= p.age
    BY <1>0, <2>1, <2>4
  <2>6. Sent(p, Operation, ConnectedPort, Expected, token.size)
    BY <1>4, <2>1, <2>4, <2>5 DEF Sent
  <2>7. Expected \in 1 .. BlockCount(token.size)
    BY <1>0, <1>1, <1>4, <2>1
  <2> HIDE DEF d
  <2> QED BY <1>1, <2>1, <2>2, <2>3, <2>4, <2>6, <2>7 DEF p, NoPacket
<1> QED BY <1>0, <1>2, <1>3, <1>4

\* A step of the client that leaves its place and the ranges alone.
LEMMA StayStep ==
  ASSUME Inv, Operation # "none",
         UNCHANGED <<State, token, Operation, Status, server, Blocks, LastBlock, ConnectedPort,
                     LastPacket, Buffer, BufferSize, given>>,
         dups' \in 0 .. MaxDups, CurRetry' \in 0 .. MaxRetry - 1,
         PacketToLive' \in 1 .. token.timeout,
         Way(toClient'), Among(toClient', toClient),
         Way(toServer'), UploadWithinFile', SentOK'
  PROVE  Inv'
<1>0. Active /\ Types
  BY DEF Inv
<1>1. Expected' = Expected /\ Expected \in Nat
  BY <1>0 DEF Expected, Active, Ranges
<1>2. Ranges'
  BY <1>0, <1>1 DEF Active, Ranges, AtEnd
<1>3. Pending'
  BY <1>0, <1>1 DEF Active, Pending
<1>4. Received'
  BY <1>0, <1>1 DEF Active, Received
<1>5. /\ given' \in Nat /\ ConnectedPort' \in 0 .. Len(server)
      /\ Operation = "WRQ" /\ token.source = "PacketNeeded" => given' = Expected'
  BY <1>0, <1>1 DEF Active, Running, Types
<1>6. ConnectedPort' # 0 =>
           /\ Answers(server[ConnectedPort'])
           /\ server[ConnectedPort'].last \in {Expected' - 1, Expected'}
  <2> SUFFICES ASSUME ConnectedPort # 0
               PROVE  Answers(server[ConnectedPort]) /\ server[ConnectedPort].last \in {Expected - 1, Expected}
    BY <1>1
  <2>1. ConnectedPort \in 1 .. Len(server)
    <3>1. Len(server) \in Nat
      BY Here
    <3> QED BY <1>5, <3>1
  <2>2. Answers(server[ConnectedPort])
    BY <1>0 DEF Active
  <2>3. InSession(server[ConnectedPort], Operation, token.size, Expected, ConnectedPort \in {0, ConnectedPort})
    BY <1>0, <2>1 DEF Active, SessionsOK
  <2> QED BY <2>2, <2>3 DEF InSession
<1> QED BY <1>1, <1>2, <1>3, <1>4, <1>5, <1>6, ClientStep

\* The last packet goes out again.
LEMMA RetransmitFacts ==
  ASSUME Inv, Operation # "none", Retransmit(ConnectedPort),
         UNCHANGED <<token, Operation, Blocks, ConnectedPort>>
  PROVE  Way(toServer') /\ UploadWithinFile' /\ SentOK'
<1> DEFINE p == Addressed(LastPacket, ConnectedPort)
<1>0. Way(toServer) /\ UploadWithinFile /\ SentOK
  BY DEF Inv, Types, Active
<1>1. /\ p \in [port : Nat, age : {0}, pkt : Packets]
      /\ Sent(p, Operation, ConnectedPort, Expected, token.size)
  BY PendingFacts
<1>2. p.pkt.op = "DATA" => p.pkt.data.pos \in 1 .. BlockCount(token.size)
  <2>1. p.pkt = LastPacket
    BY DEF Addressed
  <2> HIDE DEF p
  <2> QED BY <2>1, PendingFacts
<1>3. toServer' = Post(toServer, p)
  BY DEF Retransmit
<1> HIDE DEF p
<1>4. Way(toServer') /\ Newer(toServer', toServer, p)
  BY <1>0, <1>1, <1>3, PostWay
<1>5. UploadWithinFile'
  BY <1>0, <1>2, <1>4, UploadPosted
<1>6. Expected' = Expected /\ Expected \in Nat
  BY Here DEF Expected
<1>7. SentOK'
  BY <1>0, <1>1, <1>4, <1>6, SentPosted
<1> QED BY <1>4, <1>5, <1>7

\* What does not touch the packets of the client leaves them as they are.
LEMMA QuietFacts ==
  ASSUME Inv, Operation # "none",
         UNCHANGED <<token, Operation, Blocks, ConnectedPort, toServer>>
  PROVE  Way(toServer') /\ UploadWithinFile' /\ SentOK'
<1>1. Expected' = Expected
  BY DEF Expected
<1> QED BY <1>1 DEF Inv, Types, Active, UploadWithinFile, SentOK

LEMMA OnTimerTickStep ==
  ASSUME Inv, OnTimerTick PROVE Inv'
<1>0. Operation # "none"
  <2>1. PacketToLive > 0
    BY DEF OnTimerTick
  <2> QED BY <2>1 DEF Inv, Idle
<1>1. /\ PacketToLive \in 1 .. token.timeout /\ CurRetry \in 0 .. MaxRetry - 1
      /\ token.timeout \in Nat \ {0} /\ MaxRetry \in Nat \ {0} /\ ConnectedPort \in Nat
      /\ Way(toClient) /\ dups \in 0 .. MaxDups
  BY <1>0, Here, PendingFacts, Mtftp4Assumption DEF Inv, Active, Running, Types
<1>2. UNCHANGED <<State, token, Buffer, BufferSize, given, server, dups>>
  BY DEF OnTimerTick, request
<1>3. Among(toClient, toClient)
  BY DEF Among
<1>4. CASE /\ PacketToLive > 1 /\ PacketToLive' = PacketToLive - 1
           /\ UNCHANGED <<Operation, Blocks, LastBlock, ConnectedPort,
                          LastPacket, CurRetry, Status, toServer, toClient>>
  <2>1. PacketToLive' \in 1 .. token.timeout
    BY <1>1, <1>4
  <2>2. Way(toServer') /\ UploadWithinFile' /\ SentOK'
    BY <1>0, <1>2, <1>4, QuietFacts
  <2> QED BY <1>0, <1>1, <1>2, <1>3, <1>4, <2>1, <2>2, StayStep
<1>5. CASE FailWith("ABORTED", ConnectedPort)
  BY <1>0, <1>1, <1>2, <1>5, EndStep DEF FailWith, Results
<1>6. CASE /\ RetriesLeft
           /\ CurRetry' = CurRetry + 1
           /\ PacketToLive' = token.timeout
           /\ Retransmit(ConnectedPort)
           /\ UNCHANGED <<Operation, Blocks, LastBlock, ConnectedPort,
                          LastPacket, Status, toClient>>
  <2>1. PacketToLive' \in 1 .. token.timeout /\ CurRetry' \in 0 .. MaxRetry - 1
    BY <1>1, <1>6 DEF RetriesLeft
  <2>2. Way(toServer') /\ UploadWithinFile' /\ SentOK'
    BY <1>0, <1>2, <1>6, RetransmitFacts
  <2> QED BY <1>0, <1>1, <1>2, <1>3, <1>6, <2>1, <2>2, StayStep
<1>7. CASE CleanOperation("TIMEOUT") /\ UNCHANGED toServer
  BY <1>0, <1>1, <1>2, <1>7, EndStep DEF Results
<1> QED BY <1>4, <1>5, <1>6, <1>7 DEF OnTimerTick

LEMMA LoseStep ==
  ASSUME Inv, Lose PROVE Inv'
<1>0. Operation # "none" /\ Active /\ Types
  BY DEF Inv, Lose
<1>1. UNCHANGED <<instance, request, Status, Buffer, BufferSize, given, server, dups>>
  BY DEF Lose
<1>2. /\ PacketToLive' \in 1 .. token.timeout /\ CurRetry' \in 0 .. MaxRetry - 1
      /\ dups' \in 0 .. MaxDups
  BY <1>0, <1>1 DEF Active, Running, Types, instance
<1>3. Way(toServer) /\ Way(toClient) /\ UploadWithinFile /\ SentOK
  BY <1>0 DEF Types, Active, Inv
<1>4. DOMAIN toServer = 1 .. Len(toServer) /\ DOMAIN toClient = 1 .. Len(toClient)
  BY <1>3 DEF Way
<1>5. CASE (\E i \in DOMAIN toServer : toServer' = RemoveAt(toServer, i)) /\ UNCHANGED toClient
  <2>1. PICK i \in 1 .. Len(toServer) : toServer' = RemoveAt(toServer, i)
    BY <1>4, <1>5
  <2>2. Way(toServer') /\ Among(toServer', toServer)
    BY <1>3, <2>1, RemoveWay
  <2>3. UploadWithinFile'
    BY <1>1, <1>3, <2>2, UploadKept DEF request
  <2>4. SentOK'
    <3>1. Expected' = Expected
      BY <1>1 DEF Expected, instance
    <3> QED BY <1>1, <1>3, <2>2, <3>1, SentKept DEF request, instance
  <2>5. Way(toClient') /\ Among(toClient', toClient)
    BY <1>3, <1>5 DEF Among
  <2> QED BY <1>0, <1>1, <1>2, <2>2, <2>3, <2>4, <2>5, StayStep DEF instance, request
<1>6. CASE (\E i \in DOMAIN toClient : toClient' = RemoveAt(toClient, i)) /\ UNCHANGED toServer
  <2>1. PICK i \in 1 .. Len(toClient) : toClient' = RemoveAt(toClient, i)
    BY <1>4, <1>6
  <2>2. Way(toClient') /\ Among(toClient', toClient)
    BY <1>3, <2>1, RemoveWay
  <2>3. Way(toServer') /\ UploadWithinFile' /\ SentOK'
    BY <1>0, <1>1, <1>6, QuietFacts DEF instance, request
  <2> QED BY <1>0, <1>1, <1>2, <2>2, <2>3, StayStep DEF instance, request
<1> QED BY <1>5, <1>6 DEF Lose

-----------------------------------------------------------------------------
(***************************************************************************)
(* The server                                                              *)
(***************************************************************************)
\* A step of the server in which the session at port sends a packet.
LEMMA ServerStep ==
  ASSUME Inv, Operation # "none",
         UNCHANGED <<instance, request, Status, Buffer, BufferSize, given>>,
         dups' \in 0 .. MaxDups, Way(toServer'), Among(toServer', toServer),
         server' \in Seq(Sessions), Len(server') <= Ports,
         1 .. Len(server) \subseteq 1 .. Len(server'),
         \A q \in 1 .. Len(server) :
           /\ server'[q].reply = server[q].reply
           /\ server'[q].last \in {server[q].last, server[q].last + 1},
         NEW port \in 1 .. Len(server'),
         toClient' = Post(toClient, ServerPacket(port, server'[port])),
         \A q \in 1 .. Len(server') :
           InSession(server'[q], Operation, token.size, Expected, ConnectedPort \in {0, q})
  PROVE  Inv'
<1>0. Active /\ Types /\ Way(toClient) /\ Way(toServer) /\ SentOK /\ AnswersOK /\ UploadWithinFile
  BY DEF Inv, Types, Active
<1>1. /\ Operation \in {"RRQ", "WRQ"} /\ token.size \in Nat /\ server \in Seq(Sessions)
      /\ Len(server) \in Nat /\ Len(server') \in Nat
  BY Here
<1> USE DEF instance, request
<1> DEFINE s == server'[port]
           p == ServerPacket(port, s)
<1>2. s \in Sessions /\ port \in Nat
  BY <1>1
<1>3. InSession(s, Operation, token.size, Expected, ConnectedPort \in {0, port})
  OBVIOUS
<1>4. /\ p \in [port : Nat, age : {0}, pkt : Packets] /\ p.port = port
      /\ Answer(p, s, Operation, token.size)
  BY <1>1, <1>2, <1>3, ServerAnswers
<1>5. toClient' = Post(toClient, p)
  OBVIOUS
<1> HIDE DEF p
<1>6. Way(toClient') /\ Newer(toClient', toClient, p)
  BY <1>0, <1>4, <1>5, PostWay
<1>7. AnswersOK'
  BY <1>0, <1>1, <1>4, <1>6, AnswersPosted
<1>8. Expected' = Expected
  BY DEF Expected
<1>9. Types'
  BY <1>0, <1>6 DEF Types
<1>10. UploadWithinFile'
  BY <1>0, UploadKept
<1>11. ResultAccurate'
  <2>1. Status' = "NOT_READY"
    BY <1>0 DEF Active, Running
  <2> QED BY <2>1 DEF ResultAccurate, DownloadIntact, UploadIntact, SizeAccurate
<1>12. Ranges' /\ Pending' /\ Received'
  BY <1>0, <1>8 DEF Active, Ranges, Pending, Received, AtEnd
<1>13. ConnectedPort \in 0 .. Len(server) /\ ConnectedPort \in 0 .. Len(server')
  <2>1. ConnectedPort \in 0 .. Len(server)
    BY <1>0 DEF Active, Running
  <2>2. ConnectedPort \in 1 .. Len(server) => ConnectedPort \in 1 .. Len(server')
    OBVIOUS
  <2> QED BY <1>1, <2>1, <2>2
<1>14. Running'
  BY <1>0, <1>8, <1>13 DEF Active, Running
<1>15. ConnectedPort' # 0 => Answers(server'[ConnectedPort'])
  <2> SUFFICES ASSUME ConnectedPort # 0 PROVE Answers(server'[ConnectedPort])
    OBVIOUS
  <2>1. ConnectedPort \in 1 .. Len(server)
    BY <1>1, <1>13
  <2>2. Answers(server[ConnectedPort])
    BY <1>0 DEF Active
  <2>3. server'[ConnectedPort].reply = server[ConnectedPort].reply
    BY <2>1
  <2> QED BY <2>2, <2>3 DEF Answers
<1>16. SessionsOK'
  BY <1>8 DEF SessionsOK
<1>17. SentOK'
  BY <1>0, <1>8, SentKept
<1>18. Active'
  BY <1>7, <1>12, <1>14, <1>15, <1>16, <1>17 DEF Active
<1> QED BY <1>9, <1>10, <1>11, <1>18 DEF Inv

\* One session changes, and is at the same block or at the next one.
LEMMA SessionStep ==
  ASSUME Inv, Operation # "none",
         UNCHANGED <<instance, request, Status, Buffer, BufferSize, given>>,
         dups' \in 0 .. MaxDups, Way(toServer'), Among(toServer', toServer),
         NEW port \in 1 .. Len(server), NEW s \in Sessions,
         server' = [server EXCEPT ![port] = s],
         s.reply = server[port].reply,
         s.last \in {server[port].last, server[port].last + 1},
         toClient' = Post(toClient, ServerPacket(port, s)),
         InSession(s, Operation, token.size, Expected, ConnectedPort \in {0, port})
  PROVE  Inv'
<1>0. server \in Seq(Sessions) /\ Len(server) \in Nat /\ Len(server) <= Ports
  BY DEF Inv, Types
<1>1. /\ server' \in Seq(Sessions) /\ Len(server') = Len(server)
      /\ \A q \in 1 .. Len(server) : server'[q] = IF q = port THEN s ELSE server[q]
  BY <1>0, ExceptSeq
<1>2. server'[port] = s
  BY <1>1
<1>3. \A q \in 1 .. Len(server) :
        /\ server'[q].reply = server[q].reply
        /\ server'[q].last \in {server[q].last, server[q].last + 1}
  BY <1>1
<1>4. \A q \in 1 .. Len(server') :
        InSession(server'[q], Operation, token.size, Expected, ConnectedPort \in {0, q})
  <2> TAKE q \in 1 .. Len(server')
  <2>1. InSession(server[q], Operation, token.size, Expected, ConnectedPort \in {0, q})
    BY <1>1 DEF Inv, Active, SessionsOK
  <2>2. CASE q = port
    BY <1>1, <2>2
  <2>3. CASE q # port
    BY <1>1, <2>1, <2>3
  <2> QED BY <2>2, <2>3
<1>5. toClient' = Post(toClient, ServerPacket(port, server'[port]))
  BY <1>2
<1> QED BY <1>0, <1>1, <1>3, <1>4, <1>5, ServerStep

LEMMA ServerTimeoutStep ==
  ASSUME Inv, NEW port \in DOMAIN server, ServerTimeout(port) PROVE Inv'
<1> DEFINE s == server[port]
           t == Session(s.op, s.reply, s.left - 1, s.got, s.last)
<1>0. Operation # "none" /\ s.left > 0
  BY DEF ServerTimeout
<1>1. server \in Seq(Sessions) /\ port \in 1 .. Len(server)
  BY DEF Inv, Types
<1>2. s \in Sessions
  BY <1>1
<1>3. InSession(s, Operation, token.size, Expected, ConnectedPort \in {0, port})
  BY <1>0, <1>1 DEF Inv, Active, SessionsOK
<1>4. /\ server' = [server EXCEPT ![port] = t]
      /\ toClient' = Post(toClient, ServerPacket(port, s))
      /\ UNCHANGED <<instance, request, Status, Buffer, BufferSize, given, toServer, dups>>
  BY DEF ServerTimeout, ServerSends
<1> HIDE DEF s
<1>5. t.op = s.op /\ t.reply = s.reply /\ t.got = s.got /\ t.last = s.last /\ t \in Sessions
  <2>1. t.op = s.op /\ t.reply = s.reply /\ t.got = s.got /\ t.last = s.last
    BY DEF Session
  <2>2. s.left - 1 \in Nat
    BY <1>0, <1>2 DEF Sessions
  <2>3. t \in Sessions
    BY <1>2, <2>2 DEF Session, Sessions
  <2> QED BY <2>1, <2>3
<1>6. ServerPacket(port, t) = ServerPacket(port, s)
  <2> HIDE DEF t
  <2> QED BY <1>5 DEF ServerPacket
<1> HIDE DEF t
<1>7. InSession(t, Operation, token.size, Expected, ConnectedPort \in {0, port})
  BY <1>3, <1>5 DEF InSession, Answers
<1>8. Way(toServer') /\ Among(toServer', toServer) /\ dups' \in 0 .. MaxDups
  BY <1>4 DEF Among, Inv, Types
<1>9. t.reply = server[port].reply /\ t.last \in {server[port].last, server[port].last + 1}
  BY <1>5 DEF s
<1> QED BY <1>0, <1>1, <1>4, <1>5, <1>6, <1>7, <1>8, <1>9, SessionStep

\* Numbers that are less than a round apart are equal if their block numbers
\* are, so that a packet is about the block it seems to be about.
LEMMA Matching ==
  ASSUME NEW x \in Nat, NEW k \in Nat, k <= x, NEW age \in Nat, age < Window,
         x - k <= age + 1, Wire(k) = Wire(x)
  PROVE  k = x
<1>1. Window \in Nat /\ Bound \in Nat /\ Window <= Bound
  BY Mtftp4Assumption
<1>2. x - k <= Bound
  BY <1>1
<1> QED BY <1>2, WireFacts

LEMMA ServerInputStep ==
  ASSUME Inv, NEW i \in DOMAIN toServer, NEW again \in BOOLEAN, ServerInput(i, again)
  PROVE  Inv'
<1> DEFINE p == toServer[i]
<1>0. Operation # "none" /\ Active /\ Types
  BY DEF Inv, ServerInput
<1>1. Way(toServer) /\ i \in 1 .. Len(toServer)
  BY <1>0 DEF Types, Way
<1>2. /\ UNCHANGED <<instance, request, Status, Buffer, BufferSize, given>>
      /\ toServer' = Rest(toServer, i, again)
  BY DEF ServerInput
<1>3. Way(toServer') /\ Among(toServer', toServer)
  BY <1>1, <1>2, RestWay
<1>4. dups' \in 0 .. MaxDups
  <2>1. (again => dups < MaxDups) /\ dups' = (IF again THEN dups + 1 ELSE dups)
    BY DEF ServerInput, Delivered
  <2>2. dups \in 0 .. MaxDups /\ MaxDups \in Nat
    BY <1>0, Mtftp4Assumption DEF Types
  <2> QED BY <2>1, <2>2
<1>5. p.age \in Nat /\ p.age < Window /\ p.port \in Nat /\ p.pkt \in Packets
  BY <1>1, AgeType
<1>6. Sent(p, Operation, ConnectedPort, Expected, token.size)
  BY <1>0, <1>1 DEF Active, SentOK
<1>7. /\ Operation \in {"RRQ", "WRQ"} /\ token.size \in Nat /\ BlockCount(token.size) \in Nat \ {0}
      /\ Expected \in Nat /\ server \in Seq(Sessions) /\ Len(server) \in Nat
      /\ \A port \in 1 .. Len(server) : server[port] \in Sessions /\ server[port].last \in Nat
  BY <1>0, Here
<1>8. \A port \in 1 .. Len(server) :
        InSession(server[port], Operation, token.size, Expected, ConnectedPort \in {0, port})
  BY <1>0 DEF Active, SessionsOK
<1>9. ConnectedPort \in 0 .. Len(server) /\ (ConnectedPort # 0 => Answers(server[ConnectedPort]))
  BY <1>0 DEF Active, Running
<1>10. ASSUME p.pkt.op \in {"RRQ", "WRQ"}, NEW reply \in Replies, ServerStart(p.pkt.op, reply)
       PROVE  Inv'
  <2> DEFINE first == IF Operation = "RRQ" /\ reply = "plain" THEN 1 ELSE 0
             s == Session(Operation, reply, ServerRetries, <<>>, first)
             n == Len(server) + 1
  <2>1. p.pkt = Request(Operation)
    BY <1>6, <1>10, PacketFields DEF Sent
  <2>2. p.pkt.op = Operation
    BY <2>1 DEF Request
  <2>3. /\ Len(server) < Ports
        /\ server' = Append(server, s)
        /\ toClient' = Post(toClient, ServerPacket(n, s))
    BY <1>10, <2>2 DEF ServerStart, ServerSends
  <2>4. s.op = Operation /\ s.reply = reply /\ s.got = <<>> /\ s.last = first
    BY DEF Session
  <2>5. reply \in {"plain", "oack", "malformed", "error"} /\ ServerRetries \in Nat /\ Ports \in Nat
    BY Mtftp4Assumption
  <2>6. s \in Sessions
    <3>1. <<>> \in Seq([src : Nat, pos : Nat]) /\ first \in Nat
      OBVIOUS
    <3> HIDE DEF first
    <3> QED BY <1>7, <2>5, <3>1 DEF Session, Sessions
  <2> HIDE DEF s
  <2>7. /\ server' \in Seq(Sessions) /\ Len(server') = n
        /\ \A q \in 1 .. Len(server) : server'[q] = server[q]
        /\ server'[n] = s
    BY <1>7, <2>3, <2>6, AppendProperties
  <2>8. InSession(s, Operation, token.size, Expected, ConnectedPort \in {0, n})
    <3>1. Operation = "RRQ" => s.last <= BlockCount(token.size) /\ (s.reply = "plain" => s.last > 0)
      BY <1>7, <2>4
    <3>2. Operation = "WRQ" => s.got = [j \in 1 .. s.last |-> Content(Client, j)]
      BY <2>4
    <3>3. ConnectedPort \in {0, n} => s.last \in {Expected - 1, Expected}
      <4> SUFFICES ASSUME ConnectedPort \in {0, n} PROVE s.last \in {Expected - 1, Expected}
        OBVIOUS
      <4>1. ConnectedPort = 0
        BY <1>7, <1>9
      <4>2. Expected = FirstBlock(Operation)
        BY <1>0, <4>1 DEF Active, Pending
      <4> QED BY <1>7, <2>4, <4>2 DEF FirstBlock
    <3> QED BY <2>4, <3>1, <3>2, <3>3 DEF InSession
  <2>9. /\ \A q \in 1 .. Len(server') : q \in 1 .. Len(server) \/ q = n
        /\ 1 .. Len(server) \subseteq 1 .. Len(server') /\ n \in 1 .. Len(server')
    BY <1>7, <2>7
  <2>10. \A q \in 1 .. Len(server') :
           InSession(server'[q], Operation, token.size, Expected, ConnectedPort \in {0, q})
    <3> TAKE q \in 1 .. Len(server')
    <3>1. CASE q \in 1 .. Len(server)
      BY <1>8, <2>7, <3>1
    <3>2. CASE q = n
      BY <2>7, <2>8, <3>2
    <3> QED BY <2>9, <3>1, <3>2
  <2>11. \A q \in 1 .. Len(server) :
           /\ server'[q].reply = server[q].reply
           /\ server'[q].last \in {server[q].last, server[q].last + 1}
    BY <2>7
  <2>12. toClient' = Post(toClient, ServerPacket(n, server'[n])) /\ Len(server') <= Ports
    BY <1>7, <2>3, <2>5, <2>7
  <2> HIDE DEF n
  <2> QED BY <1>0, <1>2, <1>3, <1>4, <2>7, <2>9, <2>10, <2>11, <2>12, ServerStep
<1>11. ASSUME p.pkt.op = "ACK", ServerAck(p.port, p.pkt.block)
       PROVE  Inv'
  <2>1. /\ ConnectedPort # 0 /\ p.port = ConnectedPort /\ Operation = "RRQ"
        /\ \E k \in 0 .. Expected - 1 : Expected - 1 - k <= p.age /\ p.pkt = Ack(Wire(k))
    BY <1>6, <1>7, <1>11, PacketFields DEF Sent
  <2>2. PICK k \in 0 .. Expected - 1 : Expected - 1 - k <= p.age /\ p.pkt = Ack(Wire(k))
    BY <2>1
  <2> DEFINE c == ConnectedPort
             s == server[c]
             t == Session(s.op, s.reply, ServerRetries, s.got, s.last + 1)
  <2>3. c \in 1 .. Len(server)
    BY <1>7, <1>9, <2>1
  <2>4. /\ s \in Sessions /\ s.last \in Nat /\ Answers(s)
        /\ InSession(s, Operation, token.size, Expected, ConnectedPort \in {0, c})
    BY <1>7, <1>8, <1>9, <2>1, <2>3
  <2>5. /\ Wire(s.last) = Wire(k) /\ s.last < BlockCount(token.size)
        /\ server' = [server EXCEPT ![c] = t]
        /\ toClient' = Post(toClient, ServerPacket(c, t))
    <3>1. p.pkt.block = Wire(k)
      BY <2>2, PacketFields
    <3>2. ServerAck(c, Wire(k))
      BY <1>11, <2>1, <3>1
    <3> QED BY <3>2 DEF ServerAck, ServerSends
  <2> HIDE DEF s
  <2>6. s.last \in {Expected - 1, Expected}
    BY <2>4 DEF InSession
  <2>7. s.last = Expected - 1
    <3>1. k \in Nat /\ k <= s.last /\ s.last - k <= p.age + 1
      BY <1>5, <1>7, <2>2, <2>6
    <3>2. k = s.last
      BY <1>5, <2>4, <2>5, <3>1, Matching
    <3> QED BY <1>7, <2>2, <2>6, <3>2
  <2>8. t.op = s.op /\ t.reply = s.reply /\ t.got = s.got /\ t.last = s.last + 1
    BY DEF Session
  <2>9. t \in Sessions
    <3>1. ServerRetries \in Nat
      BY Mtftp4Assumption
    <3> QED BY <2>4, <3>1 DEF Session, Sessions
  <2> HIDE DEF t
  <2>10. InSession(t, Operation, token.size, Expected, ConnectedPort \in {0, c})
    <3>1. t.last <= BlockCount(token.size) /\ t.last > 0 /\ t.last = Expected
      BY <1>7, <2>4, <2>5, <2>7, <2>8
    <3> QED BY <2>1, <2>4, <2>8, <3>1 DEF InSession
  <2>11. t.reply = server[c].reply /\ t.last \in {server[c].last, server[c].last + 1}
    BY <2>8 DEF s
  <2> HIDE DEF c
  <2> QED BY <1>0, <1>2, <1>3, <1>4, <2>3, <2>5, <2>9, <2>10, <2>11, SessionStep
<1>12. ASSUME p.pkt.op = "DATA", ServerData(p.port, p.pkt)
       PROVE  Inv'
  <2>1. /\ ConnectedPort # 0 /\ p.port = ConnectedPort /\ Operation = "WRQ"
        /\ \E k \in 1 .. Expected : Expected - k <= p.age
             /\ p.pkt = Data(Wire(k), Content(Client, k), BlockLen(token.size, k))
    BY <1>6, <1>7, <1>12, PacketFields DEF Sent
  <2>2. PICK k \in 1 .. Expected : Expected - k <= p.age
             /\ p.pkt = Data(Wire(k), Content(Client, k), BlockLen(token.size, k))
    BY <2>1
  <2>3. p.pkt.block = Wire(k) /\ p.pkt.data = Content(Client, k)
    BY <2>2 DEF Data
  <2> DEFINE c == ConnectedPort
             s == server[c]
             t == Session(s.op, s.reply, ServerRetries, Append(s.got, p.pkt.data), s.last + 1)
  <2>4. c \in 1 .. Len(server)
    BY <1>7, <1>9, <2>1
  <2>5. /\ s \in Sessions /\ s.last \in Nat /\ Answers(s)
        /\ InSession(s, Operation, token.size, Expected, ConnectedPort \in {0, c})
    BY <1>7, <1>8, <1>9, <2>1, <2>4
  <2>6. s.last \in {Expected - 1, Expected} /\ s.got = [j \in 1 .. s.last |-> Content(Client, j)]
    BY <2>1, <2>5 DEF InSession
  <2>7. ASSUME p.pkt.block = Wire(s.last + 1), server' = [server EXCEPT ![c] = t],
               toClient' = Post(toClient, ServerPacket(c, t))
        PROVE  Inv'
    <3> HIDE DEF s
    <3>1. k = s.last + 1 /\ s.last + 1 = Expected
      <4>1. s.last + 1 \in Nat /\ k \in Nat /\ k <= s.last + 1 /\ (s.last + 1) - k <= p.age + 1
        <5>1. Expected - k <= p.age /\ k \in Nat
          BY <1>7, <2>2
        <5> DEFINE a == p.age
                   l == s.last
        <5>2. a \in Nat /\ l \in Nat /\ l \in {Expected - 1, Expected} /\ Expected - k <= a
          BY <1>5, <2>5, <2>6, <5>1
        <5> HIDE DEF a, l
        <5>3. l + 1 \in Nat /\ k <= l + 1 /\ (l + 1) - k <= a + 1
          BY <1>7, <2>2, <5>2
        <5> QED BY <5>1, <5>3 DEF a, l
      <4>2. Wire(k) = Wire(s.last + 1)
        BY <2>3, <2>7
      <4>3. k = s.last + 1
        BY <1>5, <4>1, <4>2, Matching
      <4> QED BY <1>7, <2>2, <2>5, <2>6, <4>3
    <3>2. t.op = s.op /\ t.reply = s.reply /\ t.got = Append(s.got, Content(Client, k)) /\ t.last = s.last + 1
      BY <2>3 DEF Session
    <3>3. Content(Client, k) \in [src : Nat, pos : Nat] /\ \A j \in Nat : Content(Client, j) \in [src : Nat, pos : Nat]
      BY <1>7, <2>2 DEF Content, Client
    <3>4. t.got = [j \in 1 .. t.last |-> Content(Client, j)] /\ t.got \in Seq([src : Nat, pos : Nat])
      <4> DEFINE C == [src : Nat, pos : Nat]
                 f == [j \in 1 .. (s.last + 1) |-> Content(Client, j)]
      <4>a. \A j \in Nat : Content(Client, j) \in C
        BY <3>3
      <4>b. s.got \in Seq(C)
        BY <2>5 DEF Sessions
      <4> HIDE DEF C
      <4>1. s.got \in Seq(C) /\ Len(s.got) = s.last /\ \A j \in 1 .. s.last : s.got[j] = Content(Client, j)
        <5>1. DOMAIN s.got = 1 .. s.last /\ \A j \in 1 .. s.last : s.got[j] = Content(Client, j)
          BY <2>6
        <5>2. DOMAIN s.got = 1 .. Len(s.got) /\ Len(s.got) \in Nat
          BY <4>b
        <5>3. Len(s.got) = s.last
          BY <2>5, <5>1, <5>2
        <5> QED BY <4>b, <5>1, <5>3
      <4>2. /\ t.got \in Seq(C) /\ Len(t.got) = s.last + 1
            /\ \A j \in 1 .. s.last : t.got[j] = Content(Client, j)
            /\ t.got[s.last + 1] = Content(Client, s.last + 1)
        <5> DEFINE g == s.got
                   d == Content(Client, k)
        <5>1. d \in C
          BY <1>7, <2>2, <4>a
        <5>2. g \in Seq(C) /\ Len(g) = s.last /\ t.got = Append(g, d) /\ d = Content(Client, s.last + 1)
          BY <3>1, <3>2, <4>1
        <5>3. \A j \in 1 .. s.last : g[j] = Content(Client, j)
          BY <4>1
        <5> HIDE DEF g, d
        <5>4. /\ Append(g, d) \in Seq(C) /\ Len(Append(g, d)) = Len(g) + 1
              /\ \A j \in 1 .. Len(g) : Append(g, d)[j] = g[j]
              /\ Append(g, d)[Len(g) + 1] = d
          BY <5>1, <5>2, AppendProperties
        <5> QED BY <5>2, <5>3, <5>4
      <4>3. f \in Seq(C) /\ Len(f) = s.last + 1
        <5> DEFINE m == s.last + 1
        <5>1. m \in Nat /\ f = [j \in 1 .. m |-> Content(Client, j)]
          BY <2>5
        <5> HIDE DEF m, f
        <5>2. f \in Seq(C) /\ Len(f) = m
          BY <4>a, <5>1
        <5> QED BY <5>2 DEF m
      <4>4. \A j \in 1 .. Len(t.got) : t.got[j] = f[j]
        <5> TAKE j \in 1 .. Len(t.got)
        <5>1. j \in 1 .. s.last \/ j = s.last + 1
          BY <2>5, <4>2
        <5>2. j \in 1 .. (s.last + 1) /\ f[j] = Content(Client, j)
          BY <4>2
        <5> HIDE DEF f
        <5> QED BY <4>2, <5>1, <5>2
      <4> HIDE DEF f
      <4>5. t.got = f
        BY <4>2, <4>3, <4>4, SeqEqual
      <4> QED BY <3>2, <4>2, <4>5 DEF f, C
    <3>5. t \in Sessions
      <4>1. ServerRetries \in Nat
        BY Mtftp4Assumption
      <4>2. Append(s.got, p.pkt.data) \in Seq([src : Nat, pos : Nat])
        BY <2>3, <3>2, <3>4
      <4> QED BY <2>5, <4>1, <4>2 DEF Session, Sessions
    <3> HIDE DEF t
    <3>6. InSession(t, Operation, token.size, Expected, ConnectedPort \in {0, c})
      BY <2>1, <2>5, <3>1, <3>2, <3>4 DEF InSession
    <3>7. t.reply = server[c].reply /\ t.last \in {server[c].last, server[c].last + 1}
      BY <3>2 DEF s
    <3> HIDE DEF c
    <3> QED BY <1>0, <1>2, <1>3, <1>4, <2>4, <2>7, <3>5, <3>6, <3>7, SessionStep
  <2>8. ASSUME toClient' = Post(toClient, ServerPacket(c, s)), UNCHANGED server
        PROVE  Inv'
    <3>1. Len(server') <= Ports /\ server' \in Seq(Sessions)
      BY <1>0, <2>8 DEF Types
    <3>2. \A q \in 1 .. Len(server') :
            InSession(server'[q], Operation, token.size, Expected, ConnectedPort \in {0, q})
      BY <1>8, <2>8
    <3>3. \A q \in 1 .. Len(server) :
            /\ server'[q].reply = server[q].reply
            /\ server'[q].last \in {server[q].last, server[q].last + 1}
      BY <2>8
    <3>4. toClient' = Post(toClient, ServerPacket(c, server'[c])) /\ c \in 1 .. Len(server')
      BY <2>4, <2>8
    <3>5. 1 .. Len(server) \subseteq 1 .. Len(server')
      BY <2>8
    <3> HIDE DEF c, s
    <3> QED BY <1>0, <1>2, <1>3, <1>4, <3>1, <3>2, <3>3, <3>4, <3>5, ServerStep
  <2> QED BY <1>12, <2>1, <2>7, <2>8 DEF ServerData, ServerSends
<1> QED BY <1>10, <1>11, <1>12 DEF ServerInput

-----------------------------------------------------------------------------
(***************************************************************************)
(* Packets that reach the client                                           *)
(***************************************************************************)
\* What is known of a packet that is delivered.
LEMMA Delivery ==
  ASSUME Inv, NEW i \in DOMAIN toClient, NEW again \in BOOLEAN, Delivered(again)
  PROVE  /\ Operation # "none" /\ dups' \in 0 .. MaxDups
         /\ Way(Rest(toClient, i, again)) /\ Among(Rest(toClient, i, again), toClient)
         /\ toClient[i].port \in 1 .. Len(server)
         /\ toClient[i].age \in Nat /\ toClient[i].age < Window
         /\ Answer(toClient[i], server[toClient[i].port], Operation, token.size)
<1>1. Way(toClient)
  BY DEF Inv, Types
<1>2. i \in 1 .. Len(toClient)
  BY <1>1 DEF Way
<1>3. Operation # "none"
  <2>1. toClient # <<>>
    BY <1>1, <1>2 DEF Way
  <2> QED BY <2>1 DEF Inv, Idle
<1>4. dups' \in 0 .. MaxDups
  <2>1. dups \in 0 .. MaxDups /\ MaxDups \in Nat
    BY Mtftp4Assumption DEF Inv, Types
  <2> QED BY <2>1 DEF Delivered
<1>5. Way(Rest(toClient, i, again)) /\ Among(Rest(toClient, i, again), toClient)
  BY <1>1, <1>2, RestWay
<1>6. /\ toClient[i].port \in 1 .. Len(server)
      /\ Answer(toClient[i], server[toClient[i].port], Operation, token.size)
  BY <1>2, <1>3 DEF Inv, Active, AnswersOK
<1> QED BY <1>1, <1>2, <1>3, <1>4, <1>5, <1>6, AgeType

\* An error that ends the operation.
LEMMA FailStep ==
  ASSUME Inv, Operation # "none", NEW result \in Results \ {"SUCCESS", "BUFFER_TOO_SMALL"},
         NEW port \in Nat, FailWith(result, port),
         UNCHANGED <<request, server, BufferSize, given>>, dups' \in 0 .. MaxDups
  PROVE  Inv'
BY EndStep DEF FailWith, request

\* A packet that the client does not answer, from the port it is connected to.
LEMMA IgnoredStep ==
  ASSUME Inv, Operation # "none", NEW p, NEW rest, Ignored(p, rest), ConnectedPort = p.port,
         UNCHANGED <<request, server>>, dups' \in 0 .. MaxDups, Way(rest), Among(rest, toClient)
  PROVE  Inv'
<1> USE DEF Ignored, request
<1>1. Way(toServer') /\ UploadWithinFile' /\ SentOK'
  BY QuietFacts
<1>2. CurRetry' \in 0 .. MaxRetry - 1 /\ PacketToLive' \in 1 .. token.timeout
  BY DEF Inv, Types, Active, Running
<1> QED BY <1>1, <1>2, StayStep

\* A packet from a port the client does not listen to.
LEMMA RefusedStep ==
  ASSUME Inv, Operation # "none", NEW rest, toClient' = rest,
         UNCHANGED <<instance, toServer, Status, Buffer, BufferSize, given>>,
         UNCHANGED <<request, server>>, dups' \in 0 .. MaxDups, Way(rest), Among(rest, toClient)
  PROVE  Inv'
<1> USE DEF instance, request
<1>1. Way(toServer') /\ UploadWithinFile' /\ SentOK'
  BY QuietFacts
<1>2. CurRetry' \in 0 .. MaxRetry - 1 /\ PacketToLive' \in 1 .. token.timeout
  BY DEF Inv, Types, Active, Running
<1> QED BY <1>1, <1>2, StayStep

\* What the client knows of a session it listens to.
LEMMA Listened ==
  ASSUME Inv, Operation # "none", NEW port \in 1 .. Len(server), ConnectedPort \in {0, port}
  PROVE  /\ InSession(server[port], Operation, token.size, Expected, TRUE)
         /\ Answers(server[port]) => server[port].last \in {Expected - 1, Expected}
         /\ port \in Nat /\ port # 0
         /\ ConnectedPort = 0 => Expected = FirstBlock(Operation)
<1>1. InSession(server[port], Operation, token.size, Expected, ConnectedPort \in {0, port})
  BY DEF Inv, Active, SessionsOK
<1>2. ConnectedPort = 0 => Expected = FirstBlock(Operation)
  BY DEF Inv, Active, Pending
<1>3. port \in Nat /\ port # 0
  BY Here
<1> QED BY <1>1, <1>2, <1>3 DEF InSession

\* A session of a block k that is the one the client waits for
LEMMA Awaited ==
  ASSUME NEW x \in Nat, NEW last \in Nat, last \in {x - 1, x}, NEW k \in 0 .. last,
         NEW age \in Nat, age < Window, last - k <= age, Wire(k) = Wire(x)
  PROVE  k = x /\ last = x
<1>1. k \in Nat /\ k <= x /\ x - k <= age + 1
  OBVIOUS
<1>2. k = x
  BY <1>1, Matching
<1> QED BY <1>2

\* The client sends packet pkt to port for the block it waits for next.
LEMMA SendStep ==
  ASSUME Inv, Operation # "none", NEW rest, NEW pkt \in Packets, NEW port \in 1 .. Len(server),
         ConnectedPort \in {0, port}, SendPacket(pkt, port),
         ConnectedPort' = port, toClient' = rest,
         UNCHANGED <<State, token, Operation, Status, server, BufferSize>>,
         dups' \in 0 .. MaxDups, Way(rest), Among(rest, toClient),
         Expected' \in {Expected, Expected + 1}, Expected' > 0,
         Answers(server[port]), server[port].last \in {Expected' - 1, Expected'},
         Ranges', Received',
         \/ Operation = "RRQ" /\ pkt = Ack(Wire(Expected' - 1))
         \/ /\ Operation = "WRQ"
            /\ pkt = Data(Wire(Expected'), Content(Client, Expected'), BlockLen(token.size, Expected')),
         given' \in Nat,
         Operation = "WRQ" /\ token.source = "PacketNeeded" => given' = Expected'
  PROVE  Inv'
<1> DEFINE p == Addressed(pkt, port)
<1>0. /\ Operation \in {"RRQ", "WRQ"} /\ token.timeout \in Nat \ {0} /\ Expected \in Nat
      /\ Expected' \in Nat /\ port \in Nat /\ port # 0
  BY Here
<1>1. /\ LastPacket' = pkt /\ CurRetry' = 0 /\ PacketToLive' = token.timeout
      /\ toServer' = Post(toServer, p)
  BY DEF SendPacket
<1>2. pkt.op \in {"ACK", "DATA"}
  BY PacketFields
<1>3. p \in [port : Nat, age : {0}, pkt : Packets] /\ p.pkt = pkt /\ p.age = 0 /\ p.port = port
  BY <1>0, <1>2, AddressedFacts
<1>4. Way(toServer) /\ UploadWithinFile /\ SentOK
  BY DEF Inv, Types, Active
<1> HIDE DEF p
<1>5. Way(toServer') /\ Newer(toServer', toServer, p)
  BY <1>1, <1>3, <1>4, PostWay
<1>6. pkt.op = "DATA" => pkt.data.pos \in 1 .. BlockCount(token.size)
  <2> SUFFICES ASSUME pkt.op = "DATA" PROVE pkt.data.pos \in 1 .. BlockCount(token.size)
    OBVIOUS
  <2>1. /\ Operation = "WRQ"
        /\ pkt = Data(Wire(Expected'), Content(Client, Expected'), BlockLen(token.size, Expected'))
    BY PacketFields
  <2>2. pkt.data = Content(Client, Expected')
    BY <2>1, PacketFields
  <2>3. pkt.data.pos = Expected'
    BY <2>2 DEF Content
  <2>4. Expected' <= BlockCount(token.size)
    BY <2>1 DEF Ranges
  <2>5. BlockCount(token.size) \in Nat
    BY Here
  <2> QED BY <1>0, <2>3, <2>4, <2>5
<1>7. UploadWithinFile'
  BY <1>3, <1>4, <1>5, <1>6, UploadPosted
<1>8. Sent(p, Operation, ConnectedPort', Expected', token.size)
  <2>1. CASE Operation = "RRQ" /\ pkt = Ack(Wire(Expected' - 1))
    <3>1. Expected' - 1 \in 0 .. Expected' - 1 /\ Expected' - 1 - (Expected' - 1) <= p.age
      BY <1>0, <1>3
    <3> QED BY <1>0, <1>3, <2>1, <3>1 DEF Sent
  <2>2. CASE /\ Operation = "WRQ"
             /\ pkt = Data(Wire(Expected'), Content(Client, Expected'), BlockLen(token.size, Expected'))
    <3>1. Expected' \in 1 .. Expected' /\ Expected' - Expected' <= p.age
      BY <1>0, <1>3
    <3> QED BY <1>0, <1>3, <2>2, <3>1 DEF Sent
  <2> QED BY <2>1, <2>2
<1>9. SentOK'
  BY <1>0, <1>4, <1>5, <1>8, SentPosted
<1>10. Pending'
  BY <1>0, <1>1 DEF Pending
<1>11. CurRetry' \in 0 .. MaxRetry - 1 /\ PacketToLive' \in 1 .. token.timeout
  <2>1. MaxRetry \in Nat \ {0}
    BY Mtftp4Assumption
  <2> QED BY <1>0, <1>1, <2>1
<1>12. ConnectedPort' \in 0 .. Len(server)
  <2>1. Len(server) \in Nat
    BY Here
  <2> QED BY <1>0, <2>1
<1> QED BY <1>0, <1>5, <1>7, <1>9, <1>10, <1>11, <1>12, ClientStep

-----------------------------------------------------------------------------
(***************************************************************************)
(* Downloads                                                               *)
(***************************************************************************)
\* The block that an ACK of Mtftp4RrqHandleData names, computed back from the
\* number of the next block
LEMMA BackNumber ==
  ASSUME NEW x \in Nat PROVE Wire(Wire(x + 1) - 1) = Wire(x)
<1>0. Bound \in Nat /\ Bound + 1 \in Nat \ {0} /\ Wire(x) \in 0 .. Bound
  <2>1. Bound \in Nat /\ Bound + 1 \in Nat \ {0}
    BY Mtftp4Assumption
  <2> QED BY <2>1, WireFacts
<1>1. Wire(x + 1) = IF Wire(x) = Bound THEN 0 ELSE Wire(x) + 1
  BY NextNumber
<1>2. CASE Wire(x) = Bound
  <2>1. Bound + (-1) * (Bound + 1) = -1 /\ Bound \in 0 .. ((Bound + 1) - 1) /\ -1 \in Int
    BY <1>0
  <2>2. (Bound + (-1) * (Bound + 1)) % (Bound + 1) = Bound
    BY <1>0, <2>1, Remainder
  <2>3. Wire(-1) = Bound
    BY <2>1, <2>2 DEF Wire
  <2>4. Wire(x + 1) - 1 = -1
    BY <1>1, <1>2
  <2> QED BY <1>2, <2>3, <2>4
<1>3. CASE Wire(x) # Bound
  <2>1. Wire(x + 1) - 1 = Wire(x)
    BY <1>0, <1>1, <1>3
  <2> QED BY <1>0, <2>1, WireFacts
<1> QED BY <1>2, <1>3

\* What Mtftp4RrqSaveBlock computes for the block that the client waits for.
LEMMA RrqBlock ==
  ASSUME Inv, Operation = "RRQ", NEW p,
         p.pkt.block = Wire(Expected), p.pkt.len = BlockLen(token.size, Expected),
         Expected \in 1 .. BlockCount(token.size)
  PROVE  /\ IsLast(p) <=> Expected = BlockCount(token.size)
         /\ Remaining(p) = IF IsLast(p) THEN <<>> ELSE Place(Expected + 1, Bound)
         /\ LastSeen(p) = IF IsLast(p) THEN Wire(Expected) ELSE 0
         /\ TotalBlock(Trimmed(p), p.pkt.block) = Expected
         /\ BlockEnd(p) \in Nat
         /\ IsLast(p) => BlockEnd(p) = token.size
         /\ ~IsLast(p) => BlockEnd(p) = Expected * BlkSize
<1> DEFINE x == Expected
<1>0. /\ x \in Nat /\ token.size \in Nat /\ Wire(x) \in 0 .. Bound /\ Bound \in Nat \ {0}
      /\ BlkSize \in Nat \ {0} /\ BlockCount(token.size) \in Nat \ {0} /\ x >= 1
  BY Here, Mtftp4Assumption
<1>1. ~AtEnd /\ Blocks = Place(x, Bound) /\ LastBlock = 0
  <2>1. ~AtEnd
    BY DEF AtEnd
  <2> QED BY <2>1 DEF Inv, Active, Ranges
<1>2. Bound \in Wire(x) .. Bound /\ Wire(x) \in Wire(x) .. Bound
  BY <1>0
<1>3. IsLast(p) <=> x = BlockCount(token.size)
  <2>1. BlockLen(token.size, x) < BlkSize <=> x = BlockCount(token.size)
    BY <1>0, FileFacts
  <2> QED BY <2>1 DEF IsLast
<1>4. BlockLen(token.size, x) \in 0 .. BlkSize
  BY <1>0, FileFacts
<1>5. BlockEnd(p) = (TotalBlock(Trimmed(p), Wire(x)) - 1) * BlkSize + BlockLen(token.size, x)
  BY DEF BlockEnd
<1> HIDE DEF x
<1>6. CASE IsLast(p)
  <2>1. Trimmed(p) = Place(x, Wire(x))
    BY <1>1, <1>2, <1>6, <1>0, PlaceFacts DEF Trimmed, x
  <2>2. RemoveBlockNum(Place(x, Wire(x)), Wire(x), TRUE) = <<>> /\ TotalBlock(Place(x, Wire(x)), Wire(x)) = x
    BY <1>0, <1>2, PlaceFacts
  <2>3. Remaining(p) = RemoveBlockNum(Trimmed(p), Wire(x), TRUE)
    BY <1>6 DEF Remaining, x
  <2>4. LastSeen(p) = Wire(x)
    BY <1>6 DEF LastSeen, x
  <2>5. BlockEnd(p) = (x - 1) * BlkSize + BlockLen(token.size, x)
    BY <1>5, <2>1, <2>2
  <2>6. (BlockCount(token.size) - 1) * BlkSize + BlockLen(token.size, BlockCount(token.size)) = token.size
    BY <1>0, FileFacts
  <2>7. BlockEnd(p) = token.size
    BY <1>3, <1>6, <2>5, <2>6
  <2> QED BY <1>0, <1>3, <1>6, <2>1, <2>2, <2>3, <2>4, <2>7 DEF x
<1>7. CASE ~IsLast(p)
  <2>1. Trimmed(p) = Place(x, Bound)
    BY <1>1, <1>7 DEF Trimmed
  <2>2. /\ RemoveBlockNum(Place(x, Bound), Wire(x), FALSE) = Place(x + 1, Bound)
        /\ TotalBlock(Place(x, Bound), Wire(x)) = x
    BY <1>0, <1>2, PlaceFacts
  <2>3. Remaining(p) = RemoveBlockNum(Trimmed(p), Wire(x), FALSE)
    <3>1. IsLast(p) = FALSE
      BY <1>7 DEF IsLast
    <3> QED BY <3>1 DEF Remaining, x
  <2>4. LastSeen(p) = 0
    BY <1>1, <1>7 DEF LastSeen
  <2>5. BlockLen(token.size, x) = BlkSize
    BY <1>0, <1>3, <1>7, FileFacts DEF x
  <2>6. BlockEnd(p) = (x - 1) * BlkSize + BlkSize
    BY <1>5, <2>1, <2>2, <2>5
  <2>7. (x - 1) * BlkSize + BlkSize = x * BlkSize /\ x * BlkSize \in Nat
    BY <1>0
  <2> QED BY <1>3, <1>7, <2>1, <2>2, <2>3, <2>4, <2>6, <2>7 DEF x
<1> QED BY <1>6, <1>7

\* A DATA packet from a session the client listens to
LEMMA RrqData ==
  ASSUME Inv, Operation = "RRQ", NEW p, p.pkt.op = "DATA", p.port \in 1 .. Len(server),
         ConnectedPort \in {0, p.port}, p.age \in Nat, p.age < Window,
         Answer(p, server[p.port], Operation, token.size)
  PROVE  \/ p.pkt.block # Wire(Expected) /\ ConnectedPort = p.port
         \/ /\ p.pkt = Data(Wire(Expected), Content(p.port, Expected), BlockLen(token.size, Expected))
            /\ Expected \in 1 .. BlockCount(token.size)
            /\ Answers(server[p.port]) /\ server[p.port].last = Expected
<1> DEFINE s == server[p.port]
<1>0. /\ Expected \in Nat /\ BlockCount(token.size) \in Nat /\ s.last \in Nat
  BY Here
<1>1. Answers(s) /\ \E k \in 0 .. s.last :
          /\ s.last - k <= p.age /\ k > 0
          /\ p.pkt = Data(Wire(k), Content(p.port, k), BlockLen(token.size, k))
  BY PacketFields DEF Answer
<1>2. PICK k \in 0 .. s.last :
          /\ s.last - k <= p.age /\ k > 0
          /\ p.pkt = Data(Wire(k), Content(p.port, k), BlockLen(token.size, k))
  BY <1>1
<1>3. p.pkt.block = Wire(k)
  BY <1>2, PacketFields
<1>4. /\ s.last \in {Expected - 1, Expected} /\ s.last <= BlockCount(token.size)
      /\ ConnectedPort = 0 => Expected = 1
  <2>1. InSession(s, Operation, token.size, Expected, TRUE)
    BY Listened
  <2>2. ConnectedPort = 0 => Expected = FirstBlock(Operation)
    BY Listened
  <2> QED BY <1>1, <2>1, <2>2 DEF InSession, FirstBlock
<1> HIDE DEF s
<1>5. CASE Wire(k) = Wire(Expected)
  <2>1. k = Expected /\ s.last = Expected
    BY <1>0, <1>2, <1>4, <1>5, Awaited
  <2>2. Expected \in 1 .. BlockCount(token.size)
    BY <1>0, <1>2, <1>4, <2>1
  <2> QED BY <1>1, <1>2, <2>1, <2>2 DEF s
<1>6. CASE Wire(k) # Wire(Expected)
  <2>1. ConnectedPort # 0
    <3> SUFFICES ASSUME ConnectedPort = 0 PROVE FALSE
      OBVIOUS
    <3>1. Expected = 1
      BY <1>4
    <3>2. k = 1
      BY <1>0, <1>2, <1>4, <3>1
    <3> QED BY <1>6, <3>1, <3>2
  <2> QED BY <1>3, <1>6, <2>1
<1> QED BY <1>5, <1>6

LEMMA RrqRetransmitStep ==
  ASSUME Inv, Operation = "RRQ", NEW p, NEW rest, RrqRetransmit(p, rest), ConnectedPort = p.port,
         UNCHANGED <<request, server>>, dups' \in 0 .. MaxDups, Way(rest), Among(rest, toClient)
  PROVE  Inv'
<1> USE DEF RrqRetransmit, request
<1>1. Way(toServer') /\ UploadWithinFile' /\ SentOK'
  BY RetransmitFacts
<1>2. CurRetry' \in 0 .. MaxRetry - 1 /\ PacketToLive' \in 1 .. token.timeout
  BY DEF Inv, Types, Active, Running
<1> QED BY <1>1, <1>2, StayStep

\* The last block of a file that does not fit: the length is told.
LEMMA TooSmallStep ==
  ASSUME Inv, Operation = "RRQ", NEW p, p.port \in Nat,
         p.pkt = Data(Wire(Expected), Content(p.port, Expected), BlockLen(token.size, Expected)),
         Expected \in 1 .. BlockCount(token.size),
         TooSmall(p), BufferSize' = BlockEnd(p), FailWith("BUFFER_TOO_SMALL", p.port),
         UNCHANGED <<request, server, given>>, dups' \in 0 .. MaxDups
  PROVE  Inv'
<1>1. p.pkt.block = Wire(Expected) /\ p.pkt.len = BlockLen(token.size, Expected)
  BY PacketFields
<1>2. IsLast(p) /\ BlockEnd(p) = token.size /\ BlockEnd(p) > BufferSize /\ BlockEnd(p) \in Nat
  BY <1>1, RrqBlock DEF TooSmall
<1>3. BufferSize = token.buffer
  BY DEF Inv, Active, Running
<1>4. Status' = "BUFFER_TOO_SMALL" /\ token' = token /\ State' = State
  BY DEF FailWith, CleanOperation, request
<1>5. ResultAccurate'
  BY <1>2, <1>3, <1>4 DEF ResultAccurate, DownloadIntact, UploadIntact, SizeAccurate
<1> DEFINE e == Addressed(Error, p.port)
<1>6. e \in [port : Nat, age : {0}, pkt : Packets] /\ e.pkt = Error
  BY PacketTypes, AddressedFacts
<1>7. toServer' = Post(toServer, e) /\ Way(toServer) /\ UploadWithinFile
  BY DEF FailWith, Inv, Types
<1> HIDE DEF e
<1>8. Way(toServer') /\ Newer(toServer', toServer, e)
  BY <1>6, <1>7, PostWay
<1>9. UploadWithinFile'
  <2>1. e.pkt.op # "DATA"
    BY <1>6, PacketFields
  <2> QED BY <1>4, <1>7, <1>8, <2>1, UploadPosted
<1>10. BufferSize' \in Nat /\ State' \in {"UNCONFIGED", "CONFIGED"}
  BY <1>2, <1>4 DEF Inv, Types
<1> QED BY <1>4, <1>5, <1>8, <1>9, <1>10, CleanStep DEF FailWith, Results

\* The last block: it is stored, and the buffer holds the whole file.
LEMMA LastBlockStep ==
  ASSUME Inv, Premise, Operation = "RRQ", NEW p, p.port \in 1 .. Len(server),
         ConnectedPort \in {0, p.port},
         p.pkt = Data(Wire(Expected), Content(p.port, Expected), BlockLen(token.size, Expected)),
         Expected \in 1 .. BlockCount(token.size),
         IsLast(p), ~TooSmall(p), RrqSaveBlock(p), NEW rest, RrqSendAck(p, rest),
         UNCHANGED <<request, server, given>>, dups' \in 0 .. MaxDups
  PROVE  Inv'
<1> DEFINE x == Expected
           n == BlockCount(token.size)
<1>0. /\ token \in Tokens /\ token.op = "RRQ" /\ token.size \in Nat /\ x \in Nat /\ n \in Nat \ {0}
      /\ BlkSize \in Nat \ {0} /\ p.port \in Nat
  BY Here, Mtftp4Assumption
<1>1. /\ p.pkt.block = Wire(x) /\ p.pkt.len = BlockLen(token.size, x)
      /\ p.pkt.data = Content(p.port, x)
  BY PacketFields
<1>2. /\ x = n /\ Remaining(p) = <<>> /\ LastSeen(p) = Wire(x)
      /\ TotalBlock(Trimmed(p), p.pkt.block) = x /\ BlockEnd(p) = token.size
  BY <1>1, RrqBlock
<1>3. BufferSize = token.buffer
  BY DEF Inv, Active, Running
<1>4. token.size <= BufferSize
  <2>1. ~(token.size > BufferSize /\ Wire(n) # 0)
    BY <1>2 DEF TooSmall
  <2>2. Wire(n) # 0 \/ token.size <= token.buffer
    BY <1>0 DEF Premise, Transferable
  <2>3. token.buffer \in Nat
    BY Here
  <2> QED BY <1>0, <1>3, <2>1, <2>2, <2>3
<1>5. Buffer' = [Buffer EXCEPT ![x] = Content(p.port, x)] /\ BufferSize' = token.size
  BY <1>1, <1>2, <1>4 DEF RrqSaveBlock
<1>6. Buffer \in [1 .. n -> [src : Nat, pos : Nat]]
  BY DEF Inv, Active, Received
<1>7. \A i \in 1 .. n : Buffer'[i] = Content(p.port, i)
  <2> TAKE i \in 1 .. n
  <2>1. CASE i = x
    BY <1>5, <1>6, <2>1
  <2>2. CASE i # x
    <3>1. i \in 1 .. x - 1 /\ i # n
      BY <1>0, <1>2, <2>2
    <3>2. i * BlkSize <= token.size /\ i * BlkSize \in Nat
      <4>1. i # BlockCount(token.size) => i * BlkSize <= token.size
        BY <1>0, FileFacts
      <4>2. i * BlkSize \in Nat
        BY <1>0
      <4> QED BY <3>1, <4>1, <4>2
    <3>3. i * BlkSize <= BufferSize
      <4>1. BufferSize \in Nat
        BY DEF Inv, Types
      <4> QED BY <1>0, <1>4, <3>2, <4>1
    <3>4. ConnectedPort # 0
      <4> SUFFICES ASSUME ConnectedPort = 0 PROVE FALSE
        OBVIOUS
      <4>1. Expected = FirstBlock(Operation)
        BY Listened
      <4>2. x = 1
        BY <4>1 DEF FirstBlock
      <4> QED BY <3>1, <4>2
    <3>5. Buffer[i] = Content(ConnectedPort, i)
      BY <3>1, <3>3, <3>4 DEF Inv, Active, Received
    <3>6. Buffer'[i] = Buffer[i]
      BY <1>5, <1>6, <2>2
    <3> QED BY <3>4, <3>5, <3>6
  <2> QED BY <2>1, <2>2
<1>8. DOMAIN Buffer' = 1 .. n
  BY <1>5, <1>6
<1>9. GetNextBlockNum(Remaining(p)) < 0
  BY <1>2 DEF GetNextBlockNum
<1>10. /\ toServer' = Post(toServer, Addressed(Ack(Wire(x)), p.port))
       /\ CleanOperation("SUCCESS")
  BY <1>2, <1>9 DEF RrqSendAck
<1>11. Status' = "SUCCESS" /\ token' = token /\ State' = State
  BY <1>10 DEF CleanOperation, request
<1>12. ResultAccurate'
  <2>1. p.port \in DOMAIN server'
    <3>1. server \in Seq(Sessions)
      BY Here
    <3>2. DOMAIN server = 1 .. Len(server)
      BY <3>1
    <3> QED BY <3>2
  <2>2. DownloadIntact'
    <3> HIDE DEF n
    <3> QED BY <1>5, <1>7, <1>8, <1>11, <2>1 DEF DownloadIntact
  <2> QED BY <1>0, <1>11, <2>2 DEF ResultAccurate, UploadIntact, SizeAccurate
<1> DEFINE a == Addressed(Ack(Wire(x)), p.port)
<1>13. a \in [port : Nat, age : {0}, pkt : Packets] /\ a.pkt = Ack(Wire(x))
  <2>1. Ack(Wire(x)) \in Packets
    BY <1>0, WireFacts, PacketTypes
  <2> QED BY <1>0, <2>1, AddressedFacts
<1>14. toServer' = Post(toServer, a) /\ Way(toServer) /\ UploadWithinFile
  BY <1>10 DEF Inv, Types
<1> HIDE DEF a
<1>15. Way(toServer') /\ Newer(toServer', toServer, a)
  BY <1>13, <1>14, PostWay
<1>16. UploadWithinFile'
  <2>1. a.pkt.op # "DATA"
    BY <1>13, PacketFields
  <2> QED BY <1>11, <1>14, <1>15, <2>1, UploadPosted
<1>17. BufferSize' \in Nat /\ State' \in {"UNCONFIGED", "CONFIGED"}
  BY <1>0, <1>5, <1>11 DEF Inv, Types
<1> QED BY <1>10, <1>11, <1>12, <1>15, <1>16, <1>17, CleanStep DEF Results

\* A block that is not the last one: it is stored if it fits, and the next one
\* is asked for.
LEMMA NextBlockStep ==
  ASSUME Inv, Operation = "RRQ", NEW p, p.port \in 1 .. Len(server),
         ConnectedPort \in {0, p.port},
         p.pkt = Data(Wire(Expected), Content(p.port, Expected), BlockLen(token.size, Expected)),
         Expected \in 1 .. BlockCount(token.size),
         Answers(server[p.port]), server[p.port].last = Expected,
         ~IsLast(p), RrqSaveBlock(p), NEW rest, RrqSendAck(p, rest),
         UNCHANGED <<request, server, given>>, dups' \in 0 .. MaxDups,
         Way(rest), Among(rest, toClient)
  PROVE  Inv'
<1> DEFINE x == Expected
           n == BlockCount(token.size)
<1>0. /\ token.size \in Nat /\ x \in Nat /\ n \in Nat \ {0} /\ Operation # "none"
      /\ BlkSize \in Nat \ {0} /\ p.port \in Nat /\ p.port # 0 /\ Bound \in Nat \ {0}
  <2>1. BlkSize \in Nat \ {0} /\ Bound \in Nat \ {0}
    BY Mtftp4Assumption
  <2>2. token.size \in Nat /\ x \in Nat /\ n \in Nat \ {0} /\ Len(server) \in Nat
    BY Here
  <2>3. p.port \in Nat /\ p.port # 0
    BY <2>2
  <2> QED BY <2>1, <2>2, <2>3
<1>1. /\ p.pkt.block = Wire(x) /\ p.pkt.len = BlockLen(token.size, x)
      /\ p.pkt.data = Content(p.port, x)
  BY PacketFields
<1>2. /\ x # n /\ Remaining(p) = Place(x + 1, Bound) /\ LastSeen(p) = 0
      /\ TotalBlock(Trimmed(p), p.pkt.block) = x /\ BlockEnd(p) = x * BlkSize
  BY <1>1, RrqBlock
<1>3. x + 1 \in Nat /\ Wire(x + 1) \in 0 .. Bound /\ Bound \in Wire(x + 1) .. Bound
  <2>1. x + 1 \in Nat
    BY <1>0
  <2>2. Wire(x + 1) \in 0 .. Bound
    BY <2>1, WireFacts
  <2> QED BY <1>0, <2>1, <2>2
<1>4. GetNextBlockNum(Remaining(p)) = Wire(x + 1)
  <2> DEFINE y == x + 1
  <2>1. y \in Nat /\ Bound \in Wire(y) .. Bound
    BY <1>3
  <2> HIDE DEF y
  <2>2. GetNextBlockNum(Place(y, Bound)) = Wire(y)
    BY <2>1, PlaceFacts
  <2> QED BY <1>2, <2>2 DEF y
<1>5. ~(GetNextBlockNum(Remaining(p)) < 0)
  BY <1>3, <1>4
<1>6. /\ SendPacket(Ack(Wire(Wire(x + 1) - 1)), p.port)
      /\ Blocks' = Place(x + 1, Bound) /\ LastBlock' = 0 /\ ConnectedPort' = p.port
      /\ toClient' = rest /\ UNCHANGED <<Operation, Status>>
  BY <1>2, <1>4, <1>5 DEF RrqSendAck
<1>7. Expected' = x + 1
  BY <1>3, <1>6, Placed
<1>8. BufferSize' = BufferSize
  BY DEF RrqSaveBlock
<1>9. token' = token /\ State' = State
  BY DEF request
<1>10. Ranges'
  <2>1. ~AtEnd'
    BY <1>6 DEF AtEnd
  <2> QED BY <1>3, <1>6, <1>7, <2>1 DEF Ranges
<1>11. Received'
  <2>1. Buffer \in [1 .. n -> [src : Nat, pos : Nat]]
    BY DEF Inv, Active, Received
  <2>2. Buffer' = IF x * BlkSize <= BufferSize THEN [Buffer EXCEPT ![x] = Content(p.port, x)] ELSE Buffer
    BY <1>1, <1>2 DEF RrqSaveBlock
  <2>3. Content(p.port, x) \in [src : Nat, pos : Nat]
    BY <1>0 DEF Content
  <2>4. Buffer' \in [1 .. n -> [src : Nat, pos : Nat]]
    BY <2>1, <2>2, <2>3
  <2>5. ASSUME NEW i \in 1 .. x, i * BlkSize <= BufferSize
        PROVE  Buffer'[i] = Content(p.port, i)
    <3>1. CASE i = x
      BY <2>1, <2>2, <2>5, <3>1
    <3>2. CASE i # x
      <4>1. i \in 1 .. x - 1 /\ x # 1
        BY <1>0, <3>2
      <4>2. ConnectedPort = p.port
        <5>1. ConnectedPort = 0 => Expected = FirstBlock(Operation)
          BY <1>0, Listened
        <5> QED BY <4>1, <5>1 DEF FirstBlock
      <4>3. Buffer[i] = Content(ConnectedPort, i)
        BY <1>0, <2>5, <4>1, <4>2 DEF Inv, Active, Received
      <4>4. Buffer'[i] = Buffer[i]
        BY <2>1, <2>2, <3>2
      <4> QED BY <4>2, <4>3, <4>4
    <3> QED BY <3>1, <3>2
  <2>6. (x + 1) - 1 = x
    BY <1>0
  <2> QED BY <1>6, <1>7, <1>8, <1>9, <2>4, <2>5, <2>6 DEF Received
<1>12. Ack(Wire(Wire(x + 1) - 1)) = Ack(Wire(Expected' - 1)) /\ Ack(Wire(Expected' - 1)) \in Packets
  <2>1. Expected' - 1 = x
    BY <1>0, <1>7
  <2>2. Wire(Wire(x + 1) - 1) = Wire(x)
    BY <1>0, BackNumber
  <2>3. Ack(Wire(x)) \in Packets
    BY <1>0, WireFacts, PacketTypes
  <2> QED BY <2>1, <2>2, <2>3
<1>13. server[p.port].last \in {Expected' - 1, Expected'} /\ Expected' > 0
       /\ Expected' \in {Expected, Expected + 1} /\ given' \in Nat
  BY <1>0, <1>7 DEF Inv, Types
<1> HIDE DEF x, n
<1> QED BY <1>0, <1>6, <1>8, <1>9, <1>10, <1>11, <1>12, <1>13, SendStep

LEMMA RrqHandleDataStep ==
  ASSUME Inv, Premise, Operation = "RRQ", NEW p, NEW rest, p.port \in 1 .. Len(server),
         ConnectedPort \in {0, p.port}, p.age \in Nat, p.age < Window,
         Answer(p, server[p.port], Operation, token.size), RrqHandleData(p, rest),
         UNCHANGED <<request, server>>, dups' \in 0 .. MaxDups, Way(rest), Among(rest, toClient)
  PROVE  Inv'
<1>0. p.pkt.op = "DATA" /\ GetNextBlockNum(Blocks) = Wire(Expected) /\ p.port \in Nat
  BY Here DEF RrqHandleData
<1>1. \/ p.pkt.block # Wire(Expected) /\ ConnectedPort = p.port
      \/ /\ p.pkt = Data(Wire(Expected), Content(p.port, Expected), BlockLen(token.size, Expected))
         /\ Expected \in 1 .. BlockCount(token.size)
         /\ Answers(server[p.port]) /\ server[p.port].last = Expected
  BY <1>0, RrqData
<1>2. CASE RrqRetransmit(p, rest)
  <2>1. p.pkt.block # Wire(Expected)
    BY <1>0, <1>2 DEF RrqRetransmit
  <2>2. ConnectedPort = p.port
    BY <1>1, <2>1, PacketFields
  <2> QED BY <1>2, <2>2, RrqRetransmitStep
<1>3. ASSUME GetNextBlockNum(Blocks) = p.pkt.block,
             TooSmall(p), BufferSize' = BlockEnd(p), FailWith("BUFFER_TOO_SMALL", p.port),
             UNCHANGED given
      PROVE  Inv'
  BY <1>0, <1>1, <1>3, TooSmallStep
<1>4. ASSUME GetNextBlockNum(Blocks) = p.pkt.block,
             ~TooSmall(p), RrqSaveBlock(p), RrqSendAck(p, rest), UNCHANGED given
      PROVE  Inv'
  <2>1. /\ p.pkt = Data(Wire(Expected), Content(p.port, Expected), BlockLen(token.size, Expected))
        /\ Expected \in 1 .. BlockCount(token.size)
        /\ Answers(server[p.port]) /\ server[p.port].last = Expected
    BY <1>0, <1>1, <1>4
  <2>2. CASE IsLast(p)
    BY <1>4, <2>1, <2>2, LastBlockStep
  <2>3. CASE ~IsLast(p)
    BY <1>4, <2>1, <2>3, NextBlockStep
  <2> QED BY <2>2, <2>3
<1> QED BY <1>2, <1>3, <1>4 DEF RrqHandleData

LEMMA RrqHandleOackStep ==
  ASSUME Inv, Operation = "RRQ", NEW p, NEW rest, p.port \in 1 .. Len(server),
         ConnectedPort \in {0, p.port},
         Answer(p, server[p.port], Operation, token.size), RrqHandleOack(p, rest),
         UNCHANGED <<request, server>>, dups' \in 0 .. MaxDups, Way(rest), Among(rest, toClient)
  PROVE  Inv'
<1> DEFINE x == Expected
<1>0. /\ GetNextBlockNum(Blocks) = Wire(x) /\ x \in Nat /\ p.port \in Nat /\ p.port # 0
      /\ Operation # "none" /\ Bound \in Nat \ {0}
  BY Here, Mtftp4Assumption
<1>1. ConnectedPort = 0 => x = 1
  <2>1. ConnectedPort = 0 => Expected = FirstBlock(Operation)
    BY <1>0, Listened
  <2> QED BY <2>1 DEF FirstBlock
<1>2. Wire(1) = 1 /\ Wire(0) = 0
  BY <1>0, WireFacts
<1>3. CASE GetNextBlockNum(Blocks) # 1 /\ Ignored(p, rest)
  <2>1. ConnectedPort = p.port
    BY <1>0, <1>1, <1>2, <1>3
  <2> QED BY <1>0, <1>3, <2>1, IgnoredStep
<1>4. CASE FailWith("TFTP_ERROR", p.port) /\ UNCHANGED <<Buffer, BufferSize, given>>
  BY <1>0, <1>4, FailStep DEF Results
<1>5. ASSUME p.pkt.op = "OACK", GetNextBlockNum(Blocks) = 1, p.pkt.valid, SendPacket(Ack(0), p.port),
             ConnectedPort' = p.port, toClient' = rest,
             UNCHANGED <<Operation, Blocks, LastBlock, Status>>,
             UNCHANGED <<Buffer, BufferSize, given>>
      PROVE  Inv'
  <2>1. Answers(server[p.port])
    <3>1. p.pkt # Oack(FALSE) /\ p.pkt # Error
      BY <1>5, PacketFields
    <3> QED BY <3>1 DEF Answer, Answers
  <2>2. x > 0
    <3>1. Wire(x) = 1
      BY <1>0, <1>5
    <3>2. x # 0
      BY <1>2, <3>1
    <3> QED BY <1>0, <3>2
  <2>3. Wire(x - 1) = 0
    <3> DEFINE y == x - 1
    <3>1. y \in Nat /\ y + 1 = x
      BY <1>0, <2>2
    <3> HIDE DEF y
    <3>2. Wire(y + 1) = IF Wire(y) = Bound THEN 0 ELSE Wire(y) + 1
      BY <3>1, NextNumber
    <3>3. Wire(y) \in 0 .. Bound
      BY <3>1, WireFacts
    <3>4. Wire(y + 1) = 1
      BY <1>0, <1>5, <3>1
    <3>5. Wire(y) = 0
      BY <1>0, <3>2, <3>3, <3>4
    <3> QED BY <3>5 DEF y
  <2>4. Expected' = Expected
    BY <1>5 DEF Expected
  <2>5. server[p.port].last \in {Expected' - 1, Expected'}
    BY <1>0, <2>1, <2>4, Listened
  <2>6. token' = token /\ State' = State
    BY DEF request
  <2>7. Ranges'
    BY <1>5, <2>4, <2>6 DEF Inv, Active, Ranges, AtEnd
  <2>8. Received'
    <3>1. Received /\ (ConnectedPort = 0 => \A i \in 1 .. Expected - 1 : FALSE)
      BY <1>1 DEF Inv, Active
    <3> QED BY <1>5, <2>4, <2>6, <3>1 DEF Received
  <2>9. Ack(0) = Ack(Wire(Expected' - 1)) /\ Ack(0) \in Packets
    <3>1. 0 \in 0 .. Bound
      BY <1>0
    <3> QED BY <2>3, <2>4, <3>1, PacketTypes
  <2>10. given' \in Nat
    BY <1>5 DEF Inv, Types
  <2>11. Expected' > 0 /\ Expected' \in {Expected, Expected + 1}
    BY <2>2, <2>4
  <2> HIDE DEF x
  <2> QED BY <1>0, <1>5, <2>1, <2>5, <2>6, <2>7, <2>8, <2>9, <2>10, <2>11, SendStep
<1> QED BY <1>3, <1>4, <1>5 DEF RrqHandleOack

-----------------------------------------------------------------------------
(***************************************************************************)
(* Uploads                                                                 *)
(***************************************************************************)
\* The block that Mtftp4WrqSendBlock builds is the next one of the file.
LEMMA NextData ==
  ASSUME Inv, Premise, Operation = "WRQ", Expected < BlockCount(token.size)
  PROVE  BlockData(Wire(Expected + 1)) =
           Data(Wire(Expected + 1), Content(Client, Expected + 1), BlockLen(token.size, Expected + 1))
<1> DEFINE x == Expected
           n == BlockCount(token.size)
<1>0. /\ token \in Tokens /\ token.op = "WRQ" /\ token.size \in Nat /\ x \in Nat /\ n \in Nat \ {0}
      /\ BlkSize \in Nat \ {0} /\ Bound \in Nat \ {0} /\ token.source \in {"Buffer", "PacketNeeded"}
      /\ x + 1 \in 1 .. n
  BY Here, Mtftp4Assumption
<1>1. CASE token.source = "PacketNeeded"
  <2>1. given = x
    BY <1>1 DEF Inv, Active, Running
  <2> QED BY <1>1, <2>1 DEF BlockData
<1>2. CASE token.source = "Buffer"
  <2>1. token.buffer = token.size /\ n <= Bound
    BY <1>0, <1>2 DEF Premise, Transferable
  <2>2. BufferSize = token.size
    BY <2>1 DEF Inv, Active, Running
  <2>3. Wire(x + 1) = x + 1
    <3>1. x + 1 \in 0 .. Bound
      BY <1>0, <2>1
    <3> QED BY <3>1, WireFacts
  <2> DEFINE b == x * BlkSize
             len == IF token.size < b + BlkSize THEN token.size - b ELSE BlkSize
  <2>4. BlockData(x + 1) = Data(x + 1, Content(Client, x + 1), len)
    <3>1. (x + 1) - 1 = x
      BY <1>0
    <3> QED BY <1>2, <2>2, <3>1 DEF BlockData
  <2>5. b \in Nat
    BY <1>0
  <2>6. len = BlockLen(token.size, x + 1)
    <3>1. CASE x + 1 = n
      <4>1. (n - 1) * BlkSize + BlockLen(token.size, n) = token.size /\ BlockLen(token.size, n) \in 0 .. BlkSize
        BY <1>0, FileFacts
      <4>2. BlockLen(token.size, n) < BlkSize
        <5>1. n \in 1 .. n
          BY <1>0
        <5> QED BY <1>0, <5>1, FileFacts
      <4>3. n - 1 = x
        BY <1>0, <3>1
      <4>4. b + BlockLen(token.size, n) = token.size
        BY <4>1, <4>3
      <4> HIDE DEF b
      <4> DEFINE l == BlockLen(token.size, n)
      <4>5. l \in 0 .. BlkSize /\ l < BlkSize /\ b + l = token.size
        BY <4>1, <4>2, <4>4
      <4> HIDE DEF l
      <4>6. len = l
        BY <1>0, <2>5, <4>5
      <4> QED BY <3>1, <4>6 DEF l
    <3>2. CASE x + 1 # n
      <4>1. BlockLen(token.size, x + 1) = BlkSize /\ (x + 1) * BlkSize <= token.size
        BY <1>0, <3>2, FileFacts
      <4>2. (x + 1) * BlkSize = b + BlkSize
        BY <1>0
      <4> HIDE DEF b
      <4>3. ~(token.size < b + BlkSize)
        BY <1>0, <2>5, <4>1, <4>2
      <4> QED BY <4>1, <4>3
    <3> QED BY <3>1, <3>2
  <2> HIDE DEF len
  <2> QED BY <2>3, <2>4, <2>6
<1> QED BY <1>0, <1>1, <1>2

\* The acknowledgement of block k by a session the client listens to
LEMMA WrqHandleAckStep ==
  ASSUME Inv, Premise, Operation = "WRQ", NEW p, NEW rest, NEW k, p.port \in 1 .. Len(server),
         ConnectedPort \in {0, p.port}, p.age \in Nat, p.age < Window,
         Answers(server[p.port]), k \in 0 .. server[p.port].last,
         server[p.port].last - k <= p.age, WrqHandleAck(p, Wire(k), rest),
         UNCHANGED <<request, server>>, dups' \in 0 .. MaxDups, Way(rest), Among(rest, toClient)
  PROVE  Inv'
<1> DEFINE x == Expected
           n == BlockCount(token.size)
           s == server[p.port]
           left == RemoveBlockNum(Blocks, Wire(k), FALSE)
<1>0. /\ token \in Tokens /\ token.op = "WRQ" /\ token.size \in Nat /\ x \in Nat /\ n \in Nat \ {0}
      /\ Bound \in Nat \ {0} /\ GetNextBlockNum(Blocks) = Wire(x) /\ Wire(x) \in 0 .. Bound
      /\ s.last \in Nat /\ Operation # "none" /\ p.port \in Nat /\ p.port # 0
  <2>1. Bound \in Nat \ {0}
    BY Mtftp4Assumption
  <2>2. /\ token \in Tokens /\ token.op = "WRQ" /\ token.size \in Nat /\ x \in Nat /\ n \in Nat \ {0}
        /\ GetNextBlockNum(Blocks) = Wire(x) /\ Wire(x) \in 0 .. Bound /\ Len(server) \in Nat
    BY Here
  <2>3. s.last \in Nat
    BY Here
  <2>4. p.port \in Nat /\ p.port # 0
    BY <2>2
  <2> QED BY <2>1, <2>2, <2>3, <2>4
<1>1. s.last \in {x - 1, x} /\ (ConnectedPort = 0 => x = 0)
  <2>1. ConnectedPort = 0 => Expected = FirstBlock(Operation)
    BY <1>0, Listened
  <2> QED BY <1>0, <2>1, Listened DEF FirstBlock
<1>2. /\ x <= n /\ Blocks = Place(x, IF x = n THEN Wire(x) ELSE Bound)
      /\ LastBlock = IF x = n THEN Wire(x) ELSE 0
  BY <1>0 DEF Inv, Active, Ranges, AtEnd
<1>3. UNCHANGED <<State, token>>
  BY DEF request
<1>4. CASE GetNextBlockNum(Blocks) # Wire(k) /\ Ignored(p, rest)
  <2>1. ConnectedPort = p.port
    <3> SUFFICES ASSUME ConnectedPort = 0 PROVE FALSE
      OBVIOUS
    <3>1. x = 0 /\ s.last = 0
      BY <1>0, <1>1
    <3>2. k = 0
      BY <3>1
    <3> QED BY <1>0, <1>4, <3>1, <3>2
  <2> QED BY <1>0, <1>4, <2>1, IgnoredStep
<1>5. CASE GetNextBlockNum(Blocks) = Wire(k)
  <2>1. k = x /\ s.last = x
    <3> HIDE DEF s
    <3>1. k \in 0 .. s.last /\ s.last - k <= p.age
      BY DEF s
    <3> QED BY <1>0, <1>1, <1>5, <3>1, Awaited
  <2>2. CASE x = n
    <3>1. Wire(x) # Bound
      BY <1>0, <2>2 DEF Premise, Transferable
    <3>2. left = <<>>
      <4>1. Wire(x) \in Wire(x) .. Bound /\ Blocks = Place(x, Wire(x))
        <5>1. Wire(x) \in Wire(x) .. Bound
          BY <1>0
        <5> QED BY <1>2, <2>2, <5>1
      <4> QED BY <1>0, <2>1, <3>1, <4>1, PlaceFacts
    <3>3. GetNextBlockNum(left) < 0 /\ ~(GetNextBlockNum(left) >= 0)
      <4>1. GetNextBlockNum(left) = -1
        BY <3>2 DEF GetNextBlockNum
      <4> DEFINE next == GetNextBlockNum(left)
      <4>2. next = -1
        BY <4>1
      <4> HIDE DEF next
      <4>3. next < 0 /\ ~(next >= 0)
        BY <4>2
      <4> QED BY <4>3 DEF next
    <3>4. WrqFinish(Wire(x), p.port) /\ UNCHANGED given /\ UNCHANGED <<Buffer, BufferSize>>
      <4> DEFINE next == GetNextBlockNum(left)
      <4>1. \/ GetNextBlockNum(Blocks) # Wire(k)
            \/ /\ \/ next < 0 /\ WrqFinish(Wire(k), p.port) /\ UNCHANGED given
                  \/ next >= 0
               /\ UNCHANGED <<Buffer, BufferSize>>
        BY DEF WrqHandleAck
      <4> HIDE DEF left, x
      <4> QED BY <1>5, <2>1, <3>3, <4>1
    <3>5. CleanOperation("SUCCESS") /\ UNCHANGED toServer
      BY <1>2, <2>2, <3>4 DEF WrqFinish
    <3>6. Status' = "SUCCESS"
      BY <1>0, <3>5 DEF CleanOperation
    <3>7. UploadIntact'
      <4>1. InSession(s, Operation, token.size, Expected, TRUE)
        BY <1>0, Listened
      <4>2. s.got = [i \in 1 .. s.last |-> Content(Client, i)]
        BY <4>1 DEF InSession
      <4>3. s.got = [i \in 1 .. n |-> Content(Client, i)]
        BY <2>1, <2>2, <4>2
      <4>4. p.port \in DOMAIN server
        <5>1. server \in Seq(Sessions)
          BY <1>0, Here
        <5>2. DOMAIN server = 1 .. Len(server)
          BY <5>1
        <5> QED BY <5>2
      <4> QED BY <1>3, <4>3, <4>4 DEF UploadIntact
    <3>8. ResultAccurate'
      BY <1>0, <1>3, <3>6, <3>7 DEF ResultAccurate, DownloadIntact, SizeAccurate
    <3>9. /\ Way(toServer') /\ UploadWithinFile' /\ BufferSize' \in Nat
          /\ State' \in {"UNCONFIGED", "CONFIGED"}
      BY <1>3, <3>4, <3>5 DEF Inv, Types, UploadWithinFile
    <3> QED BY <1>3, <3>4, <3>5, <3>8, <3>9, CleanStep DEF Results
  <2>3. CASE x # n
    <3>1. x < n /\ x + 1 \in Nat /\ x + 1 <= n
      <4>1. x \in Nat /\ n \in Nat /\ x <= n /\ x # n
        BY <1>0, <1>2, <2>3
      <4> HIDE DEF x, n
      <4> QED BY <4>1
    <3>2. left = Place(x + 1, Bound)
      <4>1. Bound \in Wire(x) .. Bound /\ Blocks = Place(x, Bound)
        <5>1. Bound \in Wire(x) .. Bound
          BY <1>0
        <5> QED BY <1>2, <2>3, <5>1
      <4> QED BY <1>0, <2>1, <4>1, PlaceFacts
    <3>3. Wire(x + 1) \in 0 .. Bound /\ Bound \in Wire(x + 1) .. Bound /\ Wire(x + 1) \in Wire(x + 1) .. Bound
      <4>1. Wire(x + 1) \in 0 .. Bound
        BY <3>1, WireFacts
      <4> QED BY <1>0, <4>1
    <3>4. GetNextBlockNum(left) = Wire(x + 1) /\ GetNextBlockNum(left) >= 0 /\ ~(GetNextBlockNum(left) < 0)
      <4>1. GetNextBlockNum(left) = Wire(x + 1)
        BY <3>1, <3>2, <3>3, PlaceFacts
      <4>2. Wire(x + 1) >= 0 /\ ~(Wire(x + 1) < 0)
        <5> DEFINE w == Wire(x + 1)
        <5>1. w \in 0 .. Bound
          BY <3>3
        <5> HIDE DEF w
        <5>2. w >= 0 /\ ~(w < 0)
          BY <1>0, <5>1
        <5> QED BY <5>2 DEF w
      <4> QED BY <4>1, <4>2
    <3>5. CASE FailWith("ABORTED", p.port) /\ UNCHANGED given /\ UNCHANGED <<Buffer, BufferSize>>
      BY <1>0, <3>5, FailStep DEF Results
    <3>6. ASSUME WrqSendBlock(Wire(x + 1), left, p.port, rest), UNCHANGED <<Buffer, BufferSize>>
          PROVE  Inv'
      <4> DEFINE pkt == BlockData(Wire(x + 1))
                 last == pkt.len < BlkSize
      <4>1. pkt = Data(Wire(x + 1), Content(Client, x + 1), BlockLen(token.size, x + 1))
        BY <3>1, NextData
      <4>2. last <=> x + 1 = n
        <5>1. pkt.len = BlockLen(token.size, x + 1)
          BY <4>1, PacketFields
        <5>2. x + 1 \in 1 .. n
          BY <1>0, <3>1
        <5>3. BlockLen(token.size, x + 1) < BlkSize <=> x + 1 = n
          BY <1>0, <5>2, FileFacts
        <5> QED BY <5>1, <5>3
      <4>3. /\ SendPacket(pkt, p.port)
            /\ LastBlock' = IF last THEN Wire(x + 1) ELSE LastBlock
            /\ Blocks' = IF last THEN SetLastBlockNum(left, Wire(x + 1)) ELSE left
            /\ given' = IF token.source = "Buffer" THEN given ELSE given + 1
            /\ ConnectedPort' = p.port /\ toClient' = rest
            /\ UNCHANGED <<Operation, Status>>
        BY <3>6 DEF WrqSendBlock
      <4> HIDE DEF pkt, last, left
      <4>4. SetLastBlockNum(left, Wire(x + 1)) = Place(x + 1, Wire(x + 1))
        BY <3>1, <3>2, <3>3, PlaceFacts
      <4> DEFINE e == IF x + 1 = n THEN Wire(x + 1) ELSE Bound
      <4>5. Blocks' = Place(x + 1, e) /\ e \in Wire(x + 1) .. Bound
        BY <3>2, <3>3, <4>2, <4>3, <4>4
      <4>6. Expected' = x + 1
        <5> HIDE DEF e
        <5> QED BY <3>1, <4>5, Placed
      <4>7. LastBlock' = IF x + 1 = n THEN Wire(x + 1) ELSE 0
        BY <1>2, <2>3, <4>2, <4>3
      <4>8. Ranges'
        <5>1. AtEnd' <=> x + 1 = n
          BY <1>3, <4>3, <4>6 DEF AtEnd
        <5> QED BY <1>3, <3>1, <4>5, <4>6, <4>7, <5>1 DEF Ranges
      <4>9. Received'
        BY <4>3 DEF Received
      <4>10. given' \in Nat /\ (token.source = "PacketNeeded" => given' = Expected')
        <5>1. given \in Nat /\ (token.source = "PacketNeeded" => given = x)
          BY <1>0 DEF Inv, Types, Active, Running
        <5> QED BY <1>0, <4>3, <4>6, <5>1
      <4>11. pkt \in Packets
        BY <1>0, <3>1, <4>1, DataType DEF Client
      <4>12. /\ server[p.port].last \in {Expected' - 1, Expected'} /\ Expected' > 0
             /\ Expected' \in {Expected, Expected + 1}
        BY <1>0, <2>1, <4>6
      <4>13. pkt = Data(Wire(Expected'), Content(Client, Expected'), BlockLen(token.size, Expected'))
        BY <4>1, <4>6
      <4> HIDE DEF x, n, s, e
      <4> QED BY <1>0, <1>3, <3>6, <4>3, <4>8, <4>9, <4>10, <4>11, <4>12, <4>13, SendStep
    <3> QED BY <1>5, <3>4, <3>5, <3>6 DEF WrqHandleAck
  <2> QED BY <2>2, <2>3
<1> QED BY <1>4, <1>5 DEF WrqHandleAck

-----------------------------------------------------------------------------
(***************************************************************************)
(* All steps                                                               *)
(***************************************************************************)
LEMMA WrqAckStep ==
  ASSUME Inv, Premise, Operation = "WRQ", NEW p, NEW rest, p.port \in 1 .. Len(server),
         ConnectedPort \in {0, p.port}, p.age \in Nat, p.age < Window,
         Answer(p, server[p.port], Operation, token.size),
         p.pkt.op = "ACK", WrqHandleAck(p, p.pkt.block, rest),
         UNCHANGED <<request, server>>, dups' \in 0 .. MaxDups, Way(rest), Among(rest, toClient)
  PROVE  Inv'
<1> DEFINE s == server[p.port]
<1>1. Answers(s) /\ \E k \in 0 .. s.last : s.last - k <= p.age /\ p.pkt = Ack(Wire(k))
  BY PacketFields DEF Answer
<1>2. PICK k \in 0 .. s.last : s.last - k <= p.age /\ p.pkt = Ack(Wire(k))
  BY <1>1
<1>3. p.pkt.block = Wire(k)
  BY <1>2, PacketFields
<1>4. WrqHandleAck(p, Wire(k), rest)
  BY <1>3
<1> QED BY <1>1, <1>2, <1>4, WrqHandleAckStep

LEMMA WrqHandleOackStep ==
  ASSUME Inv, Premise, Operation = "WRQ", NEW p, NEW rest, p.port \in 1 .. Len(server),
         ConnectedPort \in {0, p.port}, p.age \in Nat, p.age < Window,
         Answer(p, server[p.port], Operation, token.size), WrqHandleOack(p, rest),
         UNCHANGED <<request, server>>, dups' \in 0 .. MaxDups, Way(rest), Among(rest, toClient)
  PROVE  Inv'
<1> DEFINE s == server[p.port]
<1>0. /\ Operation # "none" /\ GetNextBlockNum(Blocks) = Wire(Expected) /\ s.last \in Nat
      /\ p.port \in Nat /\ Wire(0) = 0
  <2>1. GetNextBlockNum(Blocks) = Wire(Expected) /\ s.last \in Nat
    BY Here
  <2>2. p.port \in Nat
    BY Listened
  <2>3. Wire(0) = 0
    <3>1. Bound \in Nat
      BY Mtftp4Assumption
    <3>2. 0 \in 0 .. Bound
      BY <3>1
    <3> QED BY <3>2, WireFacts
  <2> QED BY <2>1, <2>2, <2>3
<1>1. CASE GetNextBlockNum(Blocks) # 0 /\ Ignored(p, rest)
  <2>1. ConnectedPort # 0
    <3>1. ConnectedPort = 0 => Expected = FirstBlock(Operation)
      BY <1>0, Listened
    <3> QED BY <1>0, <1>1, <3>1 DEF FirstBlock
  <2> QED BY <1>0, <1>1, <2>1, IgnoredStep
<1>2. CASE FailWith("TFTP_ERROR", p.port) /\ UNCHANGED <<Buffer, BufferSize, given>>
  BY <1>0, <1>2, FailStep DEF Results
<1>3. CASE p.pkt.op = "OACK" /\ p.pkt.valid /\ WrqHandleAck(p, 0, rest)
  <2>1. p.pkt # Oack(FALSE) /\ p.pkt # Error /\ \A i : p.pkt # Ack(i)
    BY <1>3, PacketFields
  <2>2. p.pkt = Oack(TRUE) /\ s.reply = "oack" /\ s.last <= p.age
    BY <2>1 DEF Answer
  <2>3. Answers(s)
    BY <2>2 DEF Answers
  <2>4. 0 \in 0 .. s.last /\ s.last - 0 <= p.age
    BY <1>0, <2>2
  <2>5. WrqHandleAck(p, Wire(0), rest)
    BY <1>0, <1>3
  <2> QED BY <2>3, <2>4, <2>5, WrqHandleAckStep
<1> QED BY <1>1, <1>2, <1>3 DEF WrqHandleOack

LEMMA HandleErrorStep ==
  ASSUME Inv, Operation # "none", NEW p, HandleError(p) \/ CheckPacketFails(p), p.port \in Nat,
         UNCHANGED <<request, server>>, dups' \in 0 .. MaxDups
  PROVE  Inv'
<1> USE DEF request, Results
<1>1. CASE HandleError(p)
  BY <1>1, EndStep DEF HandleError
<1>2. CASE CheckPacketFails(p)
  <2>1. UNCHANGED <<BufferSize, given>>
    BY <1>2 DEF CheckPacketFails
  <2>2. FailWith("ABORTED", p.port) \/ (CleanOperation("ABORTED") /\ UNCHANGED toServer)
    BY <1>2 DEF CheckPacketFails
  <2>3. CASE FailWith("ABORTED", p.port)
    BY <2>1, <2>3, FailStep
  <2>4. CASE CleanOperation("ABORTED") /\ UNCHANGED toServer
    BY <2>1, <2>4, EndStep
  <2> QED BY <2>2, <2>3, <2>4
<1> QED BY <1>1, <1>2

LEMMA InputStep ==
  ASSUME Inv, Premise, NEW i \in DOMAIN toClient, NEW again \in BOOLEAN, Input(i, again)
  PROVE  Inv'
<1> DEFINE p == toClient[i]
           rest == Rest(toClient, i, again)
<1>0. Delivered(again) /\ UNCHANGED <<request, server>>
  BY DEF Input
<1>1. /\ Operation # "none" /\ dups' \in 0 .. MaxDups /\ Way(rest) /\ Among(rest, toClient)
      /\ p.port \in 1 .. Len(server) /\ p.age \in Nat /\ p.age < Window
      /\ Answer(p, server[p.port], Operation, token.size)
  BY <1>0, Delivery
<1>2. p.port \in Nat
  <2>1. Len(server) \in Nat
    BY <1>1, Here
  <2> QED BY <1>1, <2>1
<1>3. \/ /\ toClient' = rest
         /\ UNCHANGED <<instance, toServer, Status, Buffer, BufferSize, given>>
      \/ /\ Accepted(p)
         /\ \/ Operation = "RRQ" /\ RrqHandleData(p, rest)
            \/ Operation = "RRQ" /\ RrqHandleOack(p, rest)
            \/ Operation = "WRQ" /\ p.pkt.op = "ACK" /\ WrqHandleAck(p, p.pkt.block, rest)
            \/ Operation = "WRQ" /\ WrqHandleOack(p, rest)
            \/ HandleError(p) \/ CheckPacketFails(p)
  BY DEF Input
<1> HIDE DEF p, rest
<1>4. CASE /\ toClient' = rest
           /\ UNCHANGED <<instance, toServer, Status, Buffer, BufferSize, given>>
  BY <1>0, <1>1, <1>4, RefusedStep
<1>5. CASE Accepted(p) /\ Operation = "RRQ" /\ RrqHandleData(p, rest)
  BY <1>0, <1>1, <1>5, RrqHandleDataStep DEF Accepted
<1>6. CASE Accepted(p) /\ Operation = "RRQ" /\ RrqHandleOack(p, rest)
  BY <1>0, <1>1, <1>6, RrqHandleOackStep DEF Accepted
<1>7. CASE Accepted(p) /\ Operation = "WRQ" /\ p.pkt.op = "ACK" /\ WrqHandleAck(p, p.pkt.block, rest)
  BY <1>0, <1>1, <1>7, WrqAckStep DEF Accepted
<1>8. CASE Accepted(p) /\ Operation = "WRQ" /\ WrqHandleOack(p, rest)
  BY <1>0, <1>1, <1>8, WrqHandleOackStep DEF Accepted
<1>9. CASE HandleError(p) \/ CheckPacketFails(p)
  BY <1>0, <1>1, <1>2, <1>9, HandleErrorStep
<1> QED BY <1>3, <1>4, <1>5, <1>6, <1>7, <1>8, <1>9

LEMMA InitInv ==
  ASSUME Init PROVE Inv
<1>1. Types
  <2>1. MaxRetry \in Nat \ {0} /\ MaxDups \in Nat /\ Ports \in Nat
    BY Mtftp4Assumption
  <2>2. CurRetry \in 0 .. MaxRetry - 1 /\ dups \in 0 .. MaxDups
    BY <2>1 DEF Init
  <2>3. server \in Seq(Sessions) /\ Len(server) <= Ports
    <3>1. <<>> \in Seq(Sessions) /\ Len(<<>>) = 0
      BY EmptySeq
    <3> QED BY <2>1, <3>1 DEF Init
  <2>4. Way(toServer) /\ Way(toClient)
    BY EmptyWay DEF Init
  <2> QED BY <2>2, <2>3, <2>4 DEF Init, Types, Results
<1>2. UploadWithinFile
  <2>1. \A i \in DOMAIN toServer : FALSE
    BY DEF Init
  <2> QED BY <2>1 DEF UploadWithinFile
<1>3. ResultAccurate
  BY DEF Init, ResultAccurate, DownloadIntact, UploadIntact, SizeAccurate
<1> QED BY <1>1, <1>2, <1>3 DEF Init, Inv, Idle

LEMMA NextInv ==
  ASSUME Inv, Premise, [Next]_vars PROVE Inv'
<1>1. CASE Configure
  BY <1>1, ConfigureStep
<1>2. CASE ConfigureReset
  BY <1>2, ConfigureResetStep
<1>3. CASE \E t \in Tokens : Start(t)
  BY <1>3, StartStep
<1>4. CASE \E i \in DOMAIN toClient, again \in BOOLEAN : Input(i, again)
  BY <1>4, InputStep
<1>5. CASE InputFails
  BY <1>5, InputFailsStep
<1>6. CASE OnTimerTick
  BY <1>6, OnTimerTickStep
<1>7. CASE \E i \in DOMAIN toServer, again \in BOOLEAN : ServerInput(i, again)
  BY <1>7, ServerInputStep
<1>8. CASE \E port \in DOMAIN server : ServerTimeout(port)
  BY <1>8, ServerTimeoutStep
<1>9. CASE Lose
  BY <1>9, LoseStep
<1>10. CASE UNCHANGED vars
  <2>1. State' \in {"UNCONFIGED", "CONFIGED"}
    BY <1>10 DEF vars, request, Inv, Types
  <2> QED BY <1>10, <2>1, SameStep DEF vars, request
<1> QED BY <1>1, <1>2, <1>3, <1>4, <1>5, <1>6, <1>7, <1>8, <1>9, <1>10 DEF Next

-----------------------------------------------------------------------------
(***************************************************************************)
(* The theorems                                                            *)
(***************************************************************************)
\* Mtftp4Dxe keeps the inductive invariant: one range is left, it starts with
\* the block the client waits for, and every packet under way is about a block
\* near it.
THEOREM Mtftp4Invariant == Premise => (Spec => []Inv)
<1> SUFFICES ASSUME Premise PROVE Spec => []Inv
  OBVIOUS
<1>1. Init => Inv
  BY InitInv
<1>2. Inv /\ [Next]_vars => Inv'
  BY NextInv
<1> QED BY <1>1, <1>2, PTL DEF Spec

\* The fields of the instance and of the token have their types, and an
\* operation has ranges, a packet and a timeout exactly while it runs.
THEOREM TypeCorrect == Premise => (Spec => []TypeOK)
<1> SUFFICES ASSUME Premise PROVE Spec => []TypeOK
  OBVIOUS
<1>1. Inv => TypeOK
  <2> SUFFICES ASSUME Inv PROVE TypeOK
    OBVIOUS
  <2>0. Ports \in Nat /\ Bound \in Nat \ {0}
    BY Mtftp4Assumption
  <2>1. Len(toServer) <= Window /\ Len(toClient) <= Window
    <3>1. Way(toServer) /\ Way(toClient) /\ Window \in Nat
      BY Mtftp4Assumption DEF Inv, Types
    <3>2. Len(toServer) \in 0 .. Window /\ Len(toClient) \in 0 .. Window
      BY <3>1, WayLen
    <3> QED BY <3>1, <3>2
  <2>2. CASE Operation = "none"
    <3>1. Idle
      BY <2>2 DEF Inv
    <3>2. /\ \A i \in DOMAIN Blocks : FALSE
          /\ LastBlock \in 0 .. Bound /\ ConnectedPort \in 0 .. Ports /\ PacketToLive \in Nat
      BY <2>0, <3>1 DEF Idle
    <3> QED BY <2>1, <2>2, <3>1, <3>2 DEF TypeOK, Inv, Types, Idle
  <2>3. CASE Operation # "none"
    <3>1. Ranges /\ Running
      BY <2>3 DEF Inv, Active
    <3> DEFINE x == Expected
               e == IF AtEnd THEN Wire(Expected) ELSE Bound
               r == BlockRange(Wire(x), e, Bound, x \div (Bound + 1))
    <3>2. x \in Nat /\ Wire(x) \in 0 .. Bound
      BY <2>3, Here
    <3>3. e \in Wire(x) .. Bound /\ e \in 0 .. Bound
      BY <2>0, <3>2
    <3>4. x \div (Bound + 1) \in Nat
      BY <2>0, <3>2
    <3>5. Blocks = Place(x, e) /\ LastBlock = IF AtEnd THEN Wire(x) ELSE 0
      BY <3>1 DEF Ranges
    <3> HIDE DEF x, e
    <3>6. Blocks = <<r>> /\ Blocks # <<>>
      BY <3>2, <3>3, <3>5, PlaceFacts DEF Place
    <3>7. r.Start \in 0 .. Bound /\ r.End \in 0 .. Bound /\ r.Round \in Nat
      BY <3>2, <3>3, <3>4 DEF BlockRange
    <3> HIDE DEF r
    <3>8. \A i \in DOMAIN Blocks : /\ Blocks[i].Start \in 0 .. Bound
                                   /\ Blocks[i].End \in 0 .. Bound
                                   /\ Blocks[i].Round \in Nat
      BY <3>6, <3>7
    <3>9. LastBlock \in 0 .. Bound
      BY <2>0, <3>2, <3>5
    <3>10. ConnectedPort \in 0 .. Ports
      <4>1. Len(server) \in Nat
        BY <2>3, Here
      <4> QED BY <2>0, <3>1, <4>1 DEF Running, Inv, Types
    <3>11. PacketToLive \in Nat /\ PacketToLive \in 1 .. token.timeout
      <4>1. token.timeout \in Nat
        BY <2>3, Here
      <4> QED BY <3>1, <4>1 DEF Running
    <3>12. LastPacket # NoPacket
      BY <2>3, PendingFacts
    <3> QED BY <2>1, <2>3, <3>6, <3>8, <3>9, <3>10, <3>11, <3>12 DEF TypeOK, Inv, Types
  <2> QED BY <2>2, <2>3
<1> QED BY <1>1, Mtftp4Invariant, PTL

\* Client and server go in step, whatever the network loses, duplicates and
\* reorders, and however often the block numbers roll over (Mtftp4RrqInput,
\* Mtftp4WrqInput).
THEOREM StaysInStep == Premise => (Spec => []InStep)
<1> SUFFICES ASSUME Premise PROVE Spec => []InStep
  OBVIOUS
<1>1. Inv => InStep
  <2> SUFFICES ASSUME Inv, Operation # "none", ConnectedPort # 0
               PROVE  /\ server[ConnectedPort].last \in {Expected - 1, Expected}
                      /\ Operation = "RRQ" => \A i \in 1 .. Expected - 1 :
                           i * BlkSize <= BufferSize => Buffer[i] = Content(ConnectedPort, i)
    BY DEF InStep
  <2>1. ConnectedPort \in 1 .. Len(server) /\ Answers(server[ConnectedPort])
    <3>1. ConnectedPort \in 0 .. Len(server) /\ Answers(server[ConnectedPort])
      BY DEF Inv, Active, Running
    <3>2. Len(server) \in Nat
      BY Here
    <3> QED BY <3>1, <3>2
  <2>2. server[ConnectedPort].last \in {Expected - 1, Expected}
    BY <2>1, Listened
  <2>3. Received
    BY DEF Inv, Active
  <2> QED BY <2>2, <2>3 DEF Received
<1> QED BY <1>1, Mtftp4Invariant, PTL

\* An upload sends nothing but blocks of the file (Mtftp4WrqSendBlock).
THEOREM SendsOnlyFile == Premise => (Spec => []UploadWithinFile)
<1> SUFFICES ASSUME Premise PROVE Spec => []UploadWithinFile
  OBVIOUS
<1>1. Inv => UploadWithinFile
  BY DEF Inv
<1> QED BY <1>1, Mtftp4Invariant, PTL

\* What the token tells the user at the end of an operation is true: a
\* download that succeeded has the file, an upload that succeeded has
\* delivered it, and EFI_BUFFER_TOO_SMALL tells its length.
THEOREM TellsTheTruth == Premise => (Spec => []ResultAccurate)
<1> SUFFICES ASSUME Premise PROVE Spec => []ResultAccurate
  OBVIOUS
<1>1. Inv => ResultAccurate
  BY DEF Inv
<1> QED BY <1>1, Mtftp4Invariant, PTL

=============================================================================
