----------------------------- MODULE XhciProofs -----------------------------
(***************************************************************************)
(* Proofs about Xhci, for rings of any size and whatever the bulk endpoint *)
(* does: a keyboard has exactly one poll in flight, through stalls and     *)
(* aborted commands, and a buffer that was freed is not polled any more.   *)
(***************************************************************************)
EXTENDS Xhci, SequenceTheorems, FiniteSetTheorems, TLAPS

\* Commands for the keyboard are carried out even if they are aborted.
Premise == \A op \in Commands : <<op, "int">> \notin Aborts

-----------------------------------------------------------------------------
(***************************************************************************)
(* The inductive invariant                                                 *)
(***************************************************************************)
N == Size["int"]

\* What the driver does for the bulk endpoint and with the event ring
PlainFrames ==
  {<<"Interrupt">>, <<"Fill">>, <<"WaitXfer">>, <<"Result">>}
    \union {<<op, "bulk">> : op \in Commands}
    \union {<<"Wait", op, "bulk">> : op \in Commands}
    \union {<<"WaitAbort", op, "bulk">> : op \in Commands}

Plain(s) == s \in Seq(PlainFrames)
Starts(s, f) == s # <<>> /\ Head(s) = f

\* The steps of the recovery of the keyboard's endpoint, from each on
FromRearm(s) == Starts(s, <<"Rearm">>) /\ Plain(Tail(s))
FromSetDeq(s) == Starts(s, <<"SetDeq", "int">>) /\ FromRearm(Tail(s))
FromReset(s) == Starts(s, <<"Reset", "int">>) /\ FromSetDeq(Tail(s))

\* The steps of its deactivation, from each on
FromDeinit(s) == s = << <<"Deinit">> >>
FromStop(s) == Starts(s, <<"Stop", "int">>) /\ FromDeinit(Tail(s))
FromSecond(s) == Starts(s, <<"SetDeq", "int">>) /\ FromStop(Tail(s))
FromFirst(s) == Starts(s, <<"Stop", "int">>) /\ FromSecond(Tail(s))

\* The driver waits for a command op, in XHCI_ProcessInterrupt before the second wait.
Awaits(s, op) ==
  \/ Starts(s, <<"Wait", op, "int">>) \/ Starts(s, <<"WaitAbort", op, "int">>)
Interrupts(s) == Starts(s, <<"Interrupt">>)
Aborting(s, op) == Interrupts(s) /\ Starts(Tail(s), <<"WaitAbort", op, "int">>)

\* Sequences of events and of commands
IsSeq(s) == s \in Seq({s[i] : i \in 1 .. Len(s)})

EventTypes(evs) ==
  IsSeq(evs) /\ \A i \in 1 .. Len(evs) : evs[i].type \in {"xfer", "cmd"} /\ evs[i].ep \in Endpoints
CmdTypes(cs) ==
  IsSeq(cs) /\ \A i \in 1 .. Len(cs) :
    /\ cs[i].op \in Commands /\ cs[i].ep \in Endpoints
    /\ cs[i].ep = "int" => cs[i].deq \in 0 .. N /\ cs[i].dcs \in {0, 1}

Report(v) == v.type = "xfer" /\ v.ep = "int"
NoReport(evs) == \A i \in 1 .. Len(evs) : ~Report(evs[i])
OneReport(evs, op) ==
  \E i \in 1 .. Len(evs) :
    /\ Report(evs[i]) /\ evs[i].op = op
    /\ \A j \in 1 .. Len(evs) : Report(evs[j]) => j = i
NoReply(evs) == \A i \in 1 .. Len(evs) : ~(evs[i].type = "cmd" /\ evs[i].ep = "int")

NoOrder(cs) == \A i \in 1 .. Len(cs) : cs[i].ep # "int"
OneOrder(cs, op) ==
  \E i \in 1 .. Len(cs) :
    /\ cs[i].ep = "int" /\ cs[i].op = op
    /\ \A j \in 1 .. Len(cs) : cs[j].ep = "int" => j = i
\* The commands move the dequeue pointer to where the next TRB will be.
ToEnd(cs, r) ==
  \A i \in 1 .. Len(cs) : cs[i].ep = "int" => cs[i].deq = r.enq /\ cs[i].dcs = r.cycle

\* The TRBs of the driver's side of the ring, up to the enqueue pointer, have its cycle bit.
Trb == [cycle : {0, 1}, len : Nat, chain : {FALSE}, ioc : BOOLEAN]
RingType ==
  [trb : [Slots("int") -> Trb], link : [cycle : {0, 1}, chain : {FALSE}],
   enq : 0 .. N, cycle : {0, 1}]
ContextType ==
  [state : {"Running", "Stopped", "Halted", "Disabled"}, deq : 0 .. N,
   dcs : {0, 1}, skip : {FALSE}]
Produced(r) ==
  /\ r.link.cycle = 1 - r.cycle
  /\ \A s \in Slots("int") : r.trb[s].cycle = IF s < r.enq THEN r.cycle ELSE 1 - r.cycle
  /\ r.enq > 0 => r.trb[r.enq - 1].ioc

\* The controller has dealt with all TRBs, or with all but the last one.
Caught(r, h) == h.deq = r.enq /\ h.dcs = r.cycle
Armed(r, h) ==
  /\ r.enq > 0
  /\ \/ h.deq = r.enq - 1 /\ h.dcs = r.cycle
     \/ h.deq = N /\ r.enq = 1 /\ h.dcs = 1 - r.cycle

Types ==
  /\ ring = [e \in Endpoints |-> ring[e]]
  /\ hw = [e \in Endpoints |-> hw[e]]
  /\ ring["int"] \in RingType /\ hw["int"] \in ContextType
  /\ EventTypes(events) /\ CmdTypes(cmds) /\ IsSeq(stack)
  /\ pending \in {0, 1} /\ polling \in BOOLEAN /\ processing \in BOOLEAN

\* A keyboard that is polled
Polled(r, h, evs) ==
  \/ h.state = "Running" /\ Armed(r, h) /\ NoReport(evs) /\ pending = 0
  \/ h.state = "Running" /\ Caught(r, h) /\ OneReport(evs, "success") /\ pending = 0
  \/ h.state = "Running" /\ Caught(r, h) /\ NoReport(evs) /\ pending = 1
  \/ h.state = "Halted" /\ OneReport(evs, "stall") /\ pending = 0

Quiet ==
  /\ Plain(stack) /\ NoOrder(cmds) /\ NoReply(events)
  /\ Polled(ring["int"], hw["int"], events)
  /\ processing /\ pending > 0 => stack = << <<"Interrupt">> >>

\* XHCI_ClearStalledEp and the poll that follows it
ResetStage(s, h, evs, cs) ==
  \/ FromReset(s) /\ h.state = "Halted" /\ NoOrder(cs) /\ NoReply(evs)
  \/ /\ \/ Awaits(s, "Reset") /\ FromSetDeq(Tail(s))
        \/ Aborting(s, "Reset") /\ FromSetDeq(Tail(Tail(s)))
     /\ \/ h.state = "Halted" /\ OneOrder(cs, "Reset") /\ NoReply(evs)
        \/ h.state = "Stopped" /\ NoOrder(cs)

SetDeqStage(s, r, h, evs, cs) ==
  /\ h.state = "Stopped"
  /\ \/ Interrupts(s) /\ FromSetDeq(Tail(s)) /\ NoOrder(cs)
     \/ FromSetDeq(s) /\ NoOrder(cs) /\ NoReply(evs)
     \/ /\ \/ Awaits(s, "SetDeq") /\ FromRearm(Tail(s))
           \/ Aborting(s, "SetDeq") /\ FromRearm(Tail(Tail(s)))
        /\ \/ OneOrder(cs, "SetDeq") /\ ToEnd(cs, r) /\ NoReply(evs)
           \/ Caught(r, h) /\ NoOrder(cs)

RearmStage(s, r, h, evs, cs) ==
  /\ h.state = "Stopped" /\ Caught(r, h) /\ NoOrder(cs)
  /\ \/ Interrupts(s) /\ FromRearm(Tail(s))
     \/ FromRearm(s) /\ NoReply(evs)

Recovering ==
  /\ \/ ResetStage(stack, hw["int"], events, cmds)
     \/ SetDeqStage(stack, ring["int"], hw["int"], events, cmds)
     \/ RearmStage(stack, ring["int"], hw["int"], events, cmds)
  /\ NoReport(events) /\ pending = 0

\* XHCI_DeactivatePolling and XHCI_DeinitDeviceData
FirstStage(s, h, evs, cs) ==
  \/ FromFirst(s) /\ NoOrder(cs) /\ NoReply(evs)
  \/ /\ \/ Awaits(s, "Stop") /\ FromSecond(Tail(s))
        \/ Aborting(s, "Stop") /\ FromSecond(Tail(Tail(s)))
     /\ \/ OneOrder(cs, "Stop") /\ NoReply(evs)
        \/ h.state # "Running" /\ NoOrder(cs)

SecondStage(s, h, evs, cs) ==
  /\ h.state # "Running"
  /\ \/ Interrupts(s) /\ FromSecond(Tail(s)) /\ NoOrder(cs)
     \/ FromSecond(s) /\ NoOrder(cs) /\ NoReply(evs)
     \/ /\ \/ Awaits(s, "SetDeq") /\ FromStop(Tail(s))
           \/ Aborting(s, "SetDeq") /\ FromStop(Tail(Tail(s)))
        /\ \/ OneOrder(cs, "SetDeq") /\ NoReply(evs)
           \/ NoOrder(cs)

LastStage(s, h, cs) ==
  /\ h.state # "Running" /\ NoOrder(cs)
  /\ \/ Interrupts(s) /\ FromStop(Tail(s))
     \/ FromStop(s) \/ FromDeinit(s)

Stopping ==
  \/ FirstStage(stack, hw["int"], events, cmds)
  \/ SecondStage(stack, hw["int"], events, cmds)
  \/ LastStage(stack, hw["int"], cmds)

\* No keyboard: what is left of the last one is drained from the event ring.
Absent ==
  /\ Plain(stack) /\ hw["int"].state = "Disabled" /\ NoOrder(cmds)
  /\ stack = << <<"Interrupt">> >> \/ (NoReport(events) /\ NoReply(events))

Inv ==
  /\ Types
  /\ polling => Produced(ring["int"]) /\ (Quiet \/ Recovering)
  /\ ~polling => pending = 0 /\ (Stopping \/ Absent)

-----------------------------------------------------------------------------
(***************************************************************************)
(* The ring of the keyboard                                                *)
(***************************************************************************)
LEMMA SizeFacts == N \in Nat \ {0} /\ Slots("int") = 0 .. N - 1
BY XhciAssumption DEF N, Slots, Endpoints

LEMMA RingFields ==
  ASSUME NEW r \in RingType
  PROVE  /\ r.trb \in [Slots("int") -> Trb] /\ r.link \in [cycle : {0, 1}, chain : {FALSE}]
         /\ r.enq \in 0 .. N /\ r.cycle \in {0, 1}
         /\ \A s \in Slots("int") : r.trb[s] \in Trb /\ r.trb[s].cycle \in {0, 1}
<1>1. /\ r.trb \in [Slots("int") -> Trb] /\ r.link \in [cycle : {0, 1}, chain : {FALSE}]
      /\ r.enq \in 0 .. N /\ r.cycle \in {0, 1}
  BY DEF RingType
<1>2. \A s \in Slots("int") : r.trb[s] \in Trb
  BY <1>1
<1>3. \A t \in Trb : t.cycle \in {0, 1}
  BY DEF Trb
<1> QED BY <1>1, <1>2, <1>3

\* A TRB that is written, and the cycle bits of the others
LEMMA TrbWritten ==
  ASSUME NEW trb \in [Slots("int") -> Trb], NEW s \in Slots("int"), NEW c \in Trb
  PROVE  /\ [trb EXCEPT ![s] = c] \in [Slots("int") -> Trb]
         /\ \A t \in Slots("int") : [trb EXCEPT ![s] = c][t] = IF t = s THEN c ELSE trb[t]
OBVIOUS

\* XHCI_AdvanceEnqueuePtr, field by field
LEMMA AdvanceFacts ==
  ASSUME NEW r \in RingType, NEW n, NEW s, n = AdvanceEnqueuePtr(r, "int"), s = NextSlot(r, "int")
  PROVE  /\ s \in Slots("int") /\ s = IF r.enq = N THEN 0 ELSE r.enq
         /\ n \in RingType /\ n.enq = s + 1
         /\ n.cycle = IF r.enq = N THEN 1 - r.cycle ELSE r.cycle
         /\ n.link.cycle = IF r.enq = N THEN r.cycle ELSE r.link.cycle
         /\ \A t \in Slots("int") : n.trb[t].cycle = r.trb[t].cycle
<1>0. N \in Nat \ {0} /\ Slots("int") = 0 .. N - 1
  BY SizeFacts
<1>1. /\ r.trb \in [Slots("int") -> Trb] /\ r.link \in [cycle : {0, 1}, chain : {FALSE}]
      /\ r.enq \in 0 .. N /\ r.cycle \in {0, 1}
      /\ \A t \in Slots("int") : r.trb[t] \in Trb /\ r.trb[t].cycle \in {0, 1}
  BY RingFields
<1>2. s = IF r.enq = N THEN 0 ELSE r.enq
  BY DEF NextSlot, N
<1>3. s \in Slots("int") /\ s + 1 \in 0 .. N
  BY <1>0, <1>1, <1>2
<1> DEFINE c == [ClearTrb EXCEPT !.cycle = r.trb[s].cycle]
           trb == [r.trb EXCEPT ![s] = c]
<1>4. c \in Trb /\ c.cycle = r.trb[s].cycle
  <2>1. r.trb[s].cycle \in {0, 1}
    BY <1>1, <1>3
  <2> QED BY <2>1 DEF ClearTrb, Trb
<1> HIDE DEF c
<1>5. trb \in [Slots("int") -> Trb] /\ \A t \in Slots("int") : trb[t].cycle = r.trb[t].cycle
  BY <1>1, <1>3, <1>4, TrbWritten
<1>6. CASE r.enq = N
  <2>1. n = [r EXCEPT !.link.cycle = r.cycle, !.cycle = 1 - r.cycle, !.enq = 1, !.trb[0] = c]
    BY <1>2, <1>6 DEF AdvanceEnqueuePtr, N, c
  <2> DEFINE link == [r.link EXCEPT !.cycle = r.cycle]
  <2>2. n.enq = 1 /\ n.cycle = 1 - r.cycle /\ n.trb = trb /\ n.link = link
    BY <1>2, <1>6, <2>1 DEF RingType
  <2>3. link \in [cycle : {0, 1}, chain : {FALSE}] /\ link.cycle = r.cycle
    BY <1>1
  <2>4. n \in RingType
    <3>1. 1 - r.cycle \in {0, 1} /\ 1 \in 0 .. N
      BY <1>0, <1>1
    <3> HIDE DEF link, trb
    <3> QED BY <1>5, <2>1, <2>2, <2>3, <3>1 DEF RingType
  <2> QED BY <1>2, <1>3, <1>5, <1>6, <2>2, <2>3, <2>4
<1>7. CASE r.enq # N
  <2>1. n = [r EXCEPT !.enq = @ + 1, !.trb[s] = c]
    BY <1>2, <1>7 DEF AdvanceEnqueuePtr, N, c
  <2>2. n.enq = s + 1 /\ n.cycle = r.cycle /\ n.trb = trb /\ n.link = r.link
    BY <1>2, <1>7, <2>1 DEF RingType
  <2>3. n \in RingType
    <3> HIDE DEF trb
    <3> QED BY <1>1, <1>3, <1>5, <2>1, <2>2 DEF RingType
  <2> QED BY <1>2, <1>3, <1>5, <1>7, <2>2, <2>3
<1> QED BY <1>6, <1>7

\* A poll that is queued: the ring keeps its form, and the controller that had
\* dealt with all TRBs has one to do.
LEMMA QueueFacts ==
  ASSUME NEW r \in RingType, Produced(r), NEW q, q = QueuePoll(r)
  PROVE  /\ q \in RingType /\ Produced(q)
         /\ \A h : Caught(r, h) => Armed(q, h)
<1> DEFINE n == AdvanceEnqueuePtr(r, "int")
           s == NextSlot(r, "int")
           c == [cycle |-> n.cycle, len |-> 1, chain |-> FALSE, ioc |-> TRUE]
           trb == [n.trb EXCEPT ![s] = c]
<1>0. N \in Nat \ {0} /\ Slots("int") = 0 .. N - 1
  BY SizeFacts
<1>1. /\ s \in Slots("int") /\ s = IF r.enq = N THEN 0 ELSE r.enq
      /\ n \in RingType /\ n.enq = s + 1
      /\ n.cycle = IF r.enq = N THEN 1 - r.cycle ELSE r.cycle
      /\ n.link.cycle = IF r.enq = N THEN r.cycle ELSE r.link.cycle
      /\ \A t \in Slots("int") : n.trb[t].cycle = r.trb[t].cycle
  BY AdvanceFacts
<1>2. q = [n EXCEPT !.trb[s] = c]
  BY DEF QueuePoll
<1> HIDE DEF n, s
<1>3. /\ n.trb \in [Slots("int") -> Trb] /\ n.link \in [cycle : {0, 1}, chain : {FALSE}]
      /\ n.enq \in 0 .. N /\ n.cycle \in {0, 1}
  BY <1>1, RingFields
<1>4. r.enq \in 0 .. N /\ r.cycle \in {0, 1}
  BY RingFields
<1>5. c \in Trb /\ c.cycle = n.cycle /\ c.ioc
  BY <1>3 DEF Trb
<1> HIDE DEF c
<1>6. trb \in [Slots("int") -> Trb] /\ \A t \in Slots("int") : trb[t] = IF t = s THEN c ELSE n.trb[t]
  BY <1>1, <1>3, <1>5, TrbWritten
<1>7. q.enq = n.enq /\ q.cycle = n.cycle /\ q.trb = trb /\ q.link = n.link
  BY <1>1, <1>2 DEF RingType
<1>8. q \in RingType
  <2> HIDE DEF trb
  <2> QED BY <1>1, <1>2, <1>3, <1>6, <1>7 DEF RingType
<1> HIDE DEF trb
<1>9. q.link.cycle = 1 - q.cycle
  BY <1>1, <1>4, <1>7 DEF Produced
<1>10. ASSUME NEW t \in Slots("int")
       PROVE  q.trb[t].cycle = IF t < q.enq THEN q.cycle ELSE 1 - q.cycle
  <2>1. q.trb[t].cycle = IF t = s THEN n.cycle ELSE r.trb[t].cycle
    BY <1>1, <1>5, <1>6, <1>7
  <2>2. r.trb[t].cycle = IF t < r.enq THEN r.cycle ELSE 1 - r.cycle
    BY DEF Produced
  <2>3. q.enq = s + 1 /\ q.cycle = n.cycle
    BY <1>1, <1>7
  <2>4. t \in 0 .. N - 1 /\ s \in 0 .. N - 1
    BY <1>0, <1>1
  <2>5. CASE r.enq = N
    BY <1>0, <1>1, <1>4, <2>1, <2>2, <2>3, <2>4, <2>5
  <2>6. CASE r.enq # N
    BY <1>0, <1>1, <1>4, <2>1, <2>2, <2>3, <2>4, <2>6
  <2> QED BY <2>5, <2>6
<1>11. q.trb[q.enq - 1].ioc
  <2>1. q.enq - 1 = s
    BY <1>0, <1>1, <1>7
  <2> QED BY <1>1, <1>5, <1>6, <1>7, <2>1
<1>12. ASSUME NEW h, Caught(r, h) PROVE Armed(q, h)
  <2>1. h.deq = r.enq /\ h.dcs = r.cycle /\ q.enq = s + 1 /\ q.cycle = n.cycle
    BY <1>1, <1>7, <1>12 DEF Caught
  <2>2. CASE r.enq = N
    <3>1. s = 0 /\ q.enq = 1 /\ h.dcs = 1 - q.cycle /\ h.deq = N
      BY <1>1, <1>4, <2>1, <2>2
    <3> QED BY <3>1 DEF Armed
  <2>3. CASE r.enq # N
    <3>1. h.deq = q.enq - 1 /\ h.dcs = q.cycle /\ q.enq > 0
      BY <1>0, <1>1, <1>4, <2>1, <2>3
    <3> QED BY <3>1 DEF Armed
  <2> QED BY <2>2, <2>3
<1> QED BY <1>8, <1>9, <1>10, <1>11, <1>12 DEF Produced

\* A new ring
LEMMA NewRingFacts ==
  /\ NewRing("int") \in RingType /\ Produced(NewRing("int"))
  /\ Caught(NewRing("int"), NewContext)
  /\ NewContext \in ContextType /\ Disabled \in ContextType
  /\ NewContext.state = "Running" /\ Disabled.state = "Disabled"
<1> DEFINE r == NewRing("int")
<1>0. N \in Nat \ {0} /\ Slots("int") = 0 .. N - 1
  BY SizeFacts
<1>1. ClearTrb \in Trb /\ ClearTrb.cycle = 0
  BY DEF ClearTrb, Trb
<1>2. /\ r = [trb |-> [s \in Slots("int") |-> ClearTrb],
              link |-> [cycle |-> 0, chain |-> FALSE], enq |-> 0, cycle |-> 1]
  BY DEF NewRing
<1>3. r \in RingType
  <2>1. [s \in Slots("int") |-> ClearTrb] \in [Slots("int") -> Trb]
    BY <1>1
  <2>2. [cycle |-> 0, chain |-> FALSE] \in [cycle : {0, 1}, chain : {FALSE}] /\ 0 \in 0 .. N
    BY <1>0
  <2> DEFINE trb == [s \in Slots("int") |-> ClearTrb]
             link == [cycle |-> 0, chain |-> FALSE]
  <2>3. r = [trb |-> trb, link |-> link, enq |-> 0, cycle |-> 1]
    BY <1>2
  <2> HIDE DEF r, trb, link
  <2>4. trb \in [Slots("int") -> Trb] /\ link \in [cycle : {0, 1}, chain : {FALSE}]
    BY <2>1, <2>2 DEF trb, link
  <2> QED BY <2>2, <2>3, <2>4 DEF RingType
<1>4. Produced(r)
  BY <1>0, <1>1, <1>2 DEF Produced
<1>5. Caught(r, NewContext)
  BY <1>2 DEF Caught, NewContext
<1>6. NewContext \in ContextType /\ NewContext.state = "Running"
  BY <1>0 DEF NewContext, ContextType
<1>7. Disabled \in ContextType /\ Disabled.state = "Disabled"
  BY <1>6 DEF ContextType, Disabled, NewContext
<1> QED BY <1>3, <1>4, <1>5, <1>6, <1>7

\* What the controller finds at its dequeue pointer
LEMMA WorkFacts ==
  ASSUME Types, Produced(ring["int"]), hw["int"].state = "Running"
  PROVE  /\ Caught(ring["int"], hw["int"]) => ~Executable("int")
         /\ Armed(ring["int"], hw["int"]) /\ hw["int"].deq < N =>
              hw["int"].deq = ring["int"].enq - 1 /\ hw["int"].dcs = ring["int"].cycle
                /\ ring["int"].trb[hw["int"].deq].ioc
         /\ Armed(ring["int"], hw["int"]) /\ hw["int"].deq = N =>
              ring["int"].enq = 1 /\ hw["int"].dcs = 1 - ring["int"].cycle
<1> DEFINE r == ring["int"]
           h == hw["int"]
<1>0. /\ N \in Nat \ {0} /\ Slots("int") = 0 .. N - 1 /\ r \in RingType
      /\ r.enq \in 0 .. N /\ r.cycle \in {0, 1} /\ h.deq \in 0 .. N /\ h.dcs \in {0, 1}
  BY SizeFacts, RingFields DEF Types, ContextType
<1>1. Executable("int") <=> IF h.deq = N THEN r.link.cycle = h.dcs ELSE r.trb[h.deq].cycle = h.dcs
  BY DEF Executable, N
<1>2. /\ r.link.cycle = 1 - r.cycle
      /\ \A s \in Slots("int") : r.trb[s].cycle = IF s < r.enq THEN r.cycle ELSE 1 - r.cycle
      /\ r.enq > 0 => r.trb[r.enq - 1].ioc
  BY DEF Produced
<1> HIDE DEF r, h
<1>3. Caught(r, h) => ~Executable("int")
  <2> SUFFICES ASSUME Caught(r, h) PROVE ~Executable("int")
    OBVIOUS
  <2>1. h.deq = r.enq /\ h.dcs = r.cycle
    BY DEF Caught
  <2>2. CASE h.deq = N
    BY <1>0, <1>1, <1>2, <2>1, <2>2
  <2>3. CASE h.deq # N
    <3>1. h.deq \in Slots("int") /\ ~(h.deq < r.enq)
      BY <1>0, <2>1, <2>3
    <3>2. r.trb[h.deq].cycle = 1 - r.cycle
      BY <1>2, <3>1
    <3> QED BY <1>0, <1>1, <2>1, <2>3, <3>2
  <2> QED BY <2>2, <2>3
<1>4. Armed(r, h) /\ h.deq < N => h.deq = r.enq - 1 /\ h.dcs = r.cycle /\ r.trb[h.deq].ioc
  BY <1>0, <1>2 DEF Armed
<1>5. Armed(r, h) /\ h.deq = N => r.enq = 1 /\ h.dcs = 1 - r.cycle
  <2> SUFFICES ASSUME Armed(r, h), h.deq = N PROVE r.enq = 1 /\ h.dcs = 1 - r.cycle
    OBVIOUS
  <2>1. h.deq # r.enq - 1
    BY <1>0
  <2> QED BY <2>1 DEF Armed
<1> QED BY <1>3, <1>4, <1>5 DEF r, h

-----------------------------------------------------------------------------
(***************************************************************************)
(* Events and commands                                                     *)
(***************************************************************************)
LEMMA SeqOfOwn ==
  ASSUME NEW S, NEW s \in Seq(S) PROVE IsSeq(s)
<1>1. Len(s) \in Nat /\ s \in [1 .. Len(s) -> S]
  OBVIOUS
<1> DEFINE R == {s[i] : i \in 1 .. Len(s)}
<1>2. s \in [1 .. Len(s) -> R]
  BY <1>1
<1>3. s \in Seq(R)
  BY <1>1, <1>2, SeqDef
<1> QED BY <1>3 DEF IsSeq

LEMMA TailSeq ==
  ASSUME NEW s, IsSeq(s), s # <<>>
  PROVE  /\ IsSeq(Tail(s)) /\ Len(s) \in Nat \ {0} /\ Len(Tail(s)) = Len(s) - 1
         /\ Head(s) = s[1] /\ \A i \in 1 .. Len(Tail(s)) : Tail(s)[i] = s[i + 1]
<1> DEFINE R == {s[i] : i \in 1 .. Len(s)}
<1>1. s \in Seq(R)
  BY DEF IsSeq
<1> HIDE DEF R
<1>2. Tail(s) \in Seq(R) /\ Len(Tail(s)) = Len(s) - 1 /\ Len(s) \in Nat \ {0} /\ Head(s) = s[1]
  BY <1>1
<1>3. \A i \in 1 .. Len(Tail(s)) : Tail(s)[i] = s[i + 1]
  BY <1>1, <1>2
<1> QED BY <1>2, <1>3, SeqOfOwn

LEMMA ConcatSeq ==
  ASSUME NEW s, IsSeq(s), NEW t, IsSeq(t)
  PROVE  /\ IsSeq(s \o t) /\ Len(s) \in Nat /\ Len(t) \in Nat /\ Len(s \o t) = Len(s) + Len(t)
         /\ \A i \in 1 .. Len(s) : (s \o t)[i] = s[i]
         /\ \A i \in 1 .. Len(t) : (s \o t)[Len(s) + i] = t[i]
         /\ \A i \in 1 .. Len(s \o t) : i \notin 1 .. Len(s) =>
              i - Len(s) \in 1 .. Len(t) /\ (s \o t)[i] = t[i - Len(s)]
<1> DEFINE R == {s[i] : i \in 1 .. Len(s)} \union {t[i] : i \in 1 .. Len(t)}
<1>1. s \in Seq(R) /\ t \in Seq(R)
  <2>1. s \in Seq({s[i] : i \in 1 .. Len(s)}) /\ t \in Seq({t[i] : i \in 1 .. Len(t)})
    BY DEF IsSeq
  <2> QED BY <2>1, SeqMonotonic
<1> HIDE DEF R
<1>2. /\ s \o t \in Seq(R) /\ Len(s) \in Nat /\ Len(t) \in Nat /\ Len(s \o t) = Len(s) + Len(t)
      /\ \A i \in 1 .. Len(s) + Len(t) :
            (s \o t)[i] = IF i <= Len(s) THEN s[i] ELSE t[i - Len(s)]
  BY <1>1, ConcatProperties
<1>3. \A i \in 1 .. Len(s) : (s \o t)[i] = s[i]
  BY <1>2
<1>4. \A i \in 1 .. Len(s \o t) : i \notin 1 .. Len(s) =>
              i - Len(s) \in 1 .. Len(t) /\ (s \o t)[i] = t[i - Len(s)]
  BY <1>2
<1>5. \A i \in 1 .. Len(t) : (s \o t)[Len(s) + i] = t[i]
  <2> TAKE i \in 1 .. Len(t)
  <2>1. Len(s) + i \in 1 .. Len(s) + Len(t) /\ ~(Len(s) + i <= Len(s)) /\ (Len(s) + i) - Len(s) = i
    BY <1>2
  <2> QED BY <1>2, <2>1
<1> QED BY <1>2, <1>3, <1>4, <1>5, SeqOfOwn

LEMMA ShortSeq ==
  /\ IsSeq(<<>>) /\ Len(<<>>) = 0
  /\ \A a : IsSeq(<<a>>) /\ Len(<<a>>) = 1 /\ <<a>>[1] = a
  /\ \A a, b : IsSeq(<<a, b>>) /\ Len(<<a, b>>) = 2 /\ <<a, b>>[1] = a /\ <<a, b>>[2] = b
<1>1. IsSeq(<<>>) /\ Len(<<>>) = 0
  <2>1. <<>> \in Seq({}) /\ Len(<<>>) = 0
    OBVIOUS
  <2> QED BY <2>1, SeqOfOwn
<1>2. ASSUME NEW a PROVE IsSeq(<<a>>) /\ Len(<<a>>) = 1 /\ <<a>>[1] = a
  <2>1. <<a>> \in Seq({a})
    OBVIOUS
  <2> QED BY <2>1, SeqOfOwn
<1>3. ASSUME NEW a, NEW b
      PROVE  IsSeq(<<a, b>>) /\ Len(<<a, b>>) = 2 /\ <<a, b>>[1] = a /\ <<a, b>>[2] = b
  <2>1. <<a, b>> \in Seq({a, b})
    OBVIOUS
  <2> QED BY <2>1, SeqOfOwn
<1> QED BY <1>1, <1>2, <1>3

\* An event is taken from the ring.
LEMMA TailEvents ==
  ASSUME NEW evs, EventTypes(evs), evs # <<>>
  PROVE  /\ EventTypes(Tail(evs))
         /\ Head(evs).type \in {"xfer", "cmd"} /\ Head(evs).ep \in Endpoints
         /\ NoReply(evs) => NoReply(Tail(evs))
         /\ NoReport(evs) => NoReport(Tail(evs)) /\ ~Report(Head(evs))
         /\ \A op : OneReport(evs, op) =>
              IF Report(Head(evs)) THEN Head(evs).op = op /\ NoReport(Tail(evs))
                                   ELSE OneReport(Tail(evs), op)
<1>1. /\ IsSeq(Tail(evs)) /\ Len(evs) \in Nat \ {0} /\ Len(Tail(evs)) = Len(evs) - 1
      /\ Head(evs) = evs[1] /\ \A i \in 1 .. Len(Tail(evs)) : Tail(evs)[i] = evs[i + 1]
  BY TailSeq DEF EventTypes
<1>2. 1 \in 1 .. Len(evs) /\ \A i \in 1 .. Len(Tail(evs)) : i + 1 \in 1 .. Len(evs) /\ i + 1 # 1
  BY <1>1
<1>3. EventTypes(Tail(evs)) /\ Head(evs).type \in {"xfer", "cmd"} /\ Head(evs).ep \in Endpoints
  BY <1>1, <1>2 DEF EventTypes
<1>4. NoReply(evs) => NoReply(Tail(evs))
  BY <1>1, <1>2 DEF NoReply
<1>5. NoReport(evs) => NoReport(Tail(evs)) /\ ~Report(Head(evs))
  BY <1>1, <1>2 DEF NoReport
<1>6. ASSUME NEW op, OneReport(evs, op)
      PROVE  IF Report(Head(evs)) THEN Head(evs).op = op /\ NoReport(Tail(evs))
                                  ELSE OneReport(Tail(evs), op)
  <2>1. PICK i \in 1 .. Len(evs) : /\ Report(evs[i]) /\ evs[i].op = op
                                   /\ \A j \in 1 .. Len(evs) : Report(evs[j]) => j = i
    BY <1>6 DEF OneReport
  <2>2. CASE Report(Head(evs))
    <3>1. i = 1
      BY <1>1, <1>2, <2>1, <2>2
    <3>2. NoReport(Tail(evs))
      BY <1>1, <1>2, <2>1, <3>1 DEF NoReport
    <3> QED BY <1>1, <2>1, <2>2, <3>1, <3>2
  <2>3. CASE ~Report(Head(evs))
    <3>1. i # 1
      BY <1>1, <2>1, <2>3
    <3>2. i - 1 \in 1 .. Len(Tail(evs)) /\ (i - 1) + 1 = i
      BY <1>1, <3>1
    <3>3. Tail(evs)[i - 1] = evs[i]
      BY <1>1, <3>2
    <3>4. \A j \in 1 .. Len(Tail(evs)) : Report(Tail(evs)[j]) => j = i - 1
      <4> TAKE j \in 1 .. Len(Tail(evs))
      <4> HAVE Report(Tail(evs)[j])
      <4>1. j + 1 = i
        BY <1>1, <1>2, <2>1
      <4> QED BY <1>1, <4>1
    <3> QED BY <2>1, <2>3, <3>2, <3>3, <3>4 DEF OneReport
  <2> QED BY <2>2, <2>3
<1> QED BY <1>3, <1>4, <1>5, <1>6

\* Events are added to the ring.
LEMMA PostEvents ==
  ASSUME NEW evs, EventTypes(evs), NEW add, EventTypes(add)
  PROVE  /\ EventTypes(evs \o add)
         /\ NoReply(evs) /\ NoReply(add) => NoReply(evs \o add)
         /\ NoReport(evs) /\ NoReport(add) => NoReport(evs \o add)
         /\ \A op : OneReport(evs, op) /\ NoReport(add) => OneReport(evs \o add, op)
         /\ \A op : NoReport(evs) /\ OneReport(add, op) => OneReport(evs \o add, op)
<1> DEFINE all == evs \o add
<1>1. /\ IsSeq(all) /\ Len(evs) \in Nat /\ Len(add) \in Nat /\ Len(all) = Len(evs) + Len(add)
      /\ \A i \in 1 .. Len(evs) : all[i] = evs[i]
      /\ \A i \in 1 .. Len(add) : all[Len(evs) + i] = add[i]
      /\ \A i \in 1 .. Len(all) : i \notin 1 .. Len(evs) =>
              i - Len(evs) \in 1 .. Len(add) /\ all[i] = add[i - Len(evs)]
  BY ConcatSeq DEF EventTypes
<1> HIDE DEF all
<1>2. EventTypes(all)
  BY <1>1 DEF EventTypes
<1>3. NoReply(evs) /\ NoReply(add) => NoReply(all)
  BY <1>1 DEF NoReply
<1>4. NoReport(evs) /\ NoReport(add) => NoReport(all)
  BY <1>1 DEF NoReport
<1>5. ASSUME NEW op, OneReport(evs, op), NoReport(add) PROVE OneReport(all, op)
  <2>1. PICK i \in 1 .. Len(evs) : /\ Report(evs[i]) /\ evs[i].op = op
                                   /\ \A j \in 1 .. Len(evs) : Report(evs[j]) => j = i
    BY <1>5 DEF OneReport
  <2>2. i \in 1 .. Len(all) /\ all[i] = evs[i]
    BY <1>1
  <2>3. \A j \in 1 .. Len(all) : Report(all[j]) => j = i
    BY <1>1, <1>5, <2>1 DEF NoReport
  <2> QED BY <2>1, <2>2, <2>3 DEF OneReport
<1>6. ASSUME NEW op, NoReport(evs), OneReport(add, op) PROVE OneReport(all, op)
  <2>1. PICK i \in 1 .. Len(add) : /\ Report(add[i]) /\ add[i].op = op
                                   /\ \A j \in 1 .. Len(add) : Report(add[j]) => j = i
    BY <1>6 DEF OneReport
  <2>2. Len(evs) + i \in 1 .. Len(all) /\ all[Len(evs) + i] = add[i]
    BY <1>1
  <2>3. \A j \in 1 .. Len(all) : Report(all[j]) => j = Len(evs) + i
    <3> TAKE j \in 1 .. Len(all)
    <3> HAVE Report(all[j])
    <3>1. j \notin 1 .. Len(evs)
      BY <1>1, <1>6 DEF NoReport
    <3>2. j - Len(evs) \in 1 .. Len(add) /\ all[j] = add[j - Len(evs)]
      BY <1>1, <3>1
    <3>3. j - Len(evs) = i
      BY <2>1, <3>2
    <3> QED BY <1>1, <3>3
  <2> QED BY <2>1, <2>2, <2>3 DEF OneReport
<1> QED BY <1>2, <1>3, <1>4, <1>5, <1>6 DEF all

\* The controller takes a command.
LEMMA TailOrders ==
  ASSUME NEW cs, CmdTypes(cs), cs # <<>>
  PROVE  /\ CmdTypes(Tail(cs)) /\ Head(cs).op \in Commands /\ Head(cs).ep \in Endpoints
         /\ Head(cs).ep = "int" => Head(cs).deq \in 0 .. N /\ Head(cs).dcs \in {0, 1}
         /\ NoOrder(cs) => NoOrder(Tail(cs)) /\ Head(cs).ep # "int"
         /\ \A op : OneOrder(cs, op) =>
              IF Head(cs).ep = "int" THEN Head(cs).op = op /\ NoOrder(Tail(cs))
                                     ELSE OneOrder(Tail(cs), op)
         /\ \A r : ToEnd(cs, r) =>
              /\ ToEnd(Tail(cs), r)
              /\ Head(cs).ep = "int" => Head(cs).deq = r.enq /\ Head(cs).dcs = r.cycle
<1>1. /\ IsSeq(Tail(cs)) /\ Len(cs) \in Nat \ {0} /\ Len(Tail(cs)) = Len(cs) - 1
      /\ Head(cs) = cs[1] /\ \A i \in 1 .. Len(Tail(cs)) : Tail(cs)[i] = cs[i + 1]
  BY TailSeq DEF CmdTypes
<1>2. 1 \in 1 .. Len(cs) /\ \A i \in 1 .. Len(Tail(cs)) : i + 1 \in 1 .. Len(cs) /\ i + 1 # 1
  BY <1>1
<1>3. /\ CmdTypes(Tail(cs)) /\ Head(cs).op \in Commands /\ Head(cs).ep \in Endpoints
      /\ Head(cs).ep = "int" => Head(cs).deq \in 0 .. N /\ Head(cs).dcs \in {0, 1}
  BY <1>1, <1>2 DEF CmdTypes
<1>4. NoOrder(cs) => NoOrder(Tail(cs)) /\ Head(cs).ep # "int"
  BY <1>1, <1>2 DEF NoOrder
<1>5. ASSUME NEW r, ToEnd(cs, r)
      PROVE  /\ ToEnd(Tail(cs), r)
             /\ Head(cs).ep = "int" => Head(cs).deq = r.enq /\ Head(cs).dcs = r.cycle
  BY <1>1, <1>2, <1>5 DEF ToEnd
<1>6. ASSUME NEW op, OneOrder(cs, op)
      PROVE  IF Head(cs).ep = "int" THEN Head(cs).op = op /\ NoOrder(Tail(cs))
                                    ELSE OneOrder(Tail(cs), op)
  <2>1. PICK i \in 1 .. Len(cs) : /\ cs[i].ep = "int" /\ cs[i].op = op
                                  /\ \A j \in 1 .. Len(cs) : cs[j].ep = "int" => j = i
    BY <1>6 DEF OneOrder
  <2>2. CASE Head(cs).ep = "int"
    <3>1. i = 1
      BY <1>1, <1>2, <2>1, <2>2
    <3>2. NoOrder(Tail(cs))
      BY <1>1, <1>2, <2>1, <3>1 DEF NoOrder
    <3> QED BY <1>1, <2>1, <2>2, <3>1, <3>2
  <2>3. CASE Head(cs).ep # "int"
    <3>1. i # 1
      BY <1>1, <2>1, <2>3
    <3>2. i - 1 \in 1 .. Len(Tail(cs)) /\ (i - 1) + 1 = i
      BY <1>1, <3>1
    <3>3. Tail(cs)[i - 1] = cs[i]
      BY <1>1, <3>2
    <3>4. \A j \in 1 .. Len(Tail(cs)) : Tail(cs)[j].ep = "int" => j = i - 1
      <4> TAKE j \in 1 .. Len(Tail(cs))
      <4> HAVE Tail(cs)[j].ep = "int"
      <4>1. j + 1 = i
        BY <1>1, <1>2, <2>1
      <4> QED BY <1>1, <4>1
    <3> QED BY <2>1, <2>3, <3>2, <3>3, <3>4 DEF OneOrder
  <2> QED BY <2>2, <2>3
<1> QED BY <1>3, <1>4, <1>5, <1>6

\* The driver gives a command.
LEMMA AppendOrders ==
  ASSUME NEW cs, CmdTypes(cs), NEW c, c.op \in Commands, c.ep \in Endpoints,
         c.ep = "int" => c.deq \in 0 .. N /\ c.dcs \in {0, 1}
  PROVE  /\ CmdTypes(Append(cs, c))
         /\ NoOrder(cs) /\ c.ep # "int" => NoOrder(Append(cs, c))
         /\ NoOrder(cs) /\ c.ep = "int" =>
              /\ OneOrder(Append(cs, c), c.op)
              /\ \A r : c.deq = r.enq /\ c.dcs = r.cycle => ToEnd(Append(cs, c), r)
<1> DEFINE R == {cs[i] : i \in 1 .. Len(cs)}
           all == Append(cs, c)
<1>1. cs \in Seq(R \union {c})
  <2>1. cs \in Seq(R)
    BY DEF CmdTypes, IsSeq
  <2> QED BY <2>1, SeqMonotonic
<1> HIDE DEF R
<1>2. /\ all \in Seq(R \union {c}) /\ Len(cs) \in Nat /\ Len(all) = Len(cs) + 1 /\ all[Len(cs) + 1] = c
      /\ \A i \in 1 .. Len(cs) : all[i] = cs[i]
  BY <1>1
<1> HIDE DEF all
<1>3. IsSeq(all)
  BY <1>2, SeqOfOwn
<1>4. \A i \in 1 .. Len(all) : i \in 1 .. Len(cs) \/ i = Len(cs) + 1
  BY <1>2
<1>5. CmdTypes(all)
  BY <1>2, <1>3, <1>4 DEF CmdTypes
<1>6. NoOrder(cs) /\ c.ep # "int" => NoOrder(all)
  BY <1>2, <1>4 DEF NoOrder
<1>7. ASSUME NoOrder(cs), c.ep = "int"
      PROVE  /\ OneOrder(all, c.op)
             /\ \A r : c.deq = r.enq /\ c.dcs = r.cycle => ToEnd(all, r)
  <2>1. Len(cs) + 1 \in 1 .. Len(all)
    BY <1>2
  <2>2. \A j \in 1 .. Len(all) : all[j].ep = "int" => j = Len(cs) + 1
    BY <1>2, <1>4, <1>7 DEF NoOrder
  <2>3. OneOrder(all, c.op)
    BY <1>2, <1>7, <2>1, <2>2 DEF OneOrder
  <2>4. ASSUME NEW r, c.deq = r.enq, c.dcs = r.cycle PROVE ToEnd(all, r)
    BY <1>2, <2>2, <2>4 DEF ToEnd
  <2> QED BY <2>3, <2>4
<1> QED BY <1>5, <1>6, <1>7 DEF all

-----------------------------------------------------------------------------
(***************************************************************************)
(* The stack                                                               *)
(***************************************************************************)
\* The frames are different from one another.
LEMMA FrameFacts ==
  /\ \A f \in PlainFrames :
       /\ f # <<"Rearm">> /\ f # <<"Deinit">>
       /\ \A op : f # <<op, "int">> /\ f # <<"Wait", op, "int">> /\ f # <<"WaitAbort", op, "int">>
  /\ \A f \in {<<"Fill">>, <<"WaitXfer">>, <<"Result">>} : f \in PlainFrames /\ f # <<"Interrupt">>
  /\ <<"Interrupt">> \in PlainFrames
  /\ \A op \in Commands :
       /\ {<<op, "bulk">>, <<"Wait", op, "bulk">>, <<"WaitAbort", op, "bulk">>} \subseteq PlainFrames
       /\ <<"Interrupt">> \notin {<<op, "bulk">>, <<"Wait", op, "bulk">>, <<"WaitAbort", op, "bulk">>}
<1>1. \A f \in PlainFrames : f # <<"Rearm">> /\ f # <<"Deinit">>
  BY DEF PlainFrames, Commands
<1>2. ASSUME NEW f \in PlainFrames, NEW op PROVE f # <<op, "int">>
  BY DEF PlainFrames
<1>3. ASSUME NEW f \in PlainFrames, NEW op PROVE f # <<"Wait", op, "int">>
  BY DEF PlainFrames
<1>4. ASSUME NEW f \in PlainFrames, NEW op PROVE f # <<"WaitAbort", op, "int">>
  BY DEF PlainFrames
<1>5. \A f \in {<<"Fill">>, <<"WaitXfer">>, <<"Result">>} : f \in PlainFrames /\ f # <<"Interrupt">>
  BY DEF PlainFrames
<1>6. <<"Interrupt">> \in PlainFrames
  BY DEF PlainFrames
<1>7. ASSUME NEW op \in Commands
      PROVE  /\ {<<op, "bulk">>, <<"Wait", op, "bulk">>, <<"WaitAbort", op, "bulk">>} \subseteq PlainFrames
             /\ <<"Interrupt">> \notin {<<op, "bulk">>, <<"Wait", op, "bulk">>, <<"WaitAbort", op, "bulk">>}
  BY DEF PlainFrames
<1> QED BY <1>1, <1>2, <1>3, <1>4, <1>5, <1>6, <1>7

LEMMA KeyboardFrames ==
  ASSUME NEW op \in Commands, NEW p \in Commands
  PROVE  /\ <<"Interrupt">> # <<"Rearm">> /\ <<"Interrupt">> # <<"Deinit">> /\ <<"Rearm">> # <<"Deinit">>
         /\ \A f \in {<<op, "int">>, <<"Wait", op, "int">>, <<"WaitAbort", op, "int">>} :
              f # <<"Interrupt">> /\ f # <<"Rearm">> /\ f # <<"Deinit">>
         /\ <<op, "int">> # <<"Wait", p, "int">> /\ <<op, "int">> # <<"WaitAbort", p, "int">>
         /\ <<"Wait", op, "int">> # <<"WaitAbort", p, "int">>
         /\ op # p => /\ <<op, "int">> # <<p, "int">> /\ <<"Wait", op, "int">> # <<"Wait", p, "int">>
                      /\ <<"WaitAbort", op, "int">> # <<"WaitAbort", p, "int">>
BY DEF Commands

\* Frames are pushed.
LEMMA PushFacts ==
  ASSUME NEW t, IsSeq(t), NEW a
  PROVE  /\ IsSeq(<<a>> \o t) /\ <<a>> \o t # <<>> /\ Head(<<a>> \o t) = a /\ Tail(<<a>> \o t) = t
         /\ <<>> \o t = t
<1> DEFINE R == {t[i] : i \in 1 .. Len(t)} \union {a}
           s == <<a>> \o t
<1>1. t \in Seq(R) /\ <<a>> \in Seq(R)
  <2>1. t \in Seq({t[i] : i \in 1 .. Len(t)})
    BY DEF IsSeq
  <2> QED BY <2>1, SeqMonotonic
<1> HIDE DEF R
<1>2. /\ s \in Seq(R) /\ Len(s) = Len(t) + 1 /\ Len(t) \in Nat
      /\ s[1] = a /\ \A i \in 1 .. Len(t) : s[i + 1] = t[i]
  <2>1. /\ s \in Seq(R) /\ Len(s) = 1 + Len(t) /\ Len(t) \in Nat
        /\ \A i \in 1 .. 1 + Len(t) : s[i] = IF i <= 1 THEN a ELSE t[i - 1]
    BY <1>1, ConcatProperties
  <2>2. \A i \in 1 .. Len(t) : i + 1 \in 1 .. 1 + Len(t) /\ ~(i + 1 <= 1) /\ (i + 1) - 1 = i
    BY <2>1
  <2>3. 1 \in 1 .. 1 + Len(t)
    BY <2>1
  <2> QED BY <2>1, <2>2, <2>3
<1> HIDE DEF s
<1>3. s # <<>> /\ Head(s) = a
  BY <1>2
<1>4. Tail(s) \in Seq(R) /\ Len(Tail(s)) = Len(t) /\ \A i \in 1 .. Len(t) : Tail(s)[i] = s[i + 1]
  BY <1>2, <1>3
<1>5. Tail(s) = t
  BY <1>1, <1>2, <1>4, SeqEqual
<1>6. IsSeq(s)
  BY <1>2, SeqOfOwn
<1>7. <<>> \o t = t
  BY <1>1, ConcatEmptySeq
<1> QED BY <1>3, <1>5, <1>6, <1>7 DEF s

LEMMA ConcatPair == ASSUME NEW a, NEW b PROVE <<a>> \o <<b>> = <<a, b>>
<1> DEFINE u == <<a>> \o <<b>>
           v == <<a, b>>
<1>1. /\ IsSeq(u) /\ Len(u) = 1 + 1 /\ u[1] = a /\ u[1 + 1] = b
  <2>1. /\ IsSeq(<<a>>) /\ IsSeq(<<b>>) /\ Len(<<a>>) = 1 /\ Len(<<b>>) = 1
        /\ <<a>>[1] = a /\ <<b>>[1] = b
    BY ShortSeq
  <2>2. 1 \in 1 .. 1
    OBVIOUS
  <2> QED BY <2>1, <2>2, ConcatSeq
<1>2. IsSeq(v) /\ Len(v) = 2 /\ v[1] = a /\ v[2] = b
  BY ShortSeq
<1> HIDE DEF u, v
<1>3. \A i \in 1 .. Len(u) : u[i] = v[i]
  BY <1>1, <1>2
<1>4. PICK P, Q : u \in Seq(P) /\ v \in Seq(Q)
  BY <1>1, <1>2 DEF IsSeq
<1>5. u \in Seq(P \union Q) /\ v \in Seq(P \union Q)
  BY <1>4, SeqMonotonic
<1>6. Len(u) = Len(v)
  BY <1>1, <1>2
<1>7. u = v
  BY <1>3, <1>5, <1>6, SeqEqual
<1> QED BY <1>7 DEF u, v

LEMMA PushTwo ==
  ASSUME NEW t, IsSeq(t), NEW a, NEW b PROVE <<a, b>> \o t = <<a>> \o (<<b>> \o t)
<1> DEFINE R == {t[i] : i \in 1 .. Len(t)} \union {a, b}
<1>1. t \in Seq(R) /\ <<a>> \in Seq(R) /\ <<b>> \in Seq(R)
  <2>1. t \in Seq({t[i] : i \in 1 .. Len(t)})
    BY DEF IsSeq
  <2> QED BY <2>1, SeqMonotonic
<1> HIDE DEF R
<1>2. <<a, b>> = <<a>> \o <<b>>
  BY ConcatPair
<1>3. (<<a>> \o <<b>>) \o t = <<a>> \o (<<b>> \o t)
  BY <1>1, ConcatAssociative
<1> QED BY <1>2, <1>3

\* What Goto does with the stack
LEMMA GotoFacts ==
  ASSUME IsSeq(stack), stack # <<>>
  PROVE  /\ IsSeq(Tail(stack))
         /\ Goto(<<>>) => stack' = Tail(stack)
         /\ \A a : Goto(<<a>>) =>
              IsSeq(stack') /\ Starts(stack', a) /\ Tail(stack') = Tail(stack)
         /\ \A a, b : Goto(<<a, b>>) =>
              /\ IsSeq(stack') /\ Starts(stack', a)
              /\ Starts(Tail(stack'), b) /\ Tail(Tail(stack')) = Tail(stack)
<1>1. IsSeq(Tail(stack))
  BY TailSeq
<1>2. Goto(<<>>) => stack' = Tail(stack)
  BY <1>1, PushFacts DEF Goto
<1>3. ASSUME NEW a, Goto(<<a>>)
      PROVE  IsSeq(stack') /\ Starts(stack', a) /\ Tail(stack') = Tail(stack)
  BY <1>1, <1>3, PushFacts DEF Goto, Starts
<1>4. ASSUME NEW a, NEW b, Goto(<<a, b>>)
      PROVE  /\ IsSeq(stack') /\ Starts(stack', a)
             /\ Starts(Tail(stack'), b) /\ Tail(Tail(stack')) = Tail(stack)
  <2> DEFINE u == <<b>> \o Tail(stack)
  <2>1. IsSeq(u) /\ u # <<>> /\ Head(u) = b /\ Tail(u) = Tail(stack)
    BY <1>1, PushFacts
  <2>2. stack' = <<a>> \o u
    BY <1>1, <1>4, PushTwo DEF Goto
  <2> HIDE DEF u
  <2>3. IsSeq(stack') /\ stack' # <<>> /\ Head(stack') = a /\ Tail(stack') = u
    BY <2>1, <2>2, PushFacts
  <2> QED BY <2>1, <2>3 DEF Starts
<1> QED BY <1>1, <1>2, <1>3, <1>4

\* Stacks without a frame of the keyboard
LEMMA PlainFacts ==
  ASSUME NEW s, Plain(s)
  PROVE  /\ IsSeq(s)
         /\ s # <<>> => Plain(Tail(s)) /\ Head(s) \in PlainFrames
         /\ \A q \in Seq(PlainFrames) : Plain(q \o s)
<1>1. IsSeq(s)
  BY SeqOfOwn DEF Plain
<1>2. s # <<>> => Plain(Tail(s)) /\ Head(s) \in PlainFrames
  BY DEF Plain
<1>3. \A q \in Seq(PlainFrames) : Plain(q \o s)
  BY ConcatProperties DEF Plain
<1> QED BY <1>1, <1>2, <1>3

-----------------------------------------------------------------------------
(***************************************************************************)
(* Steps that do not touch the keyboard                                    *)
(***************************************************************************)
\* The rest of the driver and the controller
Elsewhere ==
  /\ ring' = [e \in Endpoints |-> ring'[e]] /\ hw' = [e \in Endpoints |-> hw'[e]]
  /\ ring'["int"] = ring["int"] /\ hw'["int"] = hw["int"]
  /\ UNCHANGED <<polling, pending, processing>>

LEMMA OutsideStep ==
  ASSUME Inv, Elsewhere, stack' = stack, EventTypes(events'), CmdTypes(cmds'),
         NoReport(events) => NoReport(events'), NoReply(events) => NoReply(events'),
         polling => \A op : OneReport(events, op) => OneReport(events', op),
         NoOrder(cmds) => NoOrder(cmds'),
         \A op : OneOrder(cmds, op) => OneOrder(cmds', op),
         \A r : ToEnd(cmds, r) => ToEnd(cmds', r)
  PROVE  Inv'
<1>1. Types'
  BY DEF Inv, Types, Elsewhere
<1>2. CASE polling
  <2>1. Produced(ring'["int"])
    BY <1>2 DEF Inv, Elsewhere
  <2>2. CASE Quiet
    BY <1>1, <1>2, <2>1, <2>2 DEF Inv, Elsewhere, Quiet, Polled
  <2>3. CASE Recovering
    <3>1. NoReport(events') /\ pending' = 0
      BY <2>3 DEF Recovering, Elsewhere
    <3>2. ASSUME ResetStage(stack, hw["int"], events, cmds)
          PROVE  ResetStage(stack', hw'["int"], events', cmds')
      BY <3>2 DEF ResetStage, Elsewhere
    <3>3. ASSUME SetDeqStage(stack, ring["int"], hw["int"], events, cmds)
          PROVE  SetDeqStage(stack', ring'["int"], hw'["int"], events', cmds')
      BY <3>3 DEF SetDeqStage, Elsewhere
    <3>4. ASSUME RearmStage(stack, ring["int"], hw["int"], events, cmds)
          PROVE  RearmStage(stack', ring'["int"], hw'["int"], events', cmds')
      BY <3>4 DEF RearmStage, Elsewhere
    <3>5. Recovering'
      BY <2>3, <3>1, <3>2, <3>3, <3>4 DEF Recovering
    <3> QED BY <1>1, <1>2, <2>1, <3>5 DEF Inv, Elsewhere
  <2> QED BY <1>2, <2>2, <2>3 DEF Inv
<1>3. CASE ~polling
  <2>1. pending' = 0 /\ ~polling'
    BY <1>3 DEF Inv, Elsewhere
  <2>2. CASE Stopping
    <3>1. ASSUME FirstStage(stack, hw["int"], events, cmds)
          PROVE  FirstStage(stack', hw'["int"], events', cmds')
      BY <3>1 DEF FirstStage, Elsewhere
    <3>2. ASSUME SecondStage(stack, hw["int"], events, cmds)
          PROVE  SecondStage(stack', hw'["int"], events', cmds')
      BY <3>2 DEF SecondStage, Elsewhere
    <3>3. ASSUME LastStage(stack, hw["int"], cmds) PROVE LastStage(stack', hw'["int"], cmds')
      BY <3>3 DEF LastStage, Elsewhere
    <3>4. Stopping'
      BY <2>2, <3>1, <3>2, <3>3 DEF Stopping
    <3> QED BY <1>1, <2>1, <3>4 DEF Inv
  <2>3. CASE Absent
    BY <1>1, <2>1, <2>3 DEF Inv, Absent, Elsewhere
  <2> QED BY <1>3, <2>2, <2>3 DEF Inv
<1> QED BY <1>2, <1>3

\* Only XHCI_ProcessInterrupt is a step of the driver in both modes.
LEMMA KeyboardStack ==
  ASSUME Recovering \/ Stopping
  PROVE  /\ stack # <<>>
         /\ Head(stack) \in PlainFrames => Head(stack) = <<"Interrupt">>
<1>1. \A op : Starts(stack, <<op, "int">>) \/ Awaits(stack, op) =>
        stack # <<>> /\ Head(stack) \notin PlainFrames
  BY FrameFacts DEF Starts, Awaits
<1>2. Starts(stack, <<"Rearm">>) \/ FromDeinit(stack) => stack # <<>> /\ Head(stack) \notin PlainFrames
  BY FrameFacts DEF Starts, FromDeinit
<1>3. Interrupts(stack) => stack # <<>> /\ Head(stack) = <<"Interrupt">>
  BY DEF Interrupts, Starts
<1>4. CASE Recovering
  <2>1. ResetStage(stack, hw["int"], events, cmds) =>
          \/ Starts(stack, <<"Reset", "int">>) \/ Awaits(stack, "Reset") \/ Interrupts(stack)
    BY DEF ResetStage, FromReset, Aborting
  <2>2. SetDeqStage(stack, ring["int"], hw["int"], events, cmds) =>
          \/ Starts(stack, <<"SetDeq", "int">>) \/ Awaits(stack, "SetDeq") \/ Interrupts(stack)
    BY DEF SetDeqStage, FromSetDeq, Aborting
  <2>3. RearmStage(stack, ring["int"], hw["int"], events, cmds) =>
          Starts(stack, <<"Rearm">>) \/ Interrupts(stack)
    BY DEF RearmStage, FromRearm
  <2> QED BY <1>1, <1>2, <1>3, <1>4, <2>1, <2>2, <2>3 DEF Recovering
<1>5. CASE Stopping
  <2>1. FirstStage(stack, hw["int"], events, cmds) =>
          \/ Starts(stack, <<"Stop", "int">>) \/ Awaits(stack, "Stop") \/ Interrupts(stack)
    BY DEF FirstStage, FromFirst, Aborting
  <2>2. SecondStage(stack, hw["int"], events, cmds) =>
          \/ Starts(stack, <<"SetDeq", "int">>) \/ Awaits(stack, "SetDeq") \/ Interrupts(stack)
    BY DEF SecondStage, FromSecond, Aborting
  <2>3. LastStage(stack, hw["int"], cmds) =>
          Starts(stack, <<"Stop", "int">>) \/ FromDeinit(stack) \/ Interrupts(stack)
    BY DEF LastStage, FromStop
  <2> QED BY <1>1, <1>2, <1>3, <1>5, <2>1, <2>2, <2>3 DEF Stopping
<1> QED BY <1>4, <1>5

\* The driver works for the bulk endpoint.
LEMMA BulkStep ==
  ASSUME Inv, Elsewhere, stack = <<>> \/ Head(stack) \in PlainFrames \ {<<"Interrupt">>},
         Plain(stack) => Plain(stack'), events' = events, CmdTypes(cmds'),
         NoOrder(cmds) => NoOrder(cmds')
  PROVE  Inv'
<1>1. ~Recovering /\ ~Stopping
  BY KeyboardStack
<1>2. ASSUME Plain(stack') PROVE Types'
  BY <1>2, PlainFacts DEF Inv, Types, Elsewhere
<1>3. stack # << <<"Interrupt">> >>
  <2>1. << <<"Interrupt">> >> # <<>> /\ Head(<< <<"Interrupt">> >>) = <<"Interrupt">>
    OBVIOUS
  <2> QED BY <2>1
<1>4. CASE polling
  <2>1. Quiet /\ Produced(ring'["int"])
    BY <1>1, <1>4 DEF Inv, Elsewhere
  <2>2. ~(processing' /\ pending' > 0)
    BY <1>3, <2>1 DEF Quiet, Elsewhere
  <2>3. Quiet'
    BY <2>1, <2>2 DEF Quiet, Elsewhere, Polled
  <2>4. Types'
    BY <1>2, <2>1 DEF Quiet
  <2> QED BY <1>4, <2>1, <2>3, <2>4 DEF Inv, Elsewhere
<1>5. CASE ~polling
  <2>1. Absent /\ pending = 0
    BY <1>1, <1>5 DEF Inv
  <2>2. Absent'
    BY <1>3, <2>1 DEF Absent, Elsewhere
  <2>3. Types'
    BY <1>2, <2>1 DEF Absent
  <2> QED BY <1>5, <2>1, <2>2, <2>3 DEF Inv, Elsewhere
<1> QED BY <1>4, <1>5

\* The controller works for the bulk endpoint.
LEMMA BulkEvent ==
  ASSUME Inv, Elsewhere, stack' = stack, cmds' = cmds,
         NEW add, EventTypes(add), NoReport(add), NoReply(add), events' = events \o add
  PROVE  Inv'
<1>1. EventTypes(events) /\ CmdTypes(cmds)
  BY DEF Inv, Types
<1>2. /\ EventTypes(events')
      /\ NoReply(events) => NoReply(events')
      /\ NoReport(events) => NoReport(events')
      /\ \A op : OneReport(events, op) => OneReport(events', op)
  BY <1>1, PostEvents
<1> QED BY <1>1, <1>2, OutsideStep

\* Short sequences of events
LEMMA OneEvent ==
  ASSUME NEW v, v.type \in {"xfer", "cmd"}, v.ep \in Endpoints
  PROVE  /\ EventTypes(<<v>>)
         /\ NoReport(<<v>>) <=> ~Report(v)
         /\ Report(v) => OneReport(<<v>>, v.op)
         /\ NoReply(<<v>>) <=> ~(v.type = "cmd" /\ v.ep = "int")
<1>1. IsSeq(<<v>>) /\ Len(<<v>>) = 1 /\ <<v>>[1] = v
  BY ShortSeq
<1>2. \A i \in 1 .. 1 : i = 1
  OBVIOUS
<1>3. 1 \in 1 .. 1
  OBVIOUS
<1>4. EventTypes(<<v>>)
  BY <1>1, <1>2 DEF EventTypes
<1>5. NoReport(<<v>>) <=> ~Report(v)
  BY <1>1, <1>2, <1>3 DEF NoReport
<1>6. Report(v) => OneReport(<<v>>, v.op)
  BY <1>1, <1>2, <1>3 DEF OneReport
<1>7. NoReply(<<v>>) <=> ~(v.type = "cmd" /\ v.ep = "int")
  BY <1>1, <1>2, <1>3 DEF NoReply
<1> QED BY <1>4, <1>5, <1>6, <1>7

LEMMA NoEvent == EventTypes(<<>>) /\ NoReport(<<>>) /\ NoReply(<<>>)
<1>1. IsSeq(<<>>) /\ Len(<<>>) = 0
  BY ShortSeq
<1> QED BY <1>1 DEF EventTypes, NoReport, NoReply

LEMMA TwoEvents ==
  ASSUME NEW v, NEW w, v.type \in {"xfer", "cmd"}, v.ep \in Endpoints,
         w.type \in {"xfer", "cmd"}, w.ep \in Endpoints
  PROVE  /\ EventTypes(<<v, w>>)
         /\ NoReport(<<v, w>>) <=> ~Report(v) /\ ~Report(w)
         /\ NoReply(<<v, w>>) <=> ~(v.type = "cmd" /\ v.ep = "int") /\ ~(w.type = "cmd" /\ w.ep = "int")
<1>1. IsSeq(<<v, w>>) /\ Len(<<v, w>>) = 2 /\ <<v, w>>[1] = v /\ <<v, w>>[2] = w
  BY ShortSeq
<1>2. \A i \in 1 .. 2 : i = 1 \/ i = 2
  OBVIOUS
<1>3. 1 \in 1 .. 2 /\ 2 \in 1 .. 2
  OBVIOUS
<1>4. EventTypes(<<v, w>>)
  BY <1>1, <1>2 DEF EventTypes
<1>5. NoReport(<<v, w>>) <=> ~Report(v) /\ ~Report(w)
  BY <1>1, <1>2, <1>3 DEF NoReport
<1>6. NoReply(<<v, w>>) <=> ~(v.type = "cmd" /\ v.ep = "int") /\ ~(w.type = "cmd" /\ w.ep = "int")
  BY <1>1, <1>2, <1>3 DEF NoReply
<1> QED BY <1>4, <1>5, <1>6

\* Events of the controller
LEMMA EventFacts ==
  /\ \A e \in Endpoints : \A code, residual :
       /\ XferEvt(e, code, residual).type = "xfer" /\ XferEvt(e, code, residual).ep = e
       /\ XferEvt(e, code, residual).op = code
  /\ \A c : CmdEvt(c).type = "cmd" /\ CmdEvt(c).ep = c.ep /\ CmdEvt(c).op = c.op
BY DEF XferEvt, CmdEvt

LEMMA BulkController ==
  ASSUME Inv,
         \/ HwLink("bulk") \/ HwRetire("bulk")
         \/ \E code \in {"stall", "error"} : HwHalt("bulk", code)
         \/ \E residual \in 0 .. TdMax : HwTransfer("bulk", residual)
  PROVE  Inv'
<1>1. /\ ring = [e \in Endpoints |-> ring[e]] /\ hw = [e \in Endpoints |-> hw[e]]
      /\ "bulk" \in Endpoints /\ EventTypes(events)
  BY DEF Inv, Types, Endpoints
<1>2. /\ EventTypes(<<>>) /\ NoReport(<<>>) /\ NoReply(<<>>) /\ events = events \o <<>>
      /\ \A code, residual : LET s == <<XferEvt("bulk", code, residual)>> IN
           EventTypes(s) /\ NoReport(s) /\ NoReply(s)
  <2>1. events = events \o <<>>
    <3>1. events \in Seq({events[i] : i \in 1 .. Len(events)})
      BY <1>1 DEF EventTypes, IsSeq
    <3> QED BY <3>1, ConcatEmptySeq
  <2>2. ASSUME NEW code, NEW residual
        PROVE  LET s == <<XferEvt("bulk", code, residual)>> IN
                 EventTypes(s) /\ NoReport(s) /\ NoReply(s)
    <3> DEFINE v == XferEvt("bulk", code, residual)
    <3>1. v.type = "xfer" /\ v.ep = "bulk"
      BY <1>1, EventFacts
    <3> HIDE DEF v
    <3>2. EventTypes(<<v>>) /\ NoReport(<<v>>) /\ NoReply(<<v>>)
      BY <1>1, <3>1, OneEvent DEF Report
    <3> QED BY <3>2 DEF v
  <2> QED BY <2>1, <2>2, NoEvent
<1>3. CASE HwLink("bulk")
  <2>0. hw' = [e \in Endpoints |-> hw'[e]] /\ hw'["int"] = hw["int"]
    BY <1>1, <1>3 DEF HwLink, Endpoints
  <2>1. Elsewhere /\ stack' = stack /\ cmds' = cmds /\ events' = events
    BY <1>1, <1>3, <2>0 DEF HwLink, Elsewhere
  <2> QED BY <1>2, <2>1, BulkEvent
<1>4. CASE HwRetire("bulk")
  <2>0. hw' = [e \in Endpoints |-> hw'[e]] /\ hw'["int"] = hw["int"]
    BY <1>1, <1>4 DEF HwRetire, Endpoints
  <2>1. Elsewhere /\ stack' = stack /\ cmds' = cmds
    BY <1>1, <1>4, <2>0 DEF HwRetire, Elsewhere
  <2>2. \/ events' = events \o <<>>
        \/ \E residual : events' = events \o <<XferEvt("bulk", "short", residual)>>
    BY <1>4 DEF HwRetire, Post
  <2> QED BY <1>2, <2>1, <2>2, BulkEvent
<1>5. ASSUME NEW code \in {"stall", "error"}, HwHalt("bulk", code) PROVE Inv'
  <2>1. Elsewhere /\ stack' = stack /\ cmds' = cmds
    BY <1>1, <1>5 DEF HwHalt, Elsewhere
  <2>2. \E residual : events' = events \o <<XferEvt("bulk", code, residual)>>
    BY <1>5 DEF HwHalt, Post
  <2> QED BY <1>2, <2>1, <2>2, BulkEvent
<1>6. ASSUME NEW residual \in 0 .. TdMax, HwTransfer("bulk", residual) PROVE Inv'
  <2>0. hw' = [e \in Endpoints |-> hw'[e]] /\ hw'["int"] = hw["int"]
    BY <1>1, <1>6 DEF HwTransfer, Endpoints
  <2>1. Elsewhere /\ stack' = stack /\ cmds' = cmds
    BY <1>1, <1>6, <2>0 DEF HwTransfer, Elsewhere
  <2>2. \/ events' = events \o <<>>
        \/ \E code, left : events' = events \o <<XferEvt("bulk", code, left)>>
    BY <1>6 DEF HwTransfer, Post
  <2> QED BY <1>2, <2>1, <2>2, BulkEvent
<1> QED BY <1>3, <1>4, <1>5, <1>6

LEMMA BulkCommand ==
  ASSUME Inv, HwCommand, Head(cmds).ep # "int"
  PROVE  Inv'
<1> DEFINE c == Head(cmds)
<1>1. /\ hw = [e \in Endpoints |-> hw[e]] /\ ring = [e \in Endpoints |-> ring[e]]
      /\ EventTypes(events) /\ CmdTypes(cmds) /\ cmds # <<>>
  BY DEF Inv, Types, HwCommand
<1>2. /\ CmdTypes(Tail(cmds)) /\ c.ep \in Endpoints
      /\ NoOrder(cmds) => NoOrder(Tail(cmds))
      /\ \A op : OneOrder(cmds, op) => OneOrder(Tail(cmds), op)
      /\ \A r : ToEnd(cmds, r) => ToEnd(Tail(cmds), r)
  BY <1>1, TailOrders
<1>3. c.ep = "bulk"
  BY <1>2 DEF Endpoints
<1>4. /\ stack' = stack /\ cmds' = Tail(cmds) /\ ring' = ring
      /\ UNCHANGED <<polling, pending, processing>>
  BY DEF HwCommand
<1>5. /\ \/ hw' = [hw EXCEPT ![c.ep].state = "Stopped"]
         \/ hw' = [hw EXCEPT ![c.ep].deq = c.deq, ![c.ep].dcs = c.dcs, ![c.ep].skip = FALSE]
         \/ hw' = hw
      /\ \/ events' = events \o <<CmdEvt(c)>>
         \/ events' = events \o <<XferEvt(c.ep, "stopped", 0), CmdEvt(c)>>
  BY DEF HwCommand, Post
<1> HIDE DEF c
<1>6. hw' = [e \in Endpoints |-> hw'[e]] /\ hw'["int"] = hw["int"]
  BY <1>1, <1>3, <1>5 DEF Endpoints
<1>7. Elsewhere
  BY <1>1, <1>4, <1>6 DEF Elsewhere
<1>8. PICK add : events' = events \o add /\ EventTypes(add) /\ NoReport(add) /\ NoReply(add)
  <2> DEFINE v == XferEvt(c.ep, "stopped", 0)
             w == CmdEvt(c)
  <2>1. v.type = "xfer" /\ v.ep = "bulk" /\ w.type = "cmd" /\ w.ep = "bulk"
    BY <1>2, <1>3, EventFacts
  <2>2. events' = events \o <<w>> \/ events' = events \o <<v, w>>
    BY <1>5
  <2> HIDE DEF v, w
  <2>3. EventTypes(<<w>>) /\ NoReport(<<w>>) /\ NoReply(<<w>>)
    BY <1>2, <1>3, <2>1, OneEvent DEF Report
  <2>4. EventTypes(<<v, w>>) /\ NoReport(<<v, w>>) /\ NoReply(<<v, w>>)
    BY <1>2, <1>3, <2>1, TwoEvents DEF Report
  <2> QED BY <2>2, <2>3, <2>4
<1>9. /\ EventTypes(events')
      /\ NoReply(events) => NoReply(events')
      /\ NoReport(events) => NoReport(events')
      /\ \A op : OneReport(events, op) => OneReport(events', op)
  BY <1>1, <1>8, PostEvents
<1> QED BY <1>2, <1>4, <1>7, <1>9, OutsideStep

\* The driver's steps for the bulk endpoint
LEMMA BulkGoto ==
  ASSUME NEW s, Goto(s), s \in Seq(PlainFrames), stack # <<>>, Plain(stack)
  PROVE  Plain(stack')
BY PlainFacts DEF Goto

LEMMA BulkFrames ==
  /\ <<>> \in Seq(PlainFrames)
  /\ \A f \in PlainFrames : <<f>> \in Seq(PlainFrames)
  /\ \A f \in PlainFrames, g \in PlainFrames :
       <<f, g>> \in Seq(PlainFrames) /\ <<f>> \o <<g>> \in Seq(PlainFrames)
OBVIOUS

LEMMA BulkCommands ==
  ASSUME Inv, NEW op \in Commands,
         \/ Command(op, "bulk") \/ CommandDone(op, "bulk")
         \/ CommandTimeout(op, "bulk") \/ AbortTimeout(op, "bulk")
  PROVE  Inv'
<1>1. /\ ring = [e \in Endpoints |-> ring[e]] /\ hw = [e \in Endpoints |-> hw[e]]
      /\ CmdTypes(cmds)
  BY DEF Inv, Types
<1>2. /\ {<<op, "bulk">>, <<"Wait", op, "bulk">>, <<"WaitAbort", op, "bulk">>} \subseteq PlainFrames
      /\ <<"Interrupt">> \notin {<<op, "bulk">>, <<"Wait", op, "bulk">>, <<"WaitAbort", op, "bulk">>}
      /\ <<"Interrupt">> \in PlainFrames
  BY FrameFacts
<1>3. CASE Command(op, "bulk")
  <2> DEFINE c == [op |-> op, ep |-> "bulk", deq |-> ring["bulk"].enq, dcs |-> ring["bulk"].cycle]
  <2>1. stack # <<>> /\ Head(stack) \in PlainFrames \ {<<"Interrupt">>}
    BY <1>2, <1>3 DEF Command, At
  <2>2. Elsewhere /\ events' = events
    BY <1>1, <1>3 DEF Command, Elsewhere
  <2>3. PICK s \in Seq(PlainFrames) : Goto(s)
    BY <1>2, <1>3, BulkFrames DEF Command
  <2>4. Plain(stack) => Plain(stack')
    BY <2>1, <2>3, BulkGoto
  <2>5. cmds' = cmds \/ cmds' = Append(cmds, c)
    BY <1>3 DEF Command
  <2>6. c.op \in Commands /\ c.ep = "bulk" /\ "bulk" \in Endpoints
    BY DEF Endpoints
  <2> HIDE DEF c
  <2>7. CmdTypes(cmds') /\ (NoOrder(cmds) => NoOrder(cmds'))
    BY <1>1, <2>5, <2>6, AppendOrders
  <2> QED BY <2>1, <2>2, <2>4, <2>7, BulkStep
<1>4. CASE CommandDone(op, "bulk") \/ CommandTimeout(op, "bulk") \/ AbortTimeout(op, "bulk")
  <2>1. stack # <<>> /\ Head(stack) \in PlainFrames \ {<<"Interrupt">>}
    BY <1>2, <1>4 DEF CommandDone, CommandTimeout, AbortTimeout, At
  <2>2. Elsewhere /\ events' = events /\ cmds' = cmds
    BY <1>1, <1>4 DEF CommandDone, CommandTimeout, AbortTimeout, Elsewhere
  <2>3. PICK s \in Seq(PlainFrames) : Goto(s)
    BY <1>2, <1>4, BulkFrames DEF CommandDone, CommandTimeout, AbortTimeout, ProcessInterrupt
  <2>4. Plain(stack) => Plain(stack')
    BY <2>1, <2>3, BulkGoto
  <2> QED BY <1>1, <2>1, <2>2, <2>4, BulkStep
<1> QED BY <1>3, <1>4

LEMMA BulkDriver ==
  ASSUME Inv, FillTrb \/ RingDoorbell \/ XferDone \/ XferTimeout \/ XferResult
  PROVE  Inv'
<1>1. /\ ring = [e \in Endpoints |-> ring[e]] /\ hw = [e \in Endpoints |-> hw[e]]
      /\ CmdTypes(cmds)
  BY DEF Inv, Types
<1>2. /\ \A f \in {<<"Fill">>, <<"WaitXfer">>, <<"Result">>} : f \in PlainFrames /\ f # <<"Interrupt">>
      /\ <<"Interrupt">> \in PlainFrames
      /\ \A op \in Commands : <<op, "bulk">> \in PlainFrames
  BY FrameFacts
<1>3. stack # <<>> /\ Head(stack) \in PlainFrames \ {<<"Interrupt">>}
  BY <1>2 DEF FillTrb, RingDoorbell, XferDone, XferTimeout, XferResult, At
<1>4. /\ events' = events /\ cmds' = cmds
      /\ UNCHANGED <<polling, pending, processing>>
  BY DEF FillTrb, RingDoorbell, XferDone, XferTimeout, XferResult
<1>5. ring' = [e \in Endpoints |-> ring'[e]] /\ ring'["int"] = ring["int"]
  <2>1. CASE FillTrb
    BY <1>1, <2>1 DEF FillTrb, Endpoints
  <2>2. CASE RingDoorbell
    <3>1. PICK x, y : ring' = [ring EXCEPT !["bulk"] = x, !["bulk"] = y]
      BY <2>2, Zenon DEF RingDoorbell
    <3> QED BY <1>1, <3>1 DEF Endpoints
  <2>3. CASE XferDone
    BY <1>1, <2>3 DEF XferDone, Endpoints
  <2>4. CASE XferTimeout
    BY <1>1, <2>4 DEF XferTimeout, Endpoints
  <2>5. CASE XferResult
    BY <1>1, <2>5 DEF XferResult, Endpoints
  <2> QED BY <2>1, <2>2, <2>3, <2>4, <2>5
<1>6. hw' = [e \in Endpoints |-> hw'[e]] /\ hw'["int"] = hw["int"]
  <2>1. CASE RingDoorbell
    BY <1>1, <2>1 DEF RingDoorbell, Endpoints
  <2>2. CASE FillTrb \/ XferDone \/ XferTimeout \/ XferResult
    BY <1>1, <2>2 DEF FillTrb, XferDone, XferTimeout, XferResult
  <2> QED BY <2>1, <2>2
<1>7. stack' = stack \/ \E s \in Seq(PlainFrames) : Goto(s)
  <2>1. CASE FillTrb
    BY <2>1 DEF FillTrb
  <2>2. CASE RingDoorbell
    BY <1>2, <2>2, BulkFrames DEF RingDoorbell
  <2>3. CASE XferDone \/ XferTimeout
    BY <1>2, <2>3, BulkFrames DEF XferDone, XferTimeout, ProcessInterrupt
  <2>4. CASE XferResult
    <3>1. /\ << <<"Fill">> >> \in Seq(PlainFrames) /\ <<>> \in Seq(PlainFrames)
          /\ << <<"Reset", "bulk">> >> \in Seq(PlainFrames)
          /\ ClearStalledEp("bulk") \in Seq(PlainFrames) /\ ClearEndpointState("bulk") \in Seq(PlainFrames)
      BY <1>2, BulkFrames DEF ClearStalledEp, ClearEndpointState, Commands
    <3> QED BY <2>4, <3>1 DEF XferResult
  <2> QED BY <2>1, <2>2, <2>3, <2>4
<1>8. Plain(stack) => Plain(stack')
  BY <1>3, <1>7, BulkGoto
<1>9. Elsewhere
  BY <1>4, <1>5, <1>6 DEF Elsewhere
<1> QED BY <1>1, <1>3, <1>4, <1>8, <1>9, BulkStep

-----------------------------------------------------------------------------
(***************************************************************************)
(* The controller works for the keyboard                                   *)
(***************************************************************************)
\* It only does so for a poll, or while the endpoint is about to be stopped.
LEMMA RunningFacts ==
  ASSUME Inv, hw["int"].state = "Running"
  PROVE  /\ polling => Quiet
         /\ ~polling => FirstStage(stack, hw["int"], events, cmds)
<1>1. ~Recovering
  BY DEF Recovering, ResetStage, SetDeqStage, RearmStage
<1>2. Stopping => FirstStage(stack, hw["int"], events, cmds)
  BY DEF Stopping, SecondStage, LastStage
<1>3. ~Absent
  BY DEF Absent
<1> QED BY <1>1, <1>2, <1>3 DEF Inv

LEMMA KeyboardWork ==
  ASSUME Inv, Working("int"), ring' = ring, stack' = stack, cmds' = cmds,
         UNCHANGED <<polling, pending, processing>>,
         hw' = [e \in Endpoints |-> hw'[e]], hw'["int"] \in ContextType,
         NEW add, events' = events \o add, EventTypes(add), NoReply(add),
         polling /\ Armed(ring["int"], hw["int"]) =>
           \/ hw'["int"].state = "Running" /\ Armed(ring["int"], hw'["int"]) /\ NoReport(add)
           \/ hw'["int"].state = "Running" /\ Caught(ring["int"], hw'["int"]) /\ OneReport(add, "success")
           \/ hw'["int"].state = "Halted" /\ OneReport(add, "stall")
  PROVE  Inv'
<1>1. hw["int"].state = "Running" /\ Executable("int") /\ Types
  BY DEF Working, Inv
<1>2. /\ EventTypes(events')
      /\ NoReply(events) => NoReply(events')
      /\ NoReport(events) /\ NoReport(add) => NoReport(events')
      /\ \A op : NoReport(events) /\ OneReport(add, op) => OneReport(events', op)
  BY <1>1, PostEvents DEF Types
<1>3. Types'
  BY <1>1, <1>2 DEF Types
<1>4. CASE polling
  <2>1. Quiet /\ Produced(ring["int"])
    BY <1>1, <1>4, RunningFacts DEF Inv
  <2>2. ~Caught(ring["int"], hw["int"])
    BY <1>1, <2>1, WorkFacts
  <2>3. Armed(ring["int"], hw["int"]) /\ NoReport(events) /\ pending = 0
    BY <1>1, <2>1, <2>2 DEF Quiet, Polled
  <2>4. Polled(ring["int"], hw["int"], events)'
    BY <1>2, <1>4, <2>3 DEF Polled
  <2>5. Quiet'
    BY <1>2, <2>1, <2>3, <2>4 DEF Quiet
  <2> QED BY <1>3, <1>4, <2>1, <2>5 DEF Inv
<1>5. CASE ~polling
  <2>1. FirstStage(stack, hw["int"], events, cmds) /\ pending = 0
    BY <1>1, <1>5, RunningFacts DEF Inv
  <2>2. FirstStage(stack', hw'["int"], events', cmds')
    BY <1>1, <1>2, <2>1 DEF FirstStage
  <2> QED BY <1>3, <1>5, <2>1, <2>2 DEF Inv, Stopping
<1> QED BY <1>4, <1>5

LEMMA KeyboardController ==
  ASSUME Inv, HwLink("int") \/ HwRetire("int") \/ HwTransfer("int", 0) \/ HwHalt("int", "stall")
  PROVE  Inv'
<1> DEFINE r == ring["int"]
           h == hw["int"]
<1>1. /\ hw = [e \in Endpoints |-> hw[e]] /\ r \in RingType /\ h \in ContextType
      /\ "int" \in Endpoints /\ EventTypes(events)
  BY DEF Inv, Types, Endpoints
<1>2. /\ N \in Nat \ {0} /\ Slots("int") = 0 .. N - 1 /\ r.enq \in 0 .. N /\ r.cycle \in {0, 1}
      /\ h.deq \in 0 .. N /\ h.dcs \in {0, 1} /\ h.skip = FALSE
      /\ h.state \in {"Running", "Stopped", "Halted", "Disabled"} /\ N = Size["int"]
  BY <1>1, SizeFacts, RingFields DEF ContextType, N
<1>3. Working("int") /\ h.state = "Running"
  BY DEF HwLink, HwRetire, HwTransfer, HwHalt, Working
<1>4. ASSUME polling, Armed(r, h)
      PROVE  /\ h.deq < N => h.deq = r.enq - 1 /\ h.dcs = r.cycle /\ r.trb[h.deq].ioc
             /\ h.deq = N => r.enq = 1 /\ h.dcs = 1 - r.cycle
  BY <1>3, <1>4, WorkFacts DEF Inv
<1>5. /\ ring' = ring /\ stack' = stack /\ cmds' = cmds
      /\ UNCHANGED <<polling, pending, processing>>
  BY DEF HwLink, HwRetire, HwTransfer, HwHalt
<1>6. ASSUME NEW code, NEW residual
      PROVE  LET s == <<XferEvt("int", code, residual)>> IN
               EventTypes(s) /\ OneReport(s, code) /\ NoReply(s)
  <2> DEFINE v == XferEvt("int", code, residual)
  <2>1. v.type = "xfer" /\ v.ep = "int" /\ v.op = code
    BY <1>1, EventFacts
  <2> HIDE DEF v
  <2>2. EventTypes(<<v>>) /\ OneReport(<<v>>, code) /\ NoReply(<<v>>)
    BY <1>1, <2>1, OneEvent DEF Report
  <2> QED BY <2>2 DEF v
<1>7. EventTypes(<<>>) /\ NoReport(<<>>) /\ NoReply(<<>>) /\ events = events \o <<>>
  <2>1. events \in Seq({events[i] : i \in 1 .. Len(events)})
    BY <1>1 DEF EventTypes, IsSeq
  <2> QED BY <2>1, ConcatEmptySeq, NoEvent
<1>8. CASE HwLink("int")
  <2>1. h.deq = N /\ events' = events
    BY <1>2, <1>8 DEF HwLink
  <2>2. hw' = [e \in Endpoints |-> hw'[e]]
    BY <1>1, <1>8 DEF HwLink, Endpoints
  <2>3. /\ hw'["int"].state = "Running" /\ hw'["int"].deq = 0 /\ hw'["int"].dcs = 1 - h.dcs
        /\ hw'["int"] \in ContextType
    <3> DEFINE k == h.skip /\ r.link.chain
    <3>1. hw'["int"] = [h EXCEPT !.deq = 0, !.dcs = 1 - h.dcs, !.skip = k]
      BY <1>1, <1>8 DEF HwLink, Endpoints
    <3>2. k = FALSE
      BY <1>2
    <3> HIDE DEF h, r, k
    <3>3. 0 \in 0 .. N /\ 1 - h.dcs \in {0, 1}
      BY <1>2
    <3>4. hw'["int"] = [h EXCEPT !.deq = 0, !.dcs = 1 - h.dcs, !.skip = FALSE]
      BY <3>1, <3>2, Zenon
    <3> DEFINE g == [h EXCEPT !.deq = 0, !.dcs = 1 - h.dcs, !.skip = FALSE]
    <3>5. g \in ContextType /\ g.state = h.state /\ g.deq = 0 /\ g.dcs = 1 - h.dcs
      BY <1>1, <3>3 DEF ContextType
    <3>6. hw'["int"] = g
      BY <3>4
    <3> HIDE DEF g
    <3> QED BY <1>3, <3>5, <3>6
  <2> HIDE DEF r, h
  <2>4. polling /\ Armed(r, h) => Armed(r, hw'["int"])
    BY <1>2, <1>4, <2>1, <2>3 DEF Armed
  <2> QED BY <1>3, <1>5, <1>7, <2>1, <2>2, <2>3, <2>4, KeyboardWork DEF r, h
<1>9. CASE HwRetire("int")
  BY <1>2, <1>9 DEF HwRetire
<1>10. CASE HwTransfer("int", 0)
  <2>1. h.deq < N
    BY <1>2, <1>10 DEF HwTransfer
  <2>2. hw' = [e \in Endpoints |-> hw'[e]]
    BY <1>1, <1>10 DEF HwTransfer, Endpoints
  <2>3. /\ hw'["int"].state = "Running" /\ hw'["int"].deq = h.deq + 1 /\ hw'["int"].dcs = h.dcs
        /\ hw'["int"] \in ContextType
    <3> DEFINE k == 0 > 0 /\ r.trb[h.deq].chain
    <3>1. hw'["int"] = [h EXCEPT !.deq = h.deq + 1, !.skip = k]
      BY <1>1, <1>10 DEF HwTransfer, Endpoints
    <3>2. k = FALSE
      OBVIOUS
    <3> HIDE DEF h, r, k
    <3>3. h.deq + 1 \in 0 .. N
      BY <1>2, <2>1
    <3>4. hw'["int"] = [h EXCEPT !.deq = h.deq + 1, !.skip = FALSE]
      BY <3>1, <3>2, Zenon
    <3> DEFINE g == [h EXCEPT !.deq = h.deq + 1, !.skip = FALSE]
    <3>5. g \in ContextType /\ g.state = h.state /\ g.deq = h.deq + 1 /\ g.dcs = h.dcs
      BY <1>1, <1>2, <3>3 DEF ContextType
    <3>6. hw'["int"] = g
      BY <3>4
    <3> HIDE DEF g
    <3> QED BY <1>3, <3>5, <3>6
  <2>4. IF r.trb[h.deq].ioc THEN events' = events \o <<XferEvt("int", "success", 0)>>
                            ELSE events' = events \o <<>>
    <3>1. events' = events \o (IF 0 > 0 THEN <<XferEvt("int", "short", 0)>>
            ELSE IF r.trb[h.deq].ioc THEN <<XferEvt("int", "success", 0)>> ELSE <<>>)
      BY <1>10, Zenon DEF HwTransfer, Post
    <3>2. ~(0 > 0)
      OBVIOUS
    <3> QED BY <3>1, <3>2, Zenon
  <2> HIDE DEF r, h
  <2>5. polling /\ Armed(r, h) => Caught(r, hw'["int"]) /\ r.trb[h.deq].ioc
    BY <1>2, <1>4, <2>1, <2>3 DEF Caught
  <2>6. CASE r.trb[h.deq].ioc
    BY <1>3, <1>5, <1>6, <2>2, <2>3, <2>4, <2>5, <2>6, KeyboardWork DEF r, h
  <2>7. CASE ~r.trb[h.deq].ioc
    BY <1>3, <1>5, <1>7, <2>2, <2>3, <2>4, <2>5, <2>7, KeyboardWork DEF r, h
  <2> QED BY <2>6, <2>7
<1>11. CASE HwHalt("int", "stall")
  <2>1. hw' = [e \in Endpoints |-> hw'[e]]
    BY <1>1, <1>11 DEF HwHalt, Endpoints
  <2>2. hw'["int"].state = "Halted" /\ hw'["int"] \in ContextType
    BY <1>1, <1>2, <1>11 DEF HwHalt, ContextType
  <2>3. \E residual : events' = events \o <<XferEvt("int", "stall", residual)>>
    BY <1>11 DEF HwHalt, Post
  <2> QED BY <1>3, <1>5, <1>6, <2>1, <2>2, <2>3, KeyboardWork
<1> QED BY <1>8, <1>9, <1>10, <1>11

\* The controller carries out a command for the keyboard's endpoint.
LEMMA KeyboardCommand ==
  ASSUME Inv, Premise, HwCommand, Head(cmds).ep = "int"
  PROVE  Inv'
<1> DEFINE c == Head(cmds)
           r == ring["int"]
           h == hw["int"]
           g == hw'["int"]
<1>1. /\ hw = [e \in Endpoints |-> hw[e]] /\ h \in ContextType /\ r \in RingType
      /\ EventTypes(events) /\ CmdTypes(cmds) /\ cmds # <<>> /\ "int" \in Endpoints
  BY DEF Inv, Types, HwCommand, Endpoints
<1>2. /\ CmdTypes(Tail(cmds)) /\ c.op \in Commands /\ c.ep = "int"
      /\ c.deq \in 0 .. N /\ c.dcs \in {0, 1} /\ ~NoOrder(cmds)
      /\ \A op : OneOrder(cmds, op) => c.op = op /\ NoOrder(Tail(cmds))
      /\ ToEnd(cmds, r) => c.deq = r.enq /\ c.dcs = r.cycle
  BY <1>1, TailOrders
<1>3. /\ stack' = stack /\ cmds' = Tail(cmds) /\ ring' = ring
      /\ UNCHANGED <<polling, pending, processing>>
  BY DEF HwCommand
<1>4. ~Cancelled(c)
  BY <1>2 DEF Cancelled, Premise
<1>5. Fits(c) <=> h.state = StateFor[c.op]
  BY <1>2 DEF Fits
<1>6. \/ /\ h.state = "Running" /\ c.op = "Stop"
         /\ hw' = [hw EXCEPT !["int"].state = "Stopped"]
      \/ /\ h.state = "Halted" /\ c.op = "Reset"
         /\ hw' = [hw EXCEPT !["int"].state = "Stopped"]
      \/ /\ h.state = "Stopped" /\ c.op = "SetDeq"
         /\ hw' = [hw EXCEPT !["int"].deq = c.deq, !["int"].dcs = c.dcs, !["int"].skip = FALSE]
      \/ h.state # StateFor[c.op] /\ hw' = hw
  <2>1. \/ /\ Fits(c) /\ c.op = "Stop"
           /\ hw' = [hw EXCEPT ![c.ep].state = "Stopped"]
        \/ /\ Fits(c) /\ c.op = "Reset"
           /\ hw' = [hw EXCEPT ![c.ep].state = "Stopped"]
        \/ /\ Fits(c) /\ c.op = "SetDeq"
           /\ hw' = [hw EXCEPT ![c.ep].deq = c.deq, ![c.ep].dcs = c.dcs, ![c.ep].skip = FALSE]
        \/ ~Fits(c) /\ hw' = hw
    BY <1>4, Zenon DEF HwCommand
  <2> HIDE DEF c, h
  <2>2. StateFor["Stop"] = "Running" /\ StateFor["Reset"] = "Halted" /\ StateFor["SetDeq"] = "Stopped"
    BY DEF StateFor
  <2>3. c.ep = "int"
    BY <1>2
  <2>4. CASE Fits(c) /\ c.op = "Stop" /\ hw' = [hw EXCEPT ![c.ep].state = "Stopped"]
    BY <1>5, <2>2, <2>3, <2>4
  <2>5. CASE Fits(c) /\ c.op = "Reset" /\ hw' = [hw EXCEPT ![c.ep].state = "Stopped"]
    BY <1>5, <2>2, <2>3, <2>5
  <2>6. CASE /\ Fits(c) /\ c.op = "SetDeq"
             /\ hw' = [hw EXCEPT ![c.ep].deq = c.deq, ![c.ep].dcs = c.dcs, ![c.ep].skip = FALSE]
    <3>1. hw' = [hw EXCEPT !["int"].deq = c.deq, !["int"].dcs = c.dcs, !["int"].skip = FALSE]
      BY <2>3, <2>6, Zenon
    <3> QED BY <1>5, <2>2, <2>6, <3>1
  <2>7. CASE ~Fits(c) /\ hw' = hw
    BY <1>5, <2>7
  <2> QED BY <2>1, <2>4, <2>5, <2>6, <2>7
<1>7. /\ \/ events' = events \o <<CmdEvt(c)>>
         \/ events' = events \o <<XferEvt("int", "stopped", 0), CmdEvt(c)>>
      /\ c.op # "Stop" => events' = events \o <<CmdEvt(c)>>
  BY <1>2, <1>4 DEF HwCommand, Post
<1>8. EventTypes(events') /\ (c.op # "Stop" /\ NoReport(events) => NoReport(events'))
  <2> DEFINE v == XferEvt("int", "stopped", 0)
             w == CmdEvt(c)
  <2>1. v.type = "xfer" /\ v.ep = "int" /\ w.type = "cmd" /\ w.ep = "int"
    BY <1>1, <1>2, EventFacts
  <2>2. /\ events' = events \o <<w>> \/ events' = events \o <<v, w>>
        /\ c.op # "Stop" => events' = events \o <<w>>
    BY <1>7
  <2> HIDE DEF v, w, c
  <2>3. EventTypes(<<w>>) /\ NoReport(<<w>>)
    BY <1>1, <2>1, OneEvent DEF Report
  <2>4. EventTypes(<<v, w>>)
    BY <1>1, <2>1, TwoEvents
  <2>5. EventTypes(events \o <<w>>) /\ EventTypes(events \o <<v, w>>)
        /\ (NoReport(events) => NoReport(events \o <<w>>))
    BY <1>1, <2>3, <2>4, PostEvents
  <2> QED BY <2>2, <2>5
<1> HIDE DEF c
<1>9. hw' = [e \in Endpoints |-> hw'[e]]
  BY <1>1, <1>6 DEF Endpoints
<1>10. /\ g \in ContextType
       /\ \/ h.state = "Running" /\ c.op = "Stop" /\ g.state = "Stopped"
          \/ h.state = "Halted" /\ c.op = "Reset" /\ g.state = "Stopped"
          \/ /\ h.state = "Stopped" /\ c.op = "SetDeq" /\ g.state = "Stopped"
             /\ g.deq = c.deq /\ g.dcs = c.dcs
          \/ h.state # StateFor[c.op] /\ g = h
  <2>1. \/ h.state = "Running" /\ c.op = "Stop" /\ g = [h EXCEPT !.state = "Stopped"]
        \/ h.state = "Halted" /\ c.op = "Reset" /\ g = [h EXCEPT !.state = "Stopped"]
        \/ /\ h.state = "Stopped" /\ c.op = "SetDeq"
           /\ g = [h EXCEPT !.deq = c.deq, !.dcs = c.dcs, !.skip = FALSE]
        \/ h.state # StateFor[c.op] /\ g = h
    BY <1>1, <1>6 DEF Endpoints
  <2> HIDE DEF g, h
  <2>2. ASSUME g = [h EXCEPT !.state = "Stopped"] PROVE g \in ContextType /\ g.state = "Stopped"
    BY <1>1, <2>2 DEF ContextType
  <2>3. ASSUME g = [h EXCEPT !.deq = c.deq, !.dcs = c.dcs, !.skip = FALSE]
        PROVE  g \in ContextType /\ g.state = h.state /\ g.deq = c.deq /\ g.dcs = c.dcs
    BY <1>1, <1>2, <2>3 DEF ContextType
  <2> QED BY <1>1, <2>1, <2>2, <2>3
<1>11. Types'
  BY <1>1, <1>2, <1>3, <1>8, <1>9, <1>10 DEF Inv, Types
<1> HIDE DEF g, h, r
<1>12. StateFor["Stop"] = "Running" /\ StateFor["Reset"] = "Halted" /\ StateFor["SetDeq"] = "Stopped"
  BY DEF StateFor
<1>13. CASE polling
  <2>1. Recovering /\ Produced(r)
    BY <1>2, <1>13 DEF Inv, Quiet, r
  <2>2. NoReport(events) /\ pending = 0
    BY <2>1 DEF Recovering
  <2>3. CASE ResetStage(stack, h, events, cmds)
    <3>1. h.state = "Halted" /\ c.op = "Reset" /\ NoOrder(Tail(cmds))
      BY <1>2, <2>3 DEF ResetStage
    <3>2. g.state = "Stopped"
      BY <1>10, <1>12, <3>1
    <3>3. ResetStage(stack', g, events', cmds') /\ NoReport(events')
      BY <1>2, <1>3, <1>8, <2>2, <2>3, <3>1, <3>2 DEF ResetStage
    <3> QED BY <1>3, <1>11, <1>13, <2>1, <2>2, <3>3 DEF Inv, Recovering, g, r
  <2>4. CASE SetDeqStage(stack, r, h, events, cmds)
    <3>1. h.state = "Stopped" /\ c.op = "SetDeq" /\ ToEnd(cmds, r) /\ NoOrder(Tail(cmds))
      BY <1>2, <2>4 DEF SetDeqStage
    <3>2. g.state = "Stopped" /\ Caught(r, g)
      BY <1>2, <1>10, <1>12, <3>1 DEF Caught
    <3>3. SetDeqStage(stack', r, g, events', cmds') /\ NoReport(events')
      BY <1>2, <1>3, <1>8, <2>2, <2>4, <3>1, <3>2 DEF SetDeqStage
    <3> QED BY <1>3, <1>11, <1>13, <2>1, <2>2, <3>3 DEF Inv, Recovering, g, r
  <2>5. ~RearmStage(stack, r, h, events, cmds)
    BY <1>2 DEF RearmStage
  <2> QED BY <2>1, <2>3, <2>4, <2>5 DEF Recovering, h, r
<1>14. CASE ~polling
  <2>1. Stopping /\ pending = 0
    BY <1>2, <1>14 DEF Inv, Absent
  <2>2. CASE FirstStage(stack, h, events, cmds)
    <3>1. c.op = "Stop" /\ NoOrder(Tail(cmds))
      BY <1>2, <2>2 DEF FirstStage
    <3>2. g.state # "Running"
      BY <1>10, <1>12, <3>1
    <3>3. FirstStage(stack', g, events', cmds')
      BY <1>2, <1>3, <2>2, <3>1, <3>2 DEF FirstStage
    <3> QED BY <1>3, <1>11, <1>14, <2>1, <3>3 DEF Inv, Stopping, g
  <2>3. CASE SecondStage(stack, h, events, cmds)
    <3>1. c.op = "SetDeq" /\ NoOrder(Tail(cmds)) /\ h.state # "Running"
      BY <1>2, <2>3 DEF SecondStage
    <3>2. g.state # "Running"
      BY <1>10, <1>12, <3>1
    <3>3. SecondStage(stack', g, events', cmds')
      BY <1>2, <1>3, <2>3, <3>1, <3>2 DEF SecondStage
    <3> QED BY <1>3, <1>11, <1>14, <2>1, <3>3 DEF Inv, Stopping, g
  <2>4. ~LastStage(stack, h, cmds)
    BY <1>2 DEF LastStage
  <2> QED BY <2>1, <2>2, <2>3, <2>4 DEF Stopping, h
<1> QED BY <1>13, <1>14

-----------------------------------------------------------------------------
(***************************************************************************)
(* The driver's commands for the keyboard's endpoint                       *)
(***************************************************************************)
LEMMA DifferentHeads ==
  ASSUME NEW s, NEW op \in Commands
  PROVE  /\ Awaits(s, op) =>
              /\ ~Interrupts(s) /\ ~Starts(s, <<"Rearm">>) /\ ~FromDeinit(s) /\ ~Plain(s)
              /\ \A p \in Commands : ~Starts(s, <<p, "int">>) /\ (Awaits(s, p) => p = op)
         /\ Starts(s, <<op, "int">>) =>
              /\ ~Interrupts(s) /\ ~Starts(s, <<"Rearm">>) /\ ~FromDeinit(s) /\ ~Plain(s)
              /\ \A p \in Commands : ~Awaits(s, p) /\ (Starts(s, <<p, "int">>) => p = op)
<1>1. FromDeinit(s) => s # <<>> /\ Head(s) = <<"Deinit">>
  BY DEF FromDeinit
<1>2. Plain(s) /\ s # <<>> => Head(s) \in PlainFrames
  BY PlainFacts
<1>3. ASSUME Awaits(s, op)
      PROVE  /\ ~Interrupts(s) /\ ~Starts(s, <<"Rearm">>) /\ ~FromDeinit(s) /\ ~Plain(s)
             /\ \A p \in Commands : ~Starts(s, <<p, "int">>) /\ (Awaits(s, p) => p = op)
  <2>1. s # <<>> /\ (Head(s) = <<"Wait", op, "int">> \/ Head(s) = <<"WaitAbort", op, "int">>)
    BY <1>3 DEF Awaits, Starts
  <2>2. ~Interrupts(s) /\ ~Starts(s, <<"Rearm">>) /\ ~FromDeinit(s)
    BY <1>1, <2>1, KeyboardFrames DEF Interrupts, Starts
  <2>3. ~Plain(s)
    BY <1>2, <2>1, FrameFacts
  <2>4. ASSUME NEW p \in Commands
        PROVE  ~Starts(s, <<p, "int">>) /\ (Awaits(s, p) => p = op)
    BY <2>1, KeyboardFrames DEF Starts, Awaits
  <2> QED BY <2>2, <2>3, <2>4
<1>4. ASSUME Starts(s, <<op, "int">>)
      PROVE  /\ ~Interrupts(s) /\ ~Starts(s, <<"Rearm">>) /\ ~FromDeinit(s) /\ ~Plain(s)
             /\ \A p \in Commands : ~Awaits(s, p) /\ (Starts(s, <<p, "int">>) => p = op)
  <2>1. s # <<>> /\ Head(s) = <<op, "int">>
    BY <1>4 DEF Starts
  <2>2. ~Interrupts(s) /\ ~Starts(s, <<"Rearm">>) /\ ~FromDeinit(s)
    BY <1>1, <2>1, KeyboardFrames DEF Interrupts, Starts
  <2>3. ~Plain(s)
    BY <1>2, <2>1, FrameFacts
  <2>4. ASSUME NEW p \in Commands
        PROVE  ~Awaits(s, p) /\ (Starts(s, <<p, "int">>) => p = op)
    BY <2>1, KeyboardFrames DEF Starts, Awaits
  <2> QED BY <2>2, <2>3, <2>4
<1> QED BY <1>3, <1>4

\* What holds while the driver waits for a command
LEMMA WaitingFacts ==
  ASSUME Inv, NEW op \in Commands, Awaits(stack, op)
  PROVE  /\ polling =>
              /\ Produced(ring["int"]) /\ NoReport(events) /\ pending = 0
              /\ \/ /\ op = "Reset" /\ FromSetDeq(Tail(stack))
                    /\ \/ hw["int"].state = "Halted" /\ OneOrder(cmds, "Reset") /\ NoReply(events)
                       \/ hw["int"].state = "Stopped" /\ NoOrder(cmds)
                 \/ /\ op = "SetDeq" /\ FromRearm(Tail(stack)) /\ hw["int"].state = "Stopped"
                    /\ \/ OneOrder(cmds, "SetDeq") /\ ToEnd(cmds, ring["int"]) /\ NoReply(events)
                       \/ Caught(ring["int"], hw["int"]) /\ NoOrder(cmds)
         /\ ~polling =>
              /\ pending = 0
              /\ \/ /\ op = "Stop" /\ FromSecond(Tail(stack))
                    /\ \/ OneOrder(cmds, "Stop") /\ NoReply(events)
                       \/ hw["int"].state # "Running" /\ NoOrder(cmds)
                 \/ /\ op = "SetDeq" /\ FromStop(Tail(stack)) /\ hw["int"].state # "Running"
                    /\ \/ OneOrder(cmds, "SetDeq") /\ NoReply(events)
                       \/ NoOrder(cmds)
<1>1. /\ ~Interrupts(stack) /\ ~Starts(stack, <<"Rearm">>) /\ ~FromDeinit(stack) /\ ~Plain(stack)
      /\ \A p \in Commands : ~Starts(stack, <<p, "int">>) /\ (Awaits(stack, p) => p = op)
  BY DifferentHeads
<1>2. {"Stop", "Reset", "SetDeq"} = Commands
  BY DEF Commands
<1>3. CASE polling
  <2>1. Recovering /\ Produced(ring["int"])
    BY <1>1, <1>3 DEF Inv, Quiet
  <2>2. CASE ResetStage(stack, hw["int"], events, cmds)
    BY <1>1, <1>2, <1>3, <2>1, <2>2 DEF Recovering, ResetStage, FromReset, Aborting
  <2>3. CASE SetDeqStage(stack, ring["int"], hw["int"], events, cmds)
    BY <1>1, <1>2, <1>3, <2>1, <2>3 DEF Recovering, SetDeqStage, FromSetDeq, Aborting
  <2>4. ~RearmStage(stack, ring["int"], hw["int"], events, cmds)
    BY <1>1 DEF RearmStage, FromRearm
  <2> QED BY <2>1, <2>2, <2>3, <2>4 DEF Recovering
<1>4. CASE ~polling
  <2>1. Stopping /\ pending = 0
    BY <1>1, <1>4 DEF Inv, Absent
  <2>2. CASE FirstStage(stack, hw["int"], events, cmds)
    BY <1>1, <1>2, <1>4, <2>1, <2>2 DEF FirstStage, FromFirst, Aborting
  <2>3. CASE SecondStage(stack, hw["int"], events, cmds)
    BY <1>1, <1>2, <1>4, <2>1, <2>3 DEF SecondStage, FromSecond, Aborting
  <2>4. ~LastStage(stack, hw["int"], cmds)
    BY <1>1, <1>2 DEF LastStage, FromStop
  <2> QED BY <2>1, <2>2, <2>3, <2>4 DEF Stopping
<1> QED BY <1>3, <1>4

\* What holds when the driver is about to give one
LEMMA CommandFacts ==
  ASSUME Inv, NEW op \in Commands, Starts(stack, <<op, "int">>)
  PROVE  /\ NoOrder(cmds)
         /\ polling =>
              /\ Produced(ring["int"]) /\ NoReport(events) /\ pending = 0 /\ NoReply(events)
              /\ \/ op = "Reset" /\ FromSetDeq(Tail(stack)) /\ hw["int"].state = "Halted"
                 \/ op = "SetDeq" /\ FromRearm(Tail(stack)) /\ hw["int"].state = "Stopped"
         /\ ~polling =>
              /\ pending = 0
              /\ \/ op = "Stop" /\ FromSecond(Tail(stack)) /\ NoReply(events)
                 \/ /\ op = "SetDeq" /\ FromStop(Tail(stack)) /\ hw["int"].state # "Running"
                    /\ NoReply(events)
                 \/ op = "Stop" /\ FromDeinit(Tail(stack)) /\ hw["int"].state # "Running"
<1>1. /\ ~Interrupts(stack) /\ ~Starts(stack, <<"Rearm">>) /\ ~FromDeinit(stack) /\ ~Plain(stack)
      /\ \A p \in Commands : ~Awaits(stack, p) /\ (Starts(stack, <<p, "int">>) => p = op)
  BY DifferentHeads
<1>2. {"Stop", "Reset", "SetDeq"} = Commands
  BY DEF Commands
<1>3. CASE polling
  <2>1. Recovering /\ Produced(ring["int"])
    BY <1>1, <1>3 DEF Inv, Quiet
  <2>2. CASE ResetStage(stack, hw["int"], events, cmds)
    BY <1>1, <1>2, <1>3, <2>1, <2>2 DEF Recovering, ResetStage, FromReset, Aborting
  <2>3. CASE SetDeqStage(stack, ring["int"], hw["int"], events, cmds)
    BY <1>1, <1>2, <1>3, <2>1, <2>3 DEF Recovering, SetDeqStage, FromSetDeq, Aborting
  <2>4. ~RearmStage(stack, ring["int"], hw["int"], events, cmds)
    BY <1>1 DEF RearmStage, FromRearm
  <2> QED BY <2>1, <2>2, <2>3, <2>4 DEF Recovering
<1>4. CASE ~polling
  <2>1. Stopping /\ pending = 0
    BY <1>1, <1>4 DEF Inv, Absent
  <2>2. CASE FirstStage(stack, hw["int"], events, cmds)
    BY <1>1, <1>2, <1>4, <2>1, <2>2 DEF FirstStage, FromFirst, Aborting
  <2>3. CASE SecondStage(stack, hw["int"], events, cmds)
    BY <1>1, <1>2, <1>4, <2>1, <2>3 DEF SecondStage, FromSecond, Aborting
  <2>4. CASE LastStage(stack, hw["int"], cmds)
    BY <1>1, <1>2, <1>4, <2>1, <2>4 DEF LastStage, FromStop
  <2> QED BY <2>1, <2>2, <2>3, <2>4 DEF Stopping
<1> QED BY <1>3, <1>4

LEMMA KeyboardOrder ==
  ASSUME Inv, NEW op \in Commands, Command(op, "int")
  PROVE  Inv'
<1> DEFINE r == ring["int"]
           h == hw["int"]
           c == [op |-> op, ep |-> "int", deq |-> r.enq, dcs |-> r.cycle]
<1>1. Types /\ Starts(stack, <<op, "int">>) /\ stack # <<>>
  BY DEF Inv, Command, At, Starts
<1>2. /\ ring' = ring /\ hw' = hw /\ events' = events
      /\ UNCHANGED <<polling, pending, processing>>
  BY DEF Command
<1>3. /\ IsSeq(Tail(stack))
      /\ Goto(<<>>) => stack' = Tail(stack)
      /\ Goto(<< <<"Wait", op, "int">> >>) =>
           IsSeq(stack') /\ Starts(stack', <<"Wait", op, "int">>) /\ Tail(stack') = Tail(stack)
  BY <1>1, GotoFacts DEF Types
<1>4. /\ NoOrder(cmds)
      /\ polling =>
           /\ Produced(r) /\ NoReport(events) /\ pending = 0 /\ NoReply(events)
           /\ \/ op = "Reset" /\ FromSetDeq(Tail(stack)) /\ h.state = "Halted"
              \/ op = "SetDeq" /\ FromRearm(Tail(stack)) /\ h.state = "Stopped"
      /\ ~polling =>
           /\ pending = 0
           /\ \/ op = "Stop" /\ FromSecond(Tail(stack)) /\ NoReply(events)
              \/ op = "SetDeq" /\ FromStop(Tail(stack)) /\ h.state # "Running" /\ NoReply(events)
              \/ op = "Stop" /\ FromDeinit(Tail(stack)) /\ h.state # "Running"
  BY <1>1, CommandFacts
<1>5. StateFor["Stop"] = "Running" /\ StateFor["Reset"] = "Halted" /\ StateFor["SetDeq"] = "Stopped"
  BY DEF StateFor
<1>6. CASE h.state = StateFor[op]
  <2>1. cmds' = Append(cmds, c) /\ Goto(<< <<"Wait", op, "int">> >>)
    BY <1>6 DEF Command
  <2>2. IsSeq(stack') /\ Awaits(stack', op) /\ Tail(stack') = Tail(stack)
    BY <1>3, <2>1 DEF Awaits
  <2>3. /\ c.op = op /\ c.ep = "int" /\ c.deq = r.enq /\ c.dcs = r.cycle
        /\ c.deq \in 0 .. N /\ c.dcs \in {0, 1} /\ "int" \in Endpoints
    BY <1>1, RingFields DEF Types, Endpoints
  <2> HIDE DEF c
  <2>4. CmdTypes(cmds') /\ OneOrder(cmds', op) /\ ToEnd(cmds', r)
    BY <1>1, <1>4, <2>1, <2>3, AppendOrders DEF Types
  <2>5. Types'
    BY <1>1, <1>2, <2>2, <2>4 DEF Types
  <2>6. CASE polling
    <3>1. ASSUME op = "Reset" PROVE ResetStage(stack', h, events', cmds')
      BY <1>2, <1>4, <2>2, <2>4, <2>6, <3>1 DEF ResetStage
    <3>2. ASSUME op = "SetDeq" PROVE SetDeqStage(stack', r, h, events', cmds')
      BY <1>2, <1>4, <2>2, <2>4, <2>6, <3>2 DEF SetDeqStage
    <3>3. Recovering'
      BY <1>2, <1>4, <2>6, <3>1, <3>2 DEF Recovering
    <3> QED BY <1>2, <1>4, <2>5, <2>6, <3>3 DEF Inv
  <2>7. CASE ~polling
    <3>1. ASSUME op = "Stop" PROVE FirstStage(stack', h, events', cmds')
      BY <1>2, <1>4, <1>5, <1>6, <2>2, <2>4, <2>7, <3>1 DEF FirstStage
    <3>2. ASSUME op = "SetDeq" PROVE SecondStage(stack', h, events', cmds')
      BY <1>2, <1>4, <2>2, <2>4, <2>7, <3>2 DEF SecondStage
    <3>3. Stopping'
      BY <1>2, <1>4, <2>7, <3>1, <3>2 DEF Stopping
    <3> QED BY <1>2, <1>4, <2>5, <2>7, <3>3 DEF Inv
  <2> QED BY <2>6, <2>7
<1>7. CASE h.state # StateFor[op]
  <2>1. cmds' = cmds /\ stack' = Tail(stack)
    BY <1>3, <1>7 DEF Command
  <2>2. Types'
    BY <1>1, <1>2, <1>3, <2>1 DEF Types
  <2>3. ~polling
    BY <1>4, <1>5, <1>7
  <2>4. ASSUME op = "Stop", FromSecond(Tail(stack)) PROVE SecondStage(stack', h, events', cmds')
    <3>1. NoReply(events) \/ FromDeinit(Tail(stack))
      BY <1>4, <2>3
    <3>2. ~FromDeinit(Tail(stack))
      BY <2>4, DifferentHeads DEF FromSecond, Commands
    <3> QED BY <1>2, <1>4, <1>5, <1>7, <2>1, <2>4, <3>1, <3>2 DEF SecondStage
  <2>5. ASSUME op # "Stop" \/ ~FromSecond(Tail(stack)) PROVE LastStage(stack', h, cmds')
    BY <1>4, <2>1, <2>3, <2>5 DEF LastStage
  <2>6. Stopping'
    BY <1>2, <2>4, <2>5 DEF Stopping
  <2> QED BY <1>2, <1>4, <2>2, <2>3, <2>6 DEF Inv
<1> QED BY <1>6, <1>7

\* The wait is over.
LEMMA KeyboardReply ==
  ASSUME Inv, NEW op \in Commands, CommandDone(op, "int") \/ AbortTimeout(op, "int")
  PROVE  Inv'
<1> DEFINE r == ring["int"]
           h == hw["int"]
<1>1. Types /\ Awaits(stack, op) /\ stack # <<>>
  BY DEF Inv, CommandDone, AbortTimeout, At, Awaits, Starts
<1>2. /\ ring' = ring /\ hw' = hw /\ events' = events /\ cmds' = cmds
      /\ UNCHANGED <<polling, pending, processing>>
  BY DEF CommandDone, AbortTimeout
<1>3. IsSeq(stack') /\ Interrupts(stack') /\ Tail(stack') = Tail(stack)
  <2>1. Goto(<< <<"Interrupt">> >>)
    BY DEF CommandDone, AbortTimeout, ProcessInterrupt
  <2> QED BY <1>1, <2>1, GotoFacts DEF Types, Interrupts
<1>4. ~NoReply(events) \/ \A p : ~OneOrder(cmds, p)
  <2>1. CASE CommandDone(op, "int")
    <3>1. PICK i \in DOMAIN events : events[i].type = "cmd" /\ events[i].ep = "int"
      BY <2>1 DEF CommandDone, Completed
    <3>2. DOMAIN events = 1 .. Len(events)
      <4>1. events \in Seq({events[j] : j \in 1 .. Len(events)})
        BY <1>1 DEF Types, EventTypes, IsSeq
      <4> QED BY <4>1, LenProperties
    <3> QED BY <3>1, <3>2 DEF NoReply
  <2>2. CASE AbortTimeout(op, "int")
    <3>1. cmds = <<>> /\ Len(<<>>) = 0
      BY <2>2, ShortSeq DEF AbortTimeout
    <3> QED BY <3>1 DEF OneOrder
  <2> QED BY <2>1, <2>2
<1>5. Types'
  BY <1>1, <1>2, <1>3 DEF Types
<1>6. CASE polling
  <2>1. /\ Produced(r) /\ NoReport(events) /\ pending = 0
        /\ \/ op = "Reset" /\ FromSetDeq(Tail(stack)) /\ h.state = "Stopped" /\ NoOrder(cmds)
           \/ /\ op = "SetDeq" /\ FromRearm(Tail(stack)) /\ h.state = "Stopped"
              /\ Caught(r, h) /\ NoOrder(cmds)
    BY <1>1, <1>4, <1>6, WaitingFacts
  <2>2. SetDeqStage(stack', r, h, events', cmds') \/ RearmStage(stack', r, h, events', cmds')
    BY <1>2, <1>3, <2>1 DEF SetDeqStage, RearmStage
  <2>3. Recovering'
    BY <1>2, <2>1, <2>2 DEF Recovering
  <2> QED BY <1>2, <1>5, <1>6, <2>1, <2>3 DEF Inv
<1>7. CASE ~polling
  <2>1. /\ pending = 0 /\ NoOrder(cmds) /\ h.state # "Running"
        /\ FromSecond(Tail(stack)) \/ FromStop(Tail(stack))
    BY <1>1, <1>4, <1>7, WaitingFacts
  <2>2. SecondStage(stack', h, events', cmds') \/ LastStage(stack', h, cmds')
    BY <1>2, <1>3, <2>1 DEF SecondStage, LastStage
  <2>3. Stopping'
    BY <1>2, <2>2 DEF Stopping
  <2> QED BY <1>2, <1>5, <1>7, <2>1, <2>3 DEF Inv
<1> QED BY <1>6, <1>7

\* The first wait was too short: the command is aborted.
LEMMA KeyboardTimeout ==
  ASSUME Inv, NEW op \in Commands, CommandTimeout(op, "int")
  PROVE  Inv'
<1> DEFINE r == ring["int"]
           h == hw["int"]
<1>1. Types /\ Awaits(stack, op) /\ stack # <<>>
  BY DEF Inv, CommandTimeout, At, Awaits, Starts
<1>2. /\ ring' = ring /\ hw' = hw /\ events' = events /\ cmds' = cmds
      /\ UNCHANGED <<polling, pending, processing>>
  BY DEF CommandTimeout
<1>3. IsSeq(stack') /\ Aborting(stack', op) /\ Tail(Tail(stack')) = Tail(stack)
  <2>1. Goto(<< <<"Interrupt">>, <<"WaitAbort", op, "int">> >>)
    BY ConcatPair DEF CommandTimeout, ProcessInterrupt
  <2> QED BY <1>1, <2>1, GotoFacts DEF Types, Aborting, Interrupts
<1>4. Types'
  BY <1>1, <1>2, <1>3 DEF Types
<1>5. CASE polling
  <2>1. Produced(r) /\ NoReport(events) /\ pending = 0
    BY <1>1, <1>5, WaitingFacts
  <2>2. ResetStage(stack', h, events', cmds') \/ SetDeqStage(stack', r, h, events', cmds')
    BY <1>1, <1>2, <1>3, <1>5, WaitingFacts DEF ResetStage, SetDeqStage
  <2>3. Recovering'
    BY <1>2, <2>1, <2>2 DEF Recovering
  <2> QED BY <1>2, <1>4, <1>5, <2>1, <2>3 DEF Inv
<1>6. CASE ~polling
  <2>1. pending = 0
    BY <1>1, <1>6, WaitingFacts
  <2>2. FirstStage(stack', h, events', cmds') \/ SecondStage(stack', h, events', cmds')
    BY <1>1, <1>2, <1>3, <1>6, WaitingFacts DEF FirstStage, SecondStage
  <2>3. Stopping'
    BY <1>2, <2>2 DEF Stopping
  <2> QED BY <1>2, <1>4, <1>6, <2>1, <2>3 DEF Inv
<1> QED BY <1>5, <1>6

-----------------------------------------------------------------------------
(***************************************************************************)
(* XHCI_ProcessInterrupt                                                   *)
(***************************************************************************)
\* The poll is armed again.
LEMMA RearmFacts ==
  ASSUME Types, Produced(ring["int"]), Rearm,
         Caught(ring["int"], hw["int"]), hw["int"].state \in {"Running", "Stopped"}
  PROVE  /\ ring' = [e \in Endpoints |-> ring'[e]] /\ hw' = [e \in Endpoints |-> hw'[e]]
         /\ ring'["int"] \in RingType /\ hw'["int"] \in ContextType
         /\ Produced(ring'["int"]) /\ Armed(ring'["int"], hw'["int"])
         /\ hw'["int"].state = "Running"
<1> DEFINE r == ring["int"]
           h == hw["int"]
           q == QueuePoll(r)
           g == Doorbell(h)
<1>1. /\ ring = [e \in Endpoints |-> ring[e]] /\ hw = [e \in Endpoints |-> hw[e]]
      /\ r \in RingType /\ h \in ContextType
  BY DEF Types
<1>2. ring' = [ring EXCEPT !["int"] = q] /\ hw' = [hw EXCEPT !["int"] = g]
  BY DEF Rearm
<1>3. q \in RingType /\ Produced(q) /\ Armed(q, h)
  BY <1>1, QueueFacts
<1>4. g \in ContextType /\ g.state = "Running" /\ g.deq = h.deq /\ g.dcs = h.dcs
  BY <1>1 DEF Doorbell, ContextType
<1> HIDE DEF q, g
<1>5. /\ ring' = [e \in Endpoints |-> ring'[e]] /\ hw' = [e \in Endpoints |-> hw'[e]]
      /\ ring'["int"] = q /\ hw'["int"] = g
  BY <1>1, <1>2 DEF Endpoints
<1>6. Armed(q, g)
  BY <1>3, <1>4 DEF Armed
<1> QED BY <1>3, <1>4, <1>5, <1>6

\* A report that was held back is delivered.
LEMMA PendingStep == ASSUME Inv, ProcessPending PROVE Inv'
<1>1. /\ polling /\ pending > 0 /\ Rearm /\ pending' = pending - 1
      /\ events' = events /\ cmds' = cmds /\ stack' = stack
      /\ UNCHANGED <<polling, processing>>
  BY DEF ProcessPending, HeldBack
<1>2. Types /\ Produced(ring["int"]) /\ pending = 1
  BY <1>1 DEF Inv, Types
<1>3. Quiet
  BY <1>1, <1>2 DEF Inv, Recovering
<1>4. hw["int"].state = "Running" /\ Caught(ring["int"], hw["int"]) /\ NoReport(events)
  BY <1>2, <1>3 DEF Quiet, Polled
<1>5. /\ ring' = [e \in Endpoints |-> ring'[e]] /\ hw' = [e \in Endpoints |-> hw'[e]]
      /\ ring'["int"] \in RingType /\ hw'["int"] \in ContextType
      /\ Produced(ring'["int"]) /\ Armed(ring'["int"], hw'["int"])
      /\ hw'["int"].state = "Running"
  BY <1>1, <1>2, <1>4, RearmFacts
<1>6. pending' = 0
  BY <1>1, <1>2
<1>7. Types'
  BY <1>1, <1>2, <1>5, <1>6 DEF Types
<1>8. Quiet'
  BY <1>1, <1>3, <1>4, <1>5, <1>6 DEF Quiet, Polled
<1> QED BY <1>1, <1>5, <1>7, <1>8 DEF Inv

\* An event that is not about a poll is taken from the event ring.
LEMMA IgnoreStep == ASSUME Inv, DrainIgnore PROVE Inv'
<1>1. Types /\ events # <<>> /\ events' = Tail(events) /\ Ignored(Head(events))
  BY DEF Inv, DrainIgnore
<1>2. /\ ring' = ring /\ hw' = hw /\ cmds' = cmds /\ stack' = stack
      /\ UNCHANGED <<polling, pending, processing>>
  BY DEF DrainIgnore
<1>3. polling => ~Report(Head(events))
  BY <1>1 DEF Ignored, Report
<1>4. /\ EventTypes(events')
      /\ NoReport(events) => NoReport(events')
      /\ NoReply(events) => NoReply(events')
      /\ polling => \A op : OneReport(events, op) => OneReport(events', op)
  BY <1>1, <1>3, TailEvents DEF Types
<1>5. Elsewhere /\ CmdTypes(cmds')
  BY <1>1, <1>2 DEF Elsewhere, Types
<1> QED BY <1>2, <1>4, <1>5, OutsideStep

\* The event ring is empty.
LEMMA DrainStep == ASSUME Inv, DrainEnd PROVE Inv'
<1>1. Types /\ Interrupts(stack) /\ stack # <<>> /\ events = <<>>
  BY DEF Inv, DrainEnd, Draining, At, Interrupts, Starts
<1>2. /\ ring' = ring /\ hw' = hw /\ cmds' = cmds /\ events' = events
      /\ UNCHANGED <<polling, pending, processing>>
  BY DEF DrainEnd
<1>3. IsSeq(stack') /\ stack' = Tail(stack)
  <2>1. Goto(<<>>)
    BY DEF DrainEnd
  <2> QED BY <1>1, <2>1, GotoFacts DEF Types
<1>4. NoReply(events) /\ NoReport(events)
  BY <1>1, NoEvent
<1>5. Types'
  BY <1>1, <1>2, <1>3 DEF Types
<1>6. /\ ~Starts(stack, <<"Rearm">>) /\ ~FromDeinit(stack)
      /\ \A p \in Commands : ~Starts(stack, <<p, "int">>) /\ ~Awaits(stack, p)
  <2>1. FromDeinit(stack) => Head(stack) = <<"Deinit">>
    BY DEF FromDeinit
  <2>2. ~Starts(stack, <<"Rearm">>) /\ ~FromDeinit(stack)
    BY <1>1, <2>1 DEF Interrupts, Starts
  <2>3. \A p \in Commands : ~Starts(stack, <<p, "int">>) /\ ~Awaits(stack, p)
    BY <1>1, DifferentHeads
  <2> QED BY <2>2, <2>3
<1>7. \A p : Aborting(stack, p) => Awaits(stack', p)
  BY <1>3 DEF Aborting, Awaits
<1>8. {"Stop", "Reset", "SetDeq"} = Commands
  BY DEF Commands
<1>9. CASE polling
  <2>1. Produced(ring["int"])
    BY <1>9 DEF Inv
  <2>2. CASE Quiet
    <3>1. ~(processing /\ pending > 0)
      BY <1>9 DEF DrainEnd, Draining, HeldBack
    <3>2. Plain(stack')
      BY <1>1, <1>3, <2>2, PlainFacts DEF Quiet
    <3>3. Quiet'
      BY <1>2, <2>2, <3>1, <3>2 DEF Quiet, Polled
    <3> QED BY <1>2, <1>5, <1>9, <2>1, <3>3 DEF Inv
  <2>3. CASE Recovering
    <3>1. ASSUME ResetStage(stack, hw["int"], events, cmds)
          PROVE  ResetStage(stack', hw["int"], events, cmds)
      BY <1>3, <1>6, <1>7, <1>8, <3>1 DEF ResetStage, FromReset, Aborting
    <3>2. ASSUME SetDeqStage(stack, ring["int"], hw["int"], events, cmds)
          PROVE  SetDeqStage(stack', ring["int"], hw["int"], events, cmds)
      BY <1>3, <1>4, <1>6, <1>7, <1>8, <3>2 DEF SetDeqStage, FromSetDeq, Aborting
    <3>3. ASSUME RearmStage(stack, ring["int"], hw["int"], events, cmds)
          PROVE  RearmStage(stack', ring["int"], hw["int"], events, cmds)
      BY <1>3, <1>4, <1>6, <3>3 DEF RearmStage, FromRearm
    <3>4. Recovering'
      BY <1>2, <2>3, <3>1, <3>2, <3>3 DEF Recovering
    <3> QED BY <1>2, <1>5, <1>9, <2>1, <3>4 DEF Inv
  <2> QED BY <1>9, <2>2, <2>3 DEF Inv
<1>10. CASE ~polling
  <2>1. pending = 0
    BY <1>10 DEF Inv
  <2>2. CASE Stopping
    <3>1. ASSUME FirstStage(stack, hw["int"], events, cmds)
          PROVE  FirstStage(stack', hw["int"], events, cmds)
      BY <1>3, <1>6, <1>7, <1>8, <3>1 DEF FirstStage, FromFirst, Aborting
    <3>2. ASSUME SecondStage(stack, hw["int"], events, cmds)
          PROVE  SecondStage(stack', hw["int"], events, cmds)
      BY <1>3, <1>4, <1>6, <1>7, <1>8, <3>2 DEF SecondStage, FromSecond, Aborting
    <3>3. ASSUME LastStage(stack, hw["int"], cmds) PROVE LastStage(stack', hw["int"], cmds)
      BY <1>3, <1>6, <1>8, <3>3 DEF LastStage, FromStop
    <3>4. Stopping'
      BY <1>2, <2>2, <3>1, <3>2, <3>3 DEF Stopping
    <3> QED BY <1>2, <1>5, <1>10, <2>1, <3>4 DEF Inv
  <2>3. CASE Absent
    <3>1. Plain(stack')
      BY <1>1, <1>3, <2>3, PlainFacts DEF Absent
    <3>2. Absent'
      BY <1>2, <1>4, <2>3, <3>1 DEF Absent
    <3> QED BY <1>2, <1>5, <1>10, <2>1, <3>2 DEF Inv
  <2> QED BY <1>10, <2>2, <2>3 DEF Inv
<1> QED BY <1>9, <1>10

\* The event of a poll
LEMMA EventTaken ==
  ASSUME Inv, NEW op, KeyboardEvent(op)
  PROVE  /\ Types /\ polling /\ Produced(ring["int"]) /\ Quiet /\ pending = 0
         /\ Interrupts(stack)
         /\ op = "success" => hw["int"].state = "Running" /\ Caught(ring["int"], hw["int"])
         /\ op = "stall" => hw["int"].state = "Halted"
         /\ EventTypes(events') /\ NoReport(events') /\ NoReply(events')
         /\ cmds' = cmds /\ UNCHANGED <<polling, processing>>
<1>1. /\ Types /\ events # <<>> /\ events' = Tail(events) /\ ~Ignored(Head(events))
      /\ Head(events).op = op /\ cmds' = cmds /\ UNCHANGED <<polling, processing>>
      /\ Interrupts(stack)
  BY DEF Inv, KeyboardEvent, Draining, At, Interrupts, Starts
<1>2. /\ EventTypes(Tail(events)) /\ Head(events).type \in {"xfer", "cmd"} /\ Head(events).ep \in Endpoints
      /\ NoReply(events) => NoReply(Tail(events))
      /\ NoReport(events) => ~Report(Head(events))
      /\ \A p : OneReport(events, p) =>
           IF Report(Head(events)) THEN Head(events).op = p /\ NoReport(Tail(events))
                                   ELSE OneReport(Tail(events), p)
  BY <1>1, TailEvents DEF Types
<1>3. polling /\ Report(Head(events))
  BY <1>1, <1>2 DEF Ignored, Report, Endpoints
<1>4. Quiet /\ Produced(ring["int"]) /\ ~NoReport(events)
  BY <1>2, <1>3 DEF Inv, Recovering
<1>5. \/ /\ hw["int"].state = "Running" /\ Caught(ring["int"], hw["int"])
         /\ OneReport(events, "success") /\ pending = 0
      \/ hw["int"].state = "Halted" /\ OneReport(events, "stall") /\ pending = 0
  BY <1>4 DEF Quiet, Polled
<1>6. NoReply(events)
  BY <1>4 DEF Quiet
<1> QED BY <1>1, <1>2, <1>3, <1>4, <1>5, <1>6

LEMMA HoldStep == ASSUME Inv, HoldReport PROVE Inv'
<1>1. /\ KeyboardEvent("success") /\ ~processing /\ pending' = pending + 1
      /\ ring' = ring /\ hw' = hw /\ stack' = stack
  BY DEF HoldReport, Postponed
<1>2. /\ Types /\ polling /\ Produced(ring["int"]) /\ Quiet /\ pending = 0
      /\ hw["int"].state = "Running" /\ Caught(ring["int"], hw["int"])
      /\ EventTypes(events') /\ NoReport(events') /\ NoReply(events')
      /\ cmds' = cmds /\ UNCHANGED <<polling, processing>>
  BY <1>1, EventTaken
<1>3. pending' = 1
  BY <1>1, <1>2
<1>4. Types'
  BY <1>1, <1>2, <1>3 DEF Types
<1>5. Quiet'
  BY <1>1, <1>2, <1>3 DEF Quiet, Polled
<1> QED BY <1>1, <1>2, <1>4, <1>5 DEF Inv

LEMMA DeliverStep == ASSUME Inv, DeliverReport PROVE Inv'
<1>1. KeyboardEvent("success") /\ Rearm /\ pending' = pending /\ stack' = stack
  BY DEF DeliverReport
<1>2. /\ Types /\ polling /\ Produced(ring["int"]) /\ Quiet /\ pending = 0
      /\ hw["int"].state = "Running" /\ Caught(ring["int"], hw["int"])
      /\ EventTypes(events') /\ NoReport(events') /\ NoReply(events')
      /\ cmds' = cmds /\ UNCHANGED <<polling, processing>>
  BY <1>1, EventTaken
<1>3. /\ ring' = [e \in Endpoints |-> ring'[e]] /\ hw' = [e \in Endpoints |-> hw'[e]]
      /\ ring'["int"] \in RingType /\ hw'["int"] \in ContextType
      /\ Produced(ring'["int"]) /\ Armed(ring'["int"], hw'["int"])
      /\ hw'["int"].state = "Running"
  BY <1>1, <1>2, RearmFacts
<1>4. Types'
  BY <1>1, <1>2, <1>3 DEF Types
<1>5. Quiet'
  BY <1>1, <1>2, <1>3 DEF Quiet, Polled
<1> QED BY <1>1, <1>2, <1>3, <1>4, <1>5 DEF Inv

LEMMA RecoverStep == ASSUME Inv, RecoverPoll PROVE Inv'
<1>1. /\ KeyboardEvent("stall") /\ ring' = ring /\ hw' = hw /\ pending' = pending
      /\ stack' = (<< <<"Reset", "int">>, <<"SetDeq", "int">> >> \o << <<"Rearm">> >>) \o stack
  BY DEF RecoverPoll, ClearStalledEp
<1>2. /\ Types /\ polling /\ Produced(ring["int"]) /\ Quiet /\ pending = 0
      /\ hw["int"].state = "Halted"
      /\ EventTypes(events') /\ NoReport(events') /\ NoReply(events')
      /\ cmds' = cmds /\ UNCHANGED <<polling, processing>>
  BY <1>1, EventTaken
<1>3. FromReset(stack') /\ IsSeq(stack')
  <2> DEFINE a == <<"Reset", "int">>
             b == <<"SetDeq", "int">>
             d == <<"Rearm">>
             t == <<d>> \o stack
             u == <<b>> \o t
  <2>1. Plain(stack) /\ IsSeq(stack)
    BY <1>2, PlainFacts DEF Quiet
  <2> HIDE DEF a, b, d
  <2>2. IsSeq(t) /\ t # <<>> /\ Head(t) = d /\ Tail(t) = stack
    BY <2>1, PushFacts
  <2>3. stack' = <<a, b>> \o t
    <3>1. stack' = (<<a, b>> \o <<d>>) \o stack
      BY <1>1 DEF a, b, d
    <3>2. PICK R : stack \in Seq(R)
      BY <2>1 DEF IsSeq
    <3>3. /\ <<a, b>> \in Seq(R \union {a, b, d}) /\ <<d>> \in Seq(R \union {a, b, d})
          /\ stack \in Seq(R \union {a, b, d})
      BY <3>2, SeqMonotonic
    <3> QED BY <3>1, <3>3, ConcatAssociative
  <2> HIDE DEF t
  <2>4. IsSeq(u) /\ u # <<>> /\ Head(u) = b /\ Tail(u) = t
    BY <2>2, PushFacts
  <2>5. stack' = <<a>> \o u
    BY <2>2, <2>3, PushTwo
  <2> HIDE DEF u
  <2>6. IsSeq(stack') /\ stack' # <<>> /\ Head(stack') = a /\ Tail(stack') = u
    BY <2>4, <2>5, PushFacts
  <2>7. FromRearm(t)
    BY <2>1, <2>2 DEF FromRearm, Starts, d
  <2>8. FromSetDeq(u)
    BY <2>4, <2>7 DEF FromSetDeq, Starts, b
  <2> QED BY <2>6, <2>8 DEF FromReset, Starts, a
<1>4. Types'
  BY <1>1, <1>2, <1>3 DEF Types
<1>5. ResetStage(stack', hw["int"], events', cmds')
  BY <1>2, <1>3 DEF ResetStage, Quiet
<1>6. Recovering'
  BY <1>1, <1>2, <1>5 DEF Recovering
<1> QED BY <1>1, <1>2, <1>4, <1>6 DEF Inv

\* The poll after a stall
LEMMA StalledStep == ASSUME Inv, RearmStalled PROVE Inv'
<1>1. Types /\ Starts(stack, <<"Rearm">>) /\ stack # <<>>
  BY DEF Inv, RearmStalled, At, Starts
<1>2. /\ ~Interrupts(stack) /\ ~FromDeinit(stack) /\ ~Plain(stack)
      /\ \A p \in Commands : ~Starts(stack, <<p, "int">>) /\ ~Awaits(stack, p)
  <2>1. FromDeinit(stack) => Head(stack) = <<"Deinit">>
    BY DEF FromDeinit
  <2>2. ~Interrupts(stack) /\ ~FromDeinit(stack)
    BY <1>1, <2>1 DEF Interrupts, Starts
  <2>3. ~Plain(stack)
    BY <1>1, PlainFacts, FrameFacts DEF Starts
  <2>4. \A p \in Commands : ~Starts(stack, <<p, "int">>) /\ ~Awaits(stack, p)
    BY <1>1, DifferentHeads
  <2> QED BY <2>2, <2>3, <2>4
<1>3. {"Stop", "Reset", "SetDeq"} = Commands
  BY DEF Commands
<1>4. polling
  <2>1. ~Stopping
    BY <1>2, <1>3 DEF Stopping, FirstStage, SecondStage, LastStage, FromFirst, FromSecond, FromStop, Aborting
  <2>2. ~Absent
    BY <1>2 DEF Absent
  <2> QED BY <2>1, <2>2 DEF Inv
<1>5. Produced(ring["int"]) /\ Recovering
  BY <1>2, <1>4 DEF Inv, Quiet
<1>6. RearmStage(stack, ring["int"], hw["int"], events, cmds)
  BY <1>2, <1>3, <1>5 DEF Recovering, ResetStage, SetDeqStage, FromReset, FromSetDeq, Aborting
<1>7. /\ hw["int"].state = "Stopped" /\ Caught(ring["int"], hw["int"]) /\ NoOrder(cmds)
      /\ Plain(Tail(stack)) /\ NoReply(events) /\ NoReport(events) /\ pending = 0
  BY <1>2, <1>5, <1>6 DEF RearmStage, FromRearm, Recovering
<1>8. /\ Rearm /\ Goto(<<>>) /\ events' = events /\ cmds' = cmds
      /\ UNCHANGED <<polling, pending, processing>>
  BY <1>4 DEF RearmStalled
<1>9. /\ ring' = [e \in Endpoints |-> ring'[e]] /\ hw' = [e \in Endpoints |-> hw'[e]]
      /\ ring'["int"] \in RingType /\ hw'["int"] \in ContextType
      /\ Produced(ring'["int"]) /\ Armed(ring'["int"], hw'["int"])
      /\ hw'["int"].state = "Running"
  BY <1>1, <1>5, <1>7, <1>8, RearmFacts
<1>10. Plain(stack') /\ IsSeq(stack')
  BY <1>1, <1>7, <1>8, GotoFacts, PlainFacts DEF Types
<1>11. Types'
  BY <1>1, <1>8, <1>9, <1>10 DEF Types
<1>12. Quiet'
  BY <1>7, <1>8, <1>9, <1>10 DEF Quiet, Polled
<1> QED BY <1>4, <1>8, <1>9, <1>11, <1>12 DEF Inv

\* The slot is given up.
LEMMA DeinitStep == ASSUME Inv, DeinitDeviceData PROVE Inv'
<1>1. Types /\ stack # <<>> /\ Head(stack) = <<"Deinit">>
  BY DEF Inv, DeinitDeviceData, At
<1>2. /\ ~Interrupts(stack) /\ ~Plain(stack) /\ ~Starts(stack, <<"Rearm">>)
      /\ \A p \in Commands : ~Starts(stack, <<p, "int">>) /\ ~Awaits(stack, p)
  <2>1. ~Interrupts(stack) /\ ~Starts(stack, <<"Rearm">>)
    BY <1>1 DEF Interrupts, Starts
  <2>2. ~Plain(stack)
    BY <1>1, PlainFacts, FrameFacts
  <2>3. \A p \in Commands : ~Starts(stack, <<p, "int">>) /\ ~Awaits(stack, p)
    BY <1>1, KeyboardFrames DEF Starts, Awaits
  <2> QED BY <2>1, <2>2, <2>3
<1>3. {"Stop", "Reset", "SetDeq"} = Commands
  BY DEF Commands
<1>4. ~polling /\ pending = 0 /\ Stopping
  <2>1. ~Recovering
    BY <1>2, <1>3 DEF Recovering, ResetStage, SetDeqStage, RearmStage, FromReset, FromSetDeq, FromRearm, Aborting
  <2>2. ~Quiet /\ ~Absent
    BY <1>2 DEF Quiet, Absent
  <2> QED BY <2>1, <2>2 DEF Inv
<1>5. FromDeinit(stack) /\ NoOrder(cmds)
  BY <1>2, <1>3, <1>4 DEF Stopping, FirstStage, SecondStage, LastStage, FromFirst, FromSecond, FromStop, Aborting
<1>6. /\ events' = events /\ cmds' = cmds /\ UNCHANGED <<polling, pending, processing>>
      /\ ring' = [ring EXCEPT !["int"] = NewRing("int")] /\ hw' = [hw EXCEPT !["int"] = Disabled]
      /\ stack' = << <<"Interrupt">> >> \o Tail(stack)
  BY DEF DeinitDeviceData, Goto, ProcessInterrupt
<1>7. stack' = << <<"Interrupt">> >>
  <2>1. Tail(stack) = <<>>
    BY <1>5 DEF FromDeinit
  <2>2. << <<"Interrupt">> >> \in Seq({<<"Interrupt">>})
    OBVIOUS
  <2>3. << <<"Interrupt">> >> \o <<>> = << <<"Interrupt">> >>
    BY <2>2, ConcatEmptySeq
  <2> QED BY <1>6, <2>1, <2>3
<1>8. Plain(stack') /\ IsSeq(stack')
  BY <1>7, FrameFacts, BulkFrames, PlainFacts DEF Plain
<1>9. /\ ring' = [e \in Endpoints |-> ring'[e]] /\ hw' = [e \in Endpoints |-> hw'[e]]
      /\ ring'["int"] = NewRing("int") /\ hw'["int"] = Disabled
  BY <1>1, <1>6 DEF Types, Endpoints
<1>10. Types'
  BY <1>1, <1>6, <1>8, <1>9, NewRingFacts DEF Types
<1>11. Absent'
  BY <1>5, <1>6, <1>7, <1>8, <1>9, NewRingFacts DEF Absent
<1> QED BY <1>4, <1>6, <1>10, <1>11 DEF Inv

-----------------------------------------------------------------------------
(***************************************************************************)
(* The callers of the driver                                               *)
(***************************************************************************)
LEMMA IdleFacts ==
  ASSUME Inv, Idle
  PROVE  /\ Types /\ stack = <<>> /\ stack # << <<"Interrupt">> >>
         /\ polling => Quiet /\ Produced(ring["int"])
         /\ ~polling => Absent /\ pending = 0
BY KeyboardStack DEF Inv, Idle

LEMMA CallerStep ==
  ASSUME Inv, (\E t \in Transfers : BulkTransfer(t[1], t[2])) \/ ClearFeature \/ Poll
  PROVE  Inv'
<1>1. Idle /\ stack = <<>> /\ Types
  BY DEF Inv, BulkTransfer, ClearFeature, Poll, Idle
<1>2. Elsewhere /\ events' = events /\ cmds' = cmds
  BY <1>1 DEF BulkTransfer, ClearFeature, Poll, Elsewhere, Types
<1>3. Plain(stack')
  <2>1. /\ <<"Fill">> \in PlainFrames /\ <<"Interrupt">> \in PlainFrames
        /\ <<"Stop", "bulk">> \in PlainFrames /\ <<"SetDeq", "bulk">> \in PlainFrames
    BY FrameFacts DEF Commands
  <2>2. Plain(<< <<"Interrupt">> >>) /\ Plain(<< <<"Fill">> >>)
    BY <2>1, BulkFrames DEF Plain
  <2>3. Plain(<< <<"Stop", "bulk">>, <<"SetDeq", "bulk">> >>)
    BY <2>1, BulkFrames DEF Plain
  <2>4. Plain(<< <<"Interrupt">> >> \o << <<"Stop", "bulk">>, <<"SetDeq", "bulk">> >>)
    BY <2>2, <2>3, PlainFacts DEF Plain
  <2> QED BY <2>2, <2>4 DEF BulkTransfer, ClearFeature, Poll, ProcessInterrupt, ClearEndpointState
<1> QED BY <1>1, <1>2, <1>3, BulkStep DEF Types

LEMMA TransactionStep == ASSUME Inv, BeginTransaction \/ EndTransaction PROVE Inv'
<1>1. /\ Types /\ Idle /\ stack = <<>> /\ ring' = ring /\ hw' = hw /\ events' = events /\ cmds' = cmds
      /\ UNCHANGED <<polling, pending>>
  BY DEF Inv, BeginTransaction, EndTransaction, Idle
<1>2. \/ processing' = FALSE /\ stack' = stack
      \/ processing' = TRUE /\ stack' = << <<"Interrupt">> >>
  BY DEF BeginTransaction, EndTransaction, ProcessInterrupt
<1>3. Plain(stack') /\ IsSeq(stack')
  <2>1. Plain(<<>>) /\ Plain(<< <<"Interrupt">> >>)
    BY FrameFacts, BulkFrames DEF Plain
  <2> QED BY <1>1, <1>2, <2>1, PlainFacts
<1>4. Types'
  BY <1>1, <1>2, <1>3 DEF Types
<1>5. CASE polling
  <2>1. Quiet /\ Produced(ring["int"])
    BY <1>1, <1>5, IdleFacts
  <2>2. Quiet'
    BY <1>1, <1>2, <1>3, <2>1 DEF Quiet, Polled
  <2> QED BY <1>1, <1>4, <1>5, <2>1, <2>2 DEF Inv
<1>6. CASE ~polling
  <2>1. Absent /\ pending = 0 /\ NoReport(events) /\ NoReply(events)
    BY <1>1, <1>6, IdleFacts DEF Absent
  <2>2. Absent'
    BY <1>1, <1>3, <2>1 DEF Absent
  <2> QED BY <1>1, <1>4, <1>6, <2>1, <2>2 DEF Inv
<1> QED BY <1>5, <1>6

\* A keyboard is connected.
LEMMA ActivateStep == ASSUME Inv, ActivatePolling PROVE Inv'
<1> DEFINE n == NewRing("int")
           q == QueuePoll(n)
<1>1. /\ Idle /\ ~polling /\ polling' = TRUE
      /\ ring' = [ring EXCEPT !["int"] = q] /\ hw' = [hw EXCEPT !["int"] = NewContext]
      /\ events' = events /\ cmds' = cmds /\ stack' = stack /\ UNCHANGED <<pending, processing>>
  BY DEF ActivatePolling
<1>2. Types /\ Absent /\ pending = 0 /\ NoReport(events) /\ NoReply(events)
  BY <1>1, IdleFacts DEF Absent
<1>3. /\ n \in RingType /\ Produced(n) /\ Caught(n, NewContext)
      /\ NewContext \in ContextType /\ NewContext.state = "Running"
  BY NewRingFacts
<1> HIDE DEF n
<1>4. q \in RingType /\ Produced(q) /\ Armed(q, NewContext)
  BY <1>3, QueueFacts
<1> HIDE DEF q
<1>5. /\ ring' = [e \in Endpoints |-> ring'[e]] /\ hw' = [e \in Endpoints |-> hw'[e]]
      /\ ring'["int"] = q /\ hw'["int"] = NewContext
  BY <1>1, <1>2 DEF Types, Endpoints
<1>6. Types'
  BY <1>1, <1>2, <1>3, <1>4, <1>5 DEF Types
<1>7. Quiet'
  BY <1>1, <1>2, <1>3, <1>4, <1>5 DEF Quiet, Polled, Absent
<1> QED BY <1>1, <1>4, <1>5, <1>6, <1>7 DEF Inv

\* A keyboard is disconnected.
LEMMA DeactivateStep == ASSUME Inv, DeactivatePolling PROVE Inv'
<1> DEFINE a == <<"Stop", "int">>
           b == <<"SetDeq", "int">>
           d == <<"Deinit">>
           t == <<a, d>>
           u == <<b>> \o t
<1>1. /\ Idle /\ polling /\ processing /\ polling' = FALSE
      /\ ring' = ring /\ hw' = hw /\ events' = events /\ cmds' = cmds /\ UNCHANGED <<pending, processing>>
      /\ stack' = <<a, b>> \o t
  BY DEF DeactivatePolling, ClearEndpointState
<1>2. Types /\ Quiet /\ pending = 0
  <2>1. Types /\ Quiet /\ stack # << <<"Interrupt">> >>
    BY <1>1, IdleFacts
  <2>2. pending \in {0, 1} /\ ~(pending > 0)
    BY <1>1, <2>1 DEF Quiet, Types
  <2> QED BY <2>1, <2>2
<1>3. FromStop(t) /\ IsSeq(t)
  <2>1. t # <<>> /\ Head(t) = a /\ Tail(t) = <<d>>
    OBVIOUS
  <2>2. IsSeq(t)
    BY ShortSeq
  <2> QED BY <2>1, <2>2 DEF FromStop, FromDeinit, Starts
<1> HIDE DEF a, b, d, t
<1>4. IsSeq(u) /\ u # <<>> /\ Head(u) = b /\ Tail(u) = t
  BY <1>3, PushFacts
<1>5. stack' = <<a>> \o u
  BY <1>1, <1>3, PushTwo
<1> HIDE DEF u
<1>6. IsSeq(stack') /\ stack' # <<>> /\ Head(stack') = a /\ Tail(stack') = u
  BY <1>4, <1>5, PushFacts
<1>7. FromFirst(stack')
  BY <1>3, <1>4, <1>6 DEF FromFirst, FromSecond, Starts, a, b
<1>8. Types'
  BY <1>1, <1>2, <1>6 DEF Types
<1>9. FirstStage(stack', hw["int"], events, cmds)
  BY <1>2, <1>7 DEF FirstStage, Quiet
<1>10. Stopping'
  BY <1>1, <1>9 DEF Stopping
<1> QED BY <1>1, <1>2, <1>8, <1>10 DEF Inv

-----------------------------------------------------------------------------
(***************************************************************************)
(* The theorems                                                            *)
(***************************************************************************)
LEMMA InitInv == Init => Inv
<1> SUFFICES ASSUME Init PROVE Inv
  OBVIOUS
<1>1. /\ events = <<>> /\ cmds = <<>> /\ stack = <<>>
      /\ polling = FALSE /\ pending = 0 /\ processing = TRUE
  BY DEF Init
<1>2. /\ ring = [e \in Endpoints |-> ring[e]] /\ ring["int"] = NewRing("int")
      /\ hw = [e \in Endpoints |-> hw[e]] /\ hw["int"] = Disabled
  BY DEF Init, Endpoints
<1>3. EventTypes(<<>>) /\ NoReport(<<>>) /\ NoReply(<<>>) /\ Plain(<<>>) /\ IsSeq(<<>>)
  BY NoEvent, ShortSeq, BulkFrames DEF Plain
<1>4. CmdTypes(<<>>) /\ NoOrder(<<>>)
  <2>1. IsSeq(<<>>) /\ Len(<<>>) = 0
    BY ShortSeq
  <2> QED BY <2>1 DEF CmdTypes, NoOrder
<1>5. Types
  BY <1>1, <1>2, <1>3, <1>4, NewRingFacts DEF Types
<1>6. Absent
  BY <1>1, <1>2, <1>3, <1>4, NewRingFacts DEF Absent
<1> QED BY <1>1, <1>5, <1>6 DEF Inv

LEMMA NextInv == Premise /\ Inv /\ [Next]_vars => Inv'
<1> SUFFICES ASSUME Premise, Inv, [Next]_vars PROVE Inv'
  OBVIOUS
<1>1. CASE Controller
  <2>1. CASE HwCommand
    BY <2>1, BulkCommand, KeyboardCommand
  <2>2. CASE \/ HwLink("int") \/ HwRetire("int") \/ HwTransfer("int", 0) \/ HwHalt("int", "stall")
    BY <2>2, KeyboardController
  <2>3. CASE \/ HwLink("bulk") \/ HwRetire("bulk")
             \/ \E code \in {"stall", "error"} : HwHalt("bulk", code)
             \/ \E residual \in 0 .. TdMax : HwTransfer("bulk", residual)
    BY <2>3, BulkController
  <2> QED BY <1>1, <2>1, <2>2, <2>3 DEF Controller, Endpoints
<1>2. CASE Driver
  <2>1. ASSUME NEW op \in Commands, NEW e \in Endpoints,
               \/ Command(op, e) \/ CommandDone(op, e)
               \/ CommandTimeout(op, e) \/ AbortTimeout(op, e)
        PROVE  Inv'
    <3>1. CASE e = "bulk"
      BY <2>1, <3>1, BulkCommands
    <3>2. CASE e = "int"
      BY <2>1, <3>2, KeyboardOrder, KeyboardReply, KeyboardTimeout
    <3> QED BY <3>1, <3>2 DEF Endpoints
  <2>2. CASE ProcessPending \/ DrainEnd \/ DrainIgnore
    BY <2>2, PendingStep, DrainStep, IgnoreStep
  <2>3. CASE HoldReport \/ DeliverReport \/ RecoverPoll
    BY <2>3, HoldStep, DeliverStep, RecoverStep
  <2>4. CASE RearmStalled \/ DeinitDeviceData
    BY <2>4, StalledStep, DeinitStep
  <2>5. CASE FillTrb \/ RingDoorbell \/ XferDone \/ XferTimeout \/ XferResult
    BY <2>5, BulkDriver
  <2> QED BY <1>2, <2>1, <2>2, <2>3, <2>4, <2>5 DEF Driver
<1>3. CASE Caller
  BY <1>3, CallerStep, TransactionStep, ActivateStep, DeactivateStep DEF Caller
<1>4. CASE UNCHANGED vars
  <2>1. /\ Elsewhere /\ stack' = stack /\ events' = events /\ cmds' = cmds
        /\ EventTypes(events) /\ CmdTypes(cmds)
    BY <1>4 DEF vars, Elsewhere, Inv, Types
  <2> QED BY <2>1, OutsideStep
<1> QED BY <1>1, <1>2, <1>3, <1>4 DEF Next

\* The driver and the controller agree about the keyboard's endpoint in every
\* state: a poll is armed, answered, held back or being recovered, and the steps
\* of the recovery and of the deactivation are on the stack in their order.
THEOREM XhciInvariant == Premise => (Spec => []Inv)
<1> SUFFICES ASSUME Premise PROVE Spec => []Inv
  OBVIOUS
<1>1. Init => Inv
  BY InitInv
<1>2. Inv /\ [Next]_vars => Inv'
  BY NextInv
<1> QED BY <1>1, <1>2, PTL DEF Spec

\* How often the stack says that the poll is armed again
OneRearm(s) == \E i \in DOMAIN s : {j \in DOMAIN s : s[j] = <<"Rearm">>} = {i}

LEMMA RearmBelow ==
  ASSUME NEW s, IsSeq(s), s # <<>>
  PROVE  /\ IsSeq(Tail(s))
         /\ Head(s) # <<"Rearm">> /\ OneRearm(Tail(s)) => OneRearm(s)
         /\ FromRearm(s) => OneRearm(s)
<1>1. /\ IsSeq(Tail(s)) /\ Len(s) \in Nat \ {0} /\ Len(Tail(s)) = Len(s) - 1
      /\ Head(s) = s[1] /\ \A i \in 1 .. Len(Tail(s)) : Tail(s)[i] = s[i + 1]
  BY TailSeq
<1>2. DOMAIN s = 1 .. Len(s) /\ DOMAIN Tail(s) = 1 .. Len(Tail(s))
  <2>1. /\ s \in Seq({s[i] : i \in 1 .. Len(s)})
        /\ Tail(s) \in Seq({Tail(s)[i] : i \in 1 .. Len(Tail(s))})
    BY <1>1 DEF IsSeq
  <2> QED BY <2>1, LenProperties
<1>3. \A i \in 1 .. Len(s) : i = 1 \/ (i - 1 \in 1 .. Len(Tail(s)) /\ (i - 1) + 1 = i)
  BY <1>1
<1>4. ASSUME Head(s) # <<"Rearm">>, OneRearm(Tail(s)) PROVE OneRearm(s)
  <2>1. PICK i \in 1 .. Len(Tail(s)) :
          {j \in 1 .. Len(Tail(s)) : Tail(s)[j] = <<"Rearm">>} = {i}
    BY <1>2, <1>4 DEF OneRearm
  <2>2. i + 1 \in 1 .. Len(s) /\ s[i + 1] = <<"Rearm">>
    <3>1. Tail(s)[i] = <<"Rearm">>
      BY <2>1
    <3>2. i + 1 \in 1 .. Len(s)
      BY <1>1
    <3> QED BY <1>1, <3>1, <3>2
  <2>3. ASSUME NEW j \in 1 .. Len(s), s[j] = <<"Rearm">> PROVE j = i + 1
    <3>1. j - 1 \in 1 .. Len(Tail(s)) /\ (j - 1) + 1 = j
      BY <1>1, <1>3, <1>4, <2>3
    <3>2. j - 1 = i
      BY <1>1, <2>1, <2>3, <3>1
    <3> QED BY <3>1, <3>2
  <2> QED BY <1>2, <2>2, <2>3 DEF OneRearm
<1>5. ASSUME FromRearm(s) PROVE OneRearm(s)
  <2>1. s[1] = <<"Rearm">> /\ Tail(s) \in Seq(PlainFrames) /\ 1 \in 1 .. Len(s)
    BY <1>1, <1>5 DEF FromRearm, Starts, Plain
  <2>2. \A i \in 1 .. Len(Tail(s)) : Tail(s)[i] \in PlainFrames
    BY <2>1
  <2>3. ASSUME NEW j \in 1 .. Len(s), s[j] = <<"Rearm">> PROVE j = 1
    BY <1>1, <1>3, <2>2, <2>3, FrameFacts
  <2> QED BY <1>2, <2>1, <2>3 DEF OneRearm
<1> QED BY <1>1, <1>4, <1>5

LEMMA RearmsFacts ==
  ASSUME Types
  PROVE  /\ Plain(stack) => Rearms = {}
         /\ Recovering => \E i : Rearms = {i}
<1>1. IsSeq(stack)
  BY DEF Types
<1>2. ASSUME Plain(stack) PROVE Rearms = {}
  <2>1. stack \in Seq(PlainFrames)
    BY <1>2 DEF Plain
  <2>2. \A i \in DOMAIN stack : stack[i] \in PlainFrames
    BY <2>1
  <2> QED BY <2>2, FrameFacts DEF Rearms
<1>3. ASSUME Recovering PROVE \E i : Rearms = {i}
  <2>1. \A s : IsSeq(s) /\ FromRearm(s) => OneRearm(s)
    BY RearmBelow DEF FromRearm, Starts
  <2>2. ASSUME NEW s, IsSeq(s), FromSetDeq(s) PROVE OneRearm(s)
    <3>1. s # <<>> /\ Head(s) # <<"Rearm">> /\ FromRearm(Tail(s))
      BY <2>2, KeyboardFrames DEF FromSetDeq, Starts, Commands
    <3> QED BY <2>1, <2>2, <3>1, RearmBelow
  <2>3. ASSUME NEW s, IsSeq(s), FromReset(s) PROVE OneRearm(s)
    <3>1. s # <<>> /\ Head(s) # <<"Rearm">> /\ FromSetDeq(Tail(s))
      BY <2>3, KeyboardFrames DEF FromReset, Starts, Commands
    <3> QED BY <2>2, <2>3, <3>1, RearmBelow
  <2>4. ASSUME NEW s, IsSeq(s), NEW op \in Commands,
               Awaits(s, op) \/ Interrupts(s), FromSetDeq(Tail(s)) \/ FromRearm(Tail(s))
        PROVE  OneRearm(s)
    <3>1. s # <<>> /\ Head(s) # <<"Rearm">>
      BY <2>4, KeyboardFrames DEF Awaits, Interrupts, Starts
    <3> QED BY <2>1, <2>2, <2>4, <3>1, RearmBelow
  <2>5. ASSUME NEW s, IsSeq(s), NEW op \in Commands, Aborting(s, op),
               FromSetDeq(Tail(Tail(s))) \/ FromRearm(Tail(Tail(s)))
        PROVE  OneRearm(s)
    <3>1. s # <<>> /\ Head(s) # <<"Rearm">> /\ Awaits(Tail(s), op)
      BY <2>5 DEF Aborting, Interrupts, Awaits, Starts
    <3>2. IsSeq(Tail(s))
      BY <2>5, <3>1, RearmBelow
    <3>3. OneRearm(Tail(s))
      BY <2>4, <2>5, <3>1, <3>2
    <3> QED BY <2>5, <3>1, <3>3, RearmBelow
  <2>6. "Reset" \in Commands /\ "SetDeq" \in Commands
    BY DEF Commands
  <2>7. ResetStage(stack, hw["int"], events, cmds) => OneRearm(stack)
    BY <1>1, <2>3, <2>4, <2>5, <2>6 DEF ResetStage
  <2>8. SetDeqStage(stack, ring["int"], hw["int"], events, cmds) => OneRearm(stack)
    BY <1>1, <2>2, <2>4, <2>5, <2>6 DEF SetDeqStage
  <2>9. RearmStage(stack, ring["int"], hw["int"], events, cmds) => OneRearm(stack)
    BY <1>1, <2>1, <2>4, <2>6 DEF RearmStage
  <2>10. OneRearm(stack)
    BY <1>3, <2>7, <2>8, <2>9 DEF Recovering
  <2> QED BY <2>10 DEF OneRearm, Rearms
<1> QED BY <1>2, <1>3

LEMMA ReportsFacts ==
  ASSUME Types
  PROVE  /\ NoReport(events) => IntEvents = {}
         /\ \A op : OneReport(events, op) => \E i : IntEvents = {i}
<1>1. DOMAIN events = 1 .. Len(events)
  <2>1. events \in Seq({events[i] : i \in 1 .. Len(events)})
    BY DEF Types, EventTypes, IsSeq
  <2> QED BY <2>1, LenProperties
<1>2. IntEvents = {i \in 1 .. Len(events) : Report(events[i])}
  BY <1>1 DEF IntEvents, Report
<1>3. NoReport(events) => IntEvents = {}
  BY <1>2 DEF NoReport
<1>4. ASSUME NEW op, OneReport(events, op) PROVE \E i : IntEvents = {i}
  <2>1. PICK i \in 1 .. Len(events) :
          Report(events[i]) /\ \A j \in 1 .. Len(events) : Report(events[j]) => j = i
    BY <1>4 DEF OneReport
  <2>2. IntEvents = {i}
    BY <1>2, <2>1
  <2> QED BY <2>2
<1> QED BY <1>3, <1>4

\* The TRBs that the controller still has
LEMMA OutstandingFacts ==
  ASSUME Types, Produced(ring["int"])
  PROVE  /\ Caught(ring["int"], hw["int"]) => Outstanding = 0
         /\ Armed(ring["int"], hw["int"]) => Outstanding = 1
<1> DEFINE r == ring["int"]
           h == hw["int"]
           mine(s) == r.trb[s].cycle = IF s >= h.deq THEN h.dcs ELSE 1 - h.dcs
           S == {s \in Slots("int") : mine(s)}
<1>1. /\ N \in Nat \ {0} /\ Slots("int") = 0 .. N - 1
      /\ r.enq \in 0 .. N /\ r.cycle \in {0, 1} /\ h.deq \in 0 .. N /\ h.dcs \in {0, 1}
  BY SizeFacts, RingFields DEF Types, ContextType
<1>2. \A s \in Slots("int") : r.trb[s].cycle = IF s < r.enq THEN r.cycle ELSE 1 - r.cycle
  BY DEF Produced
<1>3. Outstanding = Cardinality(S)
  BY DEF Outstanding
<1> DEFINE c == r.cycle
           n == r.enq
           d == h.deq
           b == h.dcs
<1>4. \A s \in 0 .. N - 1 : mine(s) <=>
        (IF s < n THEN c ELSE 1 - c) = (IF s >= d THEN b ELSE 1 - b)
  BY <1>1, <1>2
<1>5. N \in Nat \ {0} /\ n \in 0 .. N /\ c \in {0, 1} /\ d \in 0 .. N /\ b \in {0, 1}
  BY <1>1
<1>6. /\ Caught(r, h) => d = n /\ b = c
      /\ Armed(r, h) => n > 0 /\ ((d = n - 1 /\ b = c) \/ (d = N /\ n = 1 /\ b = 1 - c))
  BY DEF Caught, Armed
<1>7. S = {s \in 0 .. N - 1 : mine(s)}
  BY <1>1
<1> HIDE DEF r, h, mine, S, c, n, d, b
<1>8. ASSUME d = n, b = c PROVE Cardinality(S) = 0
  <2>1. \A s \in 0 .. N - 1 : ~mine(s)
    BY <1>4, <1>5, <1>8
  <2>2. S = {}
    BY <1>7, <2>1
  <2> QED BY <2>2, FS_EmptySet
<1>9. ASSUME n > 0, (d = n - 1 /\ b = c) \/ (d = N /\ n = 1 /\ b = 1 - c)
      PROVE  Cardinality(S) = 1
  <2>1. n - 1 \in 0 .. N - 1
    BY <1>5, <1>9
  <2>2. \A s \in 0 .. N - 1 : mine(s) <=> s = n - 1
    BY <1>4, <1>5, <1>9
  <2>3. S = {n - 1}
    BY <1>7, <2>1, <2>2
  <2> QED BY <2>3, FS_Singleton
<1> QED BY <1>3, <1>6, <1>8, <1>9 DEF r, h

LEMMA InvOnePoll == Inv => OnePollInFlight
<1> SUFFICES ASSUME Inv, polling
             PROVE  Cardinality(IntEvents) + Cardinality(Rearms) + pending
                      + (IF hw["int"].state = "Running" THEN Outstanding ELSE 0) = 1
  BY DEF OnePollInFlight
<1>1. Types /\ Produced(ring["int"]) /\ (Quiet \/ Recovering)
  BY DEF Inv
<1>2. /\ NoReport(events) => Cardinality(IntEvents) = 0
      /\ \A op : OneReport(events, op) => Cardinality(IntEvents) = 1
  BY <1>1, ReportsFacts, FS_EmptySet, FS_Singleton
<1>3. CASE Quiet
  <2>1. Cardinality(Rearms) = 0
    BY <1>1, <1>3, RearmsFacts, FS_EmptySet DEF Quiet
  <2>2. \/ hw["int"].state = "Running" /\ Outstanding = 1 /\ Cardinality(IntEvents) = 0 /\ pending = 0
        \/ hw["int"].state = "Running" /\ Outstanding = 0 /\ Cardinality(IntEvents) = 1 /\ pending = 0
        \/ hw["int"].state = "Running" /\ Outstanding = 0 /\ Cardinality(IntEvents) = 0 /\ pending = 1
        \/ hw["int"].state = "Halted" /\ Cardinality(IntEvents) = 1 /\ pending = 0
    BY <1>1, <1>2, <1>3, OutstandingFacts DEF Quiet, Polled
  <2> QED BY <2>1, <2>2
<1>4. CASE Recovering
  <2>1. Cardinality(Rearms) = 1
    BY <1>1, <1>4, RearmsFacts, FS_Singleton
  <2>2. Cardinality(IntEvents) = 0 /\ pending = 0 /\ hw["int"].state # "Running"
    BY <1>2, <1>4 DEF Recovering, ResetStage, SetDeqStage, RearmStage
  <2> QED BY <2>1, <2>2
<1> QED BY <1>1, <1>3, <1>4

\* The keyboard's poll is never lost and never doubled: with the controller, in
\* the event ring, held back during a mass storage transaction, or about to be
\* armed again after a stall, there is exactly one (XHCI_ProcessXferEvt,
\* XHCI_ProcessPendingInterruptTransfer, XHCI_ClearStalledEp), whatever happens
\* on the bulk endpoint and however often a command is aborted.
THEOREM PollNeverLost == Premise => (Spec => []OnePollInFlight)
<1> SUFFICES ASSUME Premise PROVE Spec => []OnePollInFlight
  OBVIOUS
<1>1. Spec => []Inv
  BY XhciInvariant
<1>2. Inv => OnePollInFlight
  BY InvOnePoll
<1> QED BY <1>1, <1>2, PTL

LEMMA InvFreed == Inv => FreedNotPolled
<1> SUFFICES ASSUME Inv, ~polling
             PROVE  /\ At(<<"Deinit">>) => ~Working("int")
                    /\ Idle => IntEvents = {} /\ pending = 0
  BY DEF FreedNotPolled
<1>1. Types
  BY DEF Inv
<1>2. ASSUME At(<<"Deinit">>) PROVE ~Working("int")
  <2>1. ASSUME hw["int"].state = "Running" PROVE FALSE
    <3>1. FirstStage(stack, hw["int"], events, cmds)
      BY <2>1, RunningFacts
    <3>2. \/ Starts(stack, <<"Stop", "int">>) \/ Awaits(stack, "Stop") \/ Interrupts(stack)
      BY <3>1 DEF FirstStage, FromFirst, Aborting
    <3>3. "Stop" \in Commands
      BY DEF Commands
    <3> QED BY <1>2, <3>2, <3>3, KeyboardFrames DEF At, Starts, Awaits, Interrupts
  <2> QED BY <2>1 DEF Working
<1>3. ASSUME Idle PROVE IntEvents = {} /\ pending = 0
  <2>1. Absent /\ pending = 0 /\ stack # << <<"Interrupt">> >>
    BY <1>3, IdleFacts
  <2>2. NoReport(events)
    BY <2>1 DEF Absent
  <2> QED BY <1>1, <2>1, <2>2, ReportsFacts
<1> QED BY <1>2, <1>3

\* XHCI_DeactivatePolling and XHCI_DeinitDeviceData: the controller does not work
\* on the ring of a keyboard whose slot is given up, and nothing of it is left in
\* the event ring when the next device may get the ring.
THEOREM FreedBufferSafe == Premise => (Spec => []FreedNotPolled)
<1> SUFFICES ASSUME Premise PROVE Spec => []FreedNotPolled
  OBVIOUS
<1>1. Spec => []Inv
  BY XhciInvariant
<1>2. Inv => FreedNotPolled
  BY InvFreed
<1> QED BY <1>1, <1>2, PTL
=============================================================================
