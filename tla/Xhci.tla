-------------------------------- MODULE Xhci --------------------------------
(***************************************************************************)
(* The xHCI driver of the USB stack (AmiModulePkg/Usb/Rt/Xhci.c): bulk     *)
(* transfers, the polling of a keyboard, the commands that recover an      *)
(* endpoint, and the processing of the event ring, run against a host      *)
(* controller that works on the same rings at the same time.               *)
(*                                                                         *)
(* The driver has one thread.  Its calls nest (XHCI_ProcessInterrupt can   *)
(* recover an endpoint, which waits for a command, which ends in           *)
(* XHCI_ProcessInterrupt again), so its control state is a stack: the head *)
(* says what is done next.                                                 *)
(***************************************************************************)
EXTENDS Integers, Sequences, FiniteSets, SequencesExt

CONSTANTS
    Size,        \* Size[e]: the TRBs of the transfer ring of e before its Link
    TdMax,       \* XHCI_BOT_TD_MAXSIZE, also the boundary no TRB may span
    MaxXfr,      \* XHCI_BOT_MAX_XFR_SIZE
    MaxPending,  \* XHCI_MAX_PENDING_INTERRUPT_TRANSFER
    MaxEvents,   \* the length of the event ring
    Transfers,   \* the bulk transfers: <<address of the buffer, length>>
    MaxReports,  \* answers of the keyboard during one call of the driver
    Aborts,      \* commands <<op, e>> that an abort may cancel
    LateHalt,    \* the storage device may fail after the driver timed out
    SlowRetire   \* the controller may still walk through a TD that a short packet
                 \* ended when XHCI_ProcessInterrupt has returned

Endpoints == {"bulk", "int"}
Commands == {"Stop", "Reset", "SetDeq"}

\* The state of an endpoint that a command is for
StateFor == [Stop |-> "Running", Reset |-> "Halted", SetDeq |-> "Stopped"]

ASSUME XhciAssumption ==
    /\ Size \in [Endpoints -> Nat \ {0}]
    /\ {TdMax, MaxXfr, MaxPending, MaxEvents, MaxReports} \subseteq Nat \ {0}
    /\ Transfers \subseteq Nat \X (Nat \ {0})
    /\ Aborts \subseteq Commands \X Endpoints
    /\ LateHalt \in BOOLEAN /\ SlowRetire \in BOOLEAN
    \* A TD fits in its ring
    /\ (MaxXfr \div TdMax) + 1 <= Size["bulk"]

VARIABLES
    ring,      \* ring[e]: the transfer ring in memory and the driver's TRB_RING
    hw,        \* hw[e]: the endpoint context and the dequeue pointer
    events,    \* the event ring
    cmds,      \* commands in the command ring that are not executed
    stack,     \* what the driver does next, and after that
    xfer,      \* the locals of XHCI_BulkTransfer
    moved,     \* the bytes moved by the controller for this bulk transfer
    polling,   \* fpPollTDPtr # NULL
    pending,   \* entries of PendingInterruptTransfer
    processing,\* ProcessingPeriodicList
    reports    \* answers of the keyboard during this call

vars == <<ring, hw, events, cmds, stack, xfer, moved, polling, pending, processing, reports>>

None == -1
Slots(e) == 0 .. Size[e] - 1
ClearTrb == [cycle |-> 0, len |-> 0, chain |-> FALSE, ioc |-> FALSE]

\* XHCI_InitRing, and the context that Configure Endpoint gives a new ring
NewRing(e) == [trb |-> [s \in Slots(e) |-> ClearTrb],
               link |-> [cycle |-> 0, chain |-> FALSE], enq |-> 0, cycle |-> 1]
NewContext == [state |-> "Running", deq |-> 0, dcs |-> 1, skip |-> FALSE]
Disabled == [NewContext EXCEPT !.state = "Disabled"]

NoXfer == [ptr |-> 0, left |-> 0, fill |-> 0, round |-> 0, first |-> None,
           length |-> 0, size |-> 0, residual |-> 0, code |-> "none"]

At(frame) == stack # <<>> /\ Head(stack) = frame
Idle == stack = <<>>

\* The next step of the current frame is replaced by the steps s
Goto(s) == stack' = s \o Tail(stack)
ProcessInterrupt == << <<"Interrupt">> >>

-----------------------------------------------------------------------------
\* The producer's side of a transfer ring

\* The slot that XHCI_AdvanceEnqueuePtr returns, and the ring after it
NextSlot(r, e) == IF r.enq = Size[e] THEN 0 ELSE r.enq

AdvanceEnqueuePtr(r, e) ==
    IF r.enq = Size[e]
    THEN [r EXCEPT !.link.cycle = r.cycle, !.cycle = 1 - r.cycle, !.enq = 1,
                   !.trb[0] = [ClearTrb EXCEPT !.cycle = r.trb[0].cycle]]
    ELSE [r EXCEPT !.enq = @ + 1,
                   !.trb[r.enq] = [ClearTrb EXCEPT !.cycle = r.trb[r.enq].cycle]]

\* The bytes of the next TRB of a TD
XfrTdSize(left, ptr) ==
    LET room == TdMax - (ptr % TdMax) IN IF left > room THEN room ELSE left

\* The TRB for a poll of the keyboard is queued and the doorbell rung
Doorbell(h) == IF h.state = "Stopped" THEN [h EXCEPT !.state = "Running"] ELSE h

QueuePoll(r) ==
    LET s == NextSlot(r, "int")
        n == AdvanceEnqueuePtr(r, "int")
    IN  [n EXCEPT !.trb[s] = [cycle |-> n.cycle, len |-> 1, chain |-> FALSE, ioc |-> TRUE]]

Rearm == /\ ring' = [ring EXCEPT !["int"] = QueuePoll(@)]
         /\ hw' = [hw EXCEPT !["int"] = Doorbell(@)]

-----------------------------------------------------------------------------
\* The host controller

Executable(e) == LET h == hw[e] IN
    IF h.deq = Size[e] THEN ring[e].link.cycle = h.dcs ELSE ring[e].trb[h.deq].cycle = h.dcs

Post(evs) == /\ Len(events) + Len(evs) <= MaxEvents
             /\ events' = events \o evs

XferEvt(e, code, residual) ==
    [type |-> "xfer", ep |-> e, op |-> code, residual |-> residual, slot |-> hw[e].deq]
CmdEvt(c) == [type |-> "cmd", ep |-> c.ep, op |-> c.op, residual |-> 0, slot |-> None]

Working(e) == hw[e].state = "Running" /\ Executable(e)

HwLink(e) ==
    /\ Working(e) /\ hw[e].deq = Size[e]
    /\ hw' = [hw EXCEPT ![e].deq = 0, ![e].dcs = 1 - @,
                        ![e].skip = @ /\ ring[e].link.chain]
    /\ UNCHANGED <<ring, events, cmds, stack, xfer, moved, polling, pending, processing, reports>>

\* The TRB is done: all its bytes are moved, or the device sent a short packet,
\* which ends the TD
HwTransfer(e, residual) ==
    LET t == ring[e].trb[hw[e].deq] IN
    /\ Working(e) /\ hw[e].deq < Size[e] /\ ~hw[e].skip
    /\ residual <= t.len
    /\ e = "int" => reports < MaxReports
    /\ Post(IF residual > 0 THEN <<XferEvt(e, "short", residual)>>
            ELSE IF t.ioc THEN <<XferEvt(e, "success", 0)>> ELSE <<>>)
    /\ hw' = [hw EXCEPT ![e].deq = @ + 1, ![e].skip = residual > 0 /\ t.chain]
    /\ moved' = IF e = "bulk" THEN moved + t.len - residual ELSE moved
    /\ reports' = IF e = "int" THEN reports + 1 ELSE reports
    /\ UNCHANGED <<ring, cmds, stack, xfer, polling, pending, processing>>

\* After a short packet the controller walks to the end of the TD and posts a
\* second event if the last TRB asks for one
HwRetire(e) ==
    LET t == ring[e].trb[hw[e].deq] IN
    /\ Working(e) /\ hw[e].deq < Size[e] /\ hw[e].skip
    /\ Post(IF t.ioc THEN <<XferEvt(e, "short", t.len)>> ELSE <<>>)
    /\ hw' = [hw EXCEPT ![e].deq = @ + 1, ![e].skip = t.chain]
    /\ UNCHANGED <<ring, cmds, stack, xfer, moved, polling, pending, processing, reports>>

\* The device answers STALL, or there is a transaction error or babble
HwHalt(e, code) ==
    /\ Working(e) /\ hw[e].deq < Size[e] /\ ~hw[e].skip
    /\ IF e = "int" THEN reports < MaxReports ELSE LateHalt \/ At(<<"WaitXfer">>)
    /\ Post(<<XferEvt(e, code, ring[e].trb[hw[e].deq].len)>>)
    /\ hw' = [hw EXCEPT ![e].state = "Halted"]
    /\ reports' = IF e = "int" THEN reports + 1 ELSE reports
    /\ UNCHANGED <<ring, cmds, stack, xfer, moved, polling, pending, processing>>

\* Whether a command finds the endpoint in the state it is for
Fits(c) == hw[c.ep].state = StateFor[c.op]

\* The controller gives up a command because of an abort
Cancelled(c) == /\ <<c.op, c.ep>> \in Aborts
                /\ \E op \in Commands, e \in Endpoints : At(<<"WaitAbort", op, e>>)

\* The next command is executed, or ends without an effect
HwCommand ==
    /\ cmds # <<>>
    /\ cmds' = Tail(cmds)
    /\ LET c == Head(cmds) IN
       \/ /\ Fits(c) /\ c.op = "Stop"
          /\ hw' = [hw EXCEPT ![c.ep].state = "Stopped"]
          /\ \/ Post(<<CmdEvt(c)>>)
             \/ Executable(c.ep) /\ Post(<<XferEvt(c.ep, "stopped", 0), CmdEvt(c)>>)
       \/ /\ Fits(c) /\ c.op = "Reset"
          /\ hw' = [hw EXCEPT ![c.ep].state = "Stopped"]
          /\ Post(<<CmdEvt(c)>>)
       \/ /\ Fits(c) /\ c.op = "SetDeq"
          /\ hw' = [hw EXCEPT ![c.ep].deq = c.deq, ![c.ep].dcs = c.dcs, ![c.ep].skip = FALSE]
          /\ Post(<<CmdEvt(c)>>)
       \/ /\ ~Fits(c) \/ Cancelled(c)
          /\ Post(<<CmdEvt(c)>>)
          /\ UNCHANGED hw
    /\ UNCHANGED <<ring, stack, xfer, moved, polling, pending, processing, reports>>

Controller ==
    \/ \E e \in Endpoints : HwLink(e) \/ HwRetire(e)
    \/ \E code \in {"stall", "error"} : HwHalt("bulk", code)
    \/ HwHalt("int", "stall")
    \/ \E residual \in 0 .. TdMax : HwTransfer("bulk", residual)
    \/ HwTransfer("int", 0)
    \/ HwCommand

-----------------------------------------------------------------------------
\* XHCI_ExecuteCommand.  The test of EpState in front of it is in the functions
\* that recover an endpoint.

Command(op, e) ==
    /\ At(<<op, e>>)
    /\ IF hw[e].state = StateFor[op]
       THEN /\ cmds' = Append(cmds, [op |-> op, ep |-> e, deq |-> ring[e].enq, dcs |-> ring[e].cycle])
            /\ Goto(<< <<"Wait", op, e>> >>)
       ELSE UNCHANGED cmds /\ Goto(<<>>)
    /\ UNCHANGED <<ring, hw, events, xfer, moved, polling, pending, processing, reports>>

Completed(op, e) ==
    \E i \in DOMAIN events : events[i].type = "cmd" /\ events[i].op = op /\ events[i].ep = e

\* XHCI_WaitForEvent: the completion is there, or the time is over and the
\* command is aborted.  Both look at the event ring before they return.
CommandDone(op, e) ==
    /\ At(<<"Wait", op, e>>) \/ At(<<"WaitAbort", op, e>>)
    /\ Completed(op, e)
    /\ Goto(ProcessInterrupt)
    /\ UNCHANGED <<ring, hw, events, cmds, xfer, moved, polling, pending, processing, reports>>

\* Mutant of CommandTimeout: the driver waits again for the same completion
WaitAgain(op, e) ==
    /\ At(<<"Wait", op, e>>) /\ ~Completed(op, e)
    /\ Goto(ProcessInterrupt \o << <<"Wait", op, e>> >>)
    /\ UNCHANGED <<ring, hw, events, cmds, xfer, moved, polling, pending, processing, reports>>

CommandTimeout(op, e) ==
    /\ At(<<"Wait", op, e>>) /\ ~Completed(op, e)
    /\ Goto(ProcessInterrupt \o << <<"WaitAbort", op, e>> >>)
    /\ UNCHANGED <<ring, hw, events, cmds, xfer, moved, polling, pending, processing, reports>>

\* The controller has obeyed the abort when the second wait ends
AbortTimeout(op, e) ==
    /\ At(<<"WaitAbort", op, e>>) /\ ~Completed(op, e) /\ cmds = <<>>
    /\ Goto(ProcessInterrupt)
    /\ UNCHANGED <<ring, hw, events, cmds, xfer, moved, polling, pending, processing, reports>>

ClearStalledEp(e) == << <<"Reset", e>>, <<"SetDeq", e>> >>
ClearEndpointState(e) == << <<"Stop", e>>, <<"SetDeq", e>> >>

-----------------------------------------------------------------------------
\* XHCI_ProcessInterrupt

\* Reports that were held back during a mass storage transaction come first
HeldBack == processing /\ polling /\ pending > 0
Draining == At(<<"Interrupt">>) /\ ~HeldBack

\* Mutant of ProcessPending: the report is delivered, the poll is not armed
DeliverPending ==
    /\ At(<<"Interrupt">>) /\ HeldBack
    /\ pending' = pending - 1
    /\ UNCHANGED <<ring, hw, events, cmds, stack, xfer, moved, polling, processing, reports>>

ProcessPending ==
    /\ At(<<"Interrupt">>) /\ HeldBack
    /\ Rearm
    /\ pending' = pending - 1
    /\ UNCHANGED <<events, cmds, stack, xfer, moved, polling, processing, reports>>

\* The end of the event ring
DrainEnd ==
    /\ Draining /\ events = <<>>
    /\ Goto(<<>>)
    /\ UNCHANGED <<ring, hw, events, cmds, xfer, moved, polling, pending, processing, reports>>

\* Events of commands, of bulk transfers (no device polls their buffer) and of
\* a device that is not polled any more
Ignored(v) == v.type = "cmd" \/ v.ep = "bulk" \/ ~polling

DrainIgnore ==
    /\ Draining /\ events # <<>> /\ Ignored(Head(events))
    /\ events' = Tail(events)
    /\ UNCHANGED <<ring, hw, cmds, stack, xfer, moved, polling, pending, processing, reports>>

\* XHCI_ProcessXferEvt for the keyboard: its next event, with code op.  (The
\* endpoint is only stopped when its buffer is freed, so that no Stopped event
\* gets here.)
KeyboardEvent(op) ==
    /\ Draining /\ events # <<>> /\ ~Ignored(Head(events)) /\ Head(events).op = op
    /\ events' = Tail(events)
    /\ UNCHANGED <<cmds, xfer, moved, polling, processing, reports>>

Postponed == ~processing /\ pending < MaxPending

\* Mutant of HoldReport: the poll is armed although the report is held back
HoldAndRearm ==
    /\ KeyboardEvent("success") /\ Postponed
    /\ pending' = pending + 1
    /\ Rearm
    /\ UNCHANGED stack

HoldReport ==
    /\ KeyboardEvent("success") /\ Postponed
    /\ pending' = pending + 1
    /\ UNCHANGED <<ring, hw, stack>>

\* The callback gets the report, and the poll is armed again
DeliverReport ==
    /\ KeyboardEvent("success") /\ ~Postponed
    /\ Rearm
    /\ UNCHANGED <<stack, pending>>

RecoverPoll ==
    /\ KeyboardEvent("stall")
    /\ stack' = ClearStalledEp("int") \o << <<"Rearm">> >> \o stack
    /\ UNCHANGED <<ring, hw, pending>>

RearmStalled ==
    /\ At(<<"Rearm">>)
    /\ IF polling THEN Rearm ELSE UNCHANGED <<ring, hw>>
    /\ Goto(<<>>)
    /\ UNCHANGED <<events, cmds, xfer, moved, polling, pending, processing, reports>>

-----------------------------------------------------------------------------
\* XHCI_BulkTransfer

\* What is left of the locals when the transfer returns
Finished(size, code) == [NoXfer EXCEPT !.size = size, !.code = code]

RingDataSize(left) == IF left > MaxXfr THEN MaxXfr ELSE left

BulkTransfer(ptr, length) ==
    /\ Idle /\ ~processing /\ xfer.code # "stall"
    /\ LET round == RingDataSize(length) IN
       xfer' = [NoXfer EXCEPT !.ptr = ptr, !.length = length, !.left = length,
                              !.round = round, !.fill = round]
    /\ moved' = 0 /\ reports' = 0
    /\ stack' = << <<"Fill">> >>
    /\ UNCHANGED <<ring, hw, events, cmds, polling, pending, processing>>

\* One pass of the inner loop: the cycle bit of the first TRB is written last
FillTrb ==
    LET r == ring["bulk"]
        s == NextSlot(r, "bulk")
        n == AdvanceEnqueuePtr(r, "bulk")
        len == XfrTdSize(xfer.fill, xfer.ptr)
        chain == xfer.fill > len
        cycle == IF xfer.first = None THEN n.trb[s].cycle ELSE n.cycle
    IN
    /\ At(<<"Fill">>) /\ xfer.fill > 0
    /\ ring' = [ring EXCEPT !["bulk"] =
                  [n EXCEPT !.trb[s] = [cycle |-> cycle, len |-> len, chain |-> chain, ioc |-> ~chain]]]
    /\ xfer' = [xfer EXCEPT !.first = IF @ = None THEN s ELSE @,
                            !.fill = @ - len, !.ptr = @ + len]
    /\ UNCHANGED <<hw, events, cmds, stack, moved, polling, pending, processing, reports>>

\* The Link gets its Chain flag, the first TRB is handed over, the doorbell is
\* rung; an endpoint that does not run ends the transfer
RingDoorbell ==
    LET r == ring["bulk"]
        wrapped == r.enq - 1 < xfer.first
        h == Doorbell(hw["bulk"])
    IN
    /\ At(<<"Fill">>) /\ xfer.fill = 0
    /\ ring' = [ring EXCEPT !["bulk"].link.chain = wrapped \/ @,
                            !["bulk"].trb[xfer.first].cycle = IF wrapped THEN 1 - r.cycle ELSE r.cycle]
    /\ hw' = [hw EXCEPT !["bulk"] = h]
    /\ IF h.state = "Running"
       THEN Goto(<< <<"WaitXfer">> >>) /\ UNCHANGED xfer
       ELSE Goto(<<>>) /\ xfer' = Finished(xfer.size, "none")
    /\ UNCHANGED <<events, cmds, moved, polling, pending, processing, reports>>

\* The slots of a TD from slot s to its end
TdSlots(s) ==
    LET next(k) == (s + k) % Size["bulk"]
        last == Min({k \in 0 .. Size["bulk"] - 1 : ~ring["bulk"].trb[next(k)].chain})
    IN  {next(k) : k \in 0 .. last}

\* Mutant of Residual: what the event says, without the TRBs after the short one
EventResidual(v) == v.residual

\* After a short packet the TRBs up to the end of the TD are not transferred
Residual(v) ==
    IF v.op = "short"
    THEN v.residual + MapThenSumSet(LAMBDA s : ring["bulk"].trb[s].len, TdSlots(v.slot) \ {v.slot})
    ELSE v.residual

\* Mutant of QuietTd: the last TRB of the TD still asks for an event
LoudTd(v) == ring["bulk"].trb

\* ... and are told not to report anything any more
QuietTd(v) ==
    [s \in Slots("bulk") |-> IF v.op = "short" /\ s \in TdSlots(v.slot)
                             THEN [ring["bulk"].trb[s] EXCEPT !.ioc = FALSE]
                             ELSE ring["bulk"].trb[s]]

\* XHCI_WaitForEvent takes the first event of the endpoint
BulkEvents == {i \in DOMAIN events : events[i].type = "xfer" /\ events[i].ep = "bulk"}

XferDone ==
    /\ At(<<"WaitXfer">>) /\ BulkEvents # {}
    /\ LET v == events[Min(BulkEvents)] IN
       /\ xfer' = [xfer EXCEPT !.code = v.op, !.residual = Residual(v)]
       /\ ring' = [ring EXCEPT !["bulk"].trb = QuietTd(v)]
    /\ Goto(ProcessInterrupt \o << <<"Result">> >>)
    /\ UNCHANGED <<hw, events, cmds, moved, polling, pending, processing, reports>>

XferTimeout ==
    /\ At(<<"WaitXfer">>) /\ BulkEvents = {}
    /\ xfer' = [xfer EXCEPT !.code = "timeout"]
    /\ Goto(ProcessInterrupt \o << <<"Result">> >>)
    /\ UNCHANGED <<ring, hw, events, cmds, moved, polling, pending, processing, reports>>

\* What the transfer does with the completion code
XferResult ==
    LET size == xfer.size + xfer.round - xfer.residual
        left == xfer.left - xfer.round
        more == xfer.residual = 0 /\ size < xfer.length
    IN
    /\ At(<<"Result">>) /\ (SlowRetire \/ ~hw["bulk"].skip)
    /\ ring' = [ring EXCEPT !["bulk"].link.chain = FALSE]
    /\ IF xfer.code \in {"success", "short"}
       THEN /\ xfer' = IF more
                       THEN [xfer EXCEPT !.size = size, !.left = left, !.first = None,
                                         !.round = RingDataSize(left), !.fill = RingDataSize(left)]
                       ELSE Finished(size, xfer.code)
            /\ Goto(IF more THEN << <<"Fill">> >> ELSE <<>>)
       ELSE /\ Goto(CASE xfer.code = "error" -> ClearStalledEp("bulk")
                      [] xfer.code = "stall" -> << <<"Reset", "bulk">> >>
                      [] xfer.code = "timeout" -> ClearEndpointState("bulk")
                      [] OTHER -> <<>>)
            /\ xfer' = Finished(xfer.size, xfer.code)
    /\ UNCHANGED <<hw, events, cmds, moved, polling, pending, processing, reports>>

-----------------------------------------------------------------------------
\* The callers of the driver

\* USBMassIssueMassTransaction: reports are held back during a transaction
BeginTransaction ==
    /\ Idle /\ processing
    /\ processing' = FALSE
    /\ UNCHANGED <<ring, hw, events, cmds, stack, xfer, moved, polling, pending, reports>>

EndTransaction ==
    /\ Idle /\ ~processing /\ xfer.code # "stall"
    /\ processing' = TRUE
    /\ stack' = ProcessInterrupt
    /\ reports' = 0
    /\ UNCHANGED <<ring, hw, events, cmds, xfer, moved, polling, pending>>

\* USBMassClearBulkEndpointStall, which follows every stall: the control
\* transfer ends in XHCI_ProcessInterrupt and XHCI_ClearEndpointState
ClearFeature ==
    /\ Idle /\ ~processing
    /\ stack' = ProcessInterrupt \o ClearEndpointState("bulk")
    /\ xfer' = NoXfer
    /\ moved' = 0 /\ reports' = 0
    /\ UNCHANGED <<ring, hw, events, cmds, polling, pending, processing>>

\* The periodic SMI
Poll ==
    /\ Idle /\ processing
    /\ stack' = ProcessInterrupt
    /\ reports' = 0
    /\ UNCHANGED <<ring, hw, events, cmds, xfer, moved, polling, pending, processing>>

\* A keyboard is connected: its ring is initialised, XHCI_ActivatePolling
ActivatePolling ==
    /\ Idle /\ processing /\ ~polling
    /\ polling' = TRUE
    /\ ring' = [ring EXCEPT !["int"] = QueuePoll(NewRing("int"))]
    /\ hw' = [hw EXCEPT !["int"] = NewContext]
    /\ UNCHANGED <<events, cmds, stack, xfer, moved, pending, processing, reports>>

\* Mutant of DeactivatePolling: the endpoint is not stopped
ForgetPolling ==
    /\ Idle /\ processing /\ polling
    /\ polling' = FALSE
    /\ stack' = << <<"Deinit">> >>
    /\ reports' = 0
    /\ UNCHANGED <<ring, hw, events, cmds, xfer, moved, pending, processing>>

\* A keyboard is disconnected: XHCI_DeactivatePolling frees the buffer and stops
\* the endpoint, XHCI_DeinitDeviceData stops it if it still runs
DeactivatePolling ==
    /\ Idle /\ processing /\ polling
    /\ polling' = FALSE
    /\ stack' = ClearEndpointState("int") \o << <<"Stop", "int">>, <<"Deinit">> >>
    /\ reports' = 0
    /\ UNCHANGED <<ring, hw, events, cmds, xfer, moved, pending, processing>>

\* ... and then clears its ring and disables the slot, a command as well
DeinitDeviceData ==
    /\ At(<<"Deinit">>)
    /\ ring' = [ring EXCEPT !["int"] = NewRing("int")]
    /\ hw' = [hw EXCEPT !["int"] = Disabled]
    /\ Goto(ProcessInterrupt)
    /\ UNCHANGED <<events, cmds, xfer, moved, polling, pending, processing, reports>>

-----------------------------------------------------------------------------
Init ==
    /\ ring = [e \in Endpoints |-> NewRing(e)]
    /\ hw = [bulk |-> NewContext, int |-> Disabled]
    /\ events = <<>> /\ cmds = <<>> /\ stack = <<>>
    /\ xfer = NoXfer /\ moved = 0
    /\ polling = FALSE /\ pending = 0 /\ processing = TRUE /\ reports = 0

Driver ==
    \/ \E op \in Commands, e \in Endpoints :
          Command(op, e) \/ CommandDone(op, e) \/ CommandTimeout(op, e) \/ AbortTimeout(op, e)
    \/ ProcessPending \/ DrainEnd \/ DrainIgnore \/ HoldReport \/ DeliverReport
    \/ RecoverPoll \/ RearmStalled
    \/ FillTrb \/ RingDoorbell \/ XferDone \/ XferTimeout \/ XferResult
    \/ DeinitDeviceData

Caller ==
    \/ \E t \in Transfers : BulkTransfer(t[1], t[2])
    \/ ClearFeature \/ BeginTransaction \/ EndTransaction \/ Poll
    \/ ActivatePolling \/ DeactivatePolling

Next == Controller \/ Driver \/ Caller

\* The driver's thread goes on, the controller executes commands and follows
\* its rings, a transaction is a few transfers long and the SMI keeps coming.
\* No device has to answer.
Fairness ==
    /\ WF_vars(Driver)
    /\ WF_vars(HwCommand)
    /\ \A e \in Endpoints : WF_vars(HwLink(e)) /\ WF_vars(HwRetire(e))
    /\ SF_vars(EndTransaction) /\ SF_vars(ClearFeature)
    /\ SF_vars(Poll)

Spec == Init /\ [][Next]_vars /\ Fairness

-----------------------------------------------------------------------------
TypeOK ==
    /\ \A e \in Endpoints :
          /\ ring[e].trb \in [Slots(e) -> [cycle : {0, 1}, len : 0 .. TdMax, chain : BOOLEAN, ioc : BOOLEAN]]
          /\ ring[e].enq \in 0 .. Size[e] /\ ring[e].cycle \in {0, 1}
          /\ hw[e] \in [state : {"Running", "Stopped", "Halted", "Disabled"}, deq : 0 .. Size[e],
                        dcs : {0, 1}, skip : BOOLEAN]
    /\ Len(events) <= MaxEvents
    /\ xfer.round \in 0 .. MaxXfr /\ xfer.fill \in 0 .. xfer.round
    /\ xfer.residual \in 0 .. MaxXfr /\ xfer.first \in Slots("bulk") \cup {None}
    /\ pending \in 0 .. MaxPending /\ reports \in 0 .. MaxReports
    /\ polling \in BOOLEAN /\ processing \in BOOLEAN

\* The size a bulk transfer reports: the device moved that much for this
\* transfer, and exactly that much unless the transfer failed.
SizeAccurate ==
    Idle => /\ xfer.size <= moved
            /\ xfer.code \in {"success", "short"} => xfer.size = moved

\* A transfer leaves nothing behind that the next one could meet: no event,
\* no TRB the controller would execute, and no halted endpoint.
NothingLeftBehind ==
    Idle /\ xfer.code # "stall" =>
        BulkEvents = {} /\ ~Executable("bulk") /\ hw["bulk"].state # "Halted"

\* TRBs of the interrupt endpoint that belong to the controller
Outstanding == LET h == hw["int"] IN
    Cardinality({s \in Slots("int") :
        ring["int"].trb[s].cycle = IF s >= h.deq THEN h.dcs ELSE 1 - h.dcs})

IntEvents == {i \in DOMAIN events : events[i].type = "xfer" /\ events[i].ep = "int"}
Rearms == {i \in DOMAIN stack : stack[i] = <<"Rearm">>}

\* The keyboard has one poll in flight: with the controller, in the event ring,
\* held back, or about to be armed again after an error.
OnePollInFlight ==
    polling => Cardinality(IntEvents) + Cardinality(Rearms) + pending
               + (IF hw["int"].state = "Running" THEN Outstanding ELSE 0) = 1

\* The buffer that XHCI_DeactivatePolling has freed: the controller does not
\* write to it any more when the slot is given up, and no event about it is left
\* for the next device that gets the ring.
FreedNotPolled ==
    ~polling => /\ At(<<"Deinit">>) => ~Working("int")
                /\ Idle => IntEvents = {} /\ pending = 0

\* Every call of the driver returns.
CallsReturn == ~Idle ~> Idle

\* A keyboard that is polled is armed again and again.
PollingGoesOn == polling ~> (~polling \/ (Working("int") /\ Outstanding = 1))
=============================================================================
