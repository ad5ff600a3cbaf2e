------------------------------ MODULE DxeEvent ------------------------------
(***************************************************************************)
(* Events, timers and task priority levels (TPLs) of the DXE core.         *)
(*                                                                         *)
(* There is one processor.  What runs on it is a stack of calls: the       *)
(* application or driver at the bottom, and on top of it the core's        *)
(* services, the notification functions they dispatch and the timer        *)
(* interrupts that preempt all of them.  The core's locks only raise the   *)
(* TPL: code at TPL_HIGH_LEVEL has the interrupts disabled, so a section   *)
(* under gEventQueueLock or mEfiSystemTimeLock is one step; it ends at     *)
(* TPL_HIGH_LEVEL with the RestoreTpl of the lock's release still to run.  *)
(* Code at a lower TPL is cut into steps wherever an interrupt could tell. *)
(***************************************************************************)
EXTENDS Integers, Sequences, SequencesExt, FiniteSetsExt

CONSTANTS
  Events,        \* the events drivers and applications may create
  Kind,          \* [Events -> {"signal", "wait", "none"}]: EVT_NOTIFY_SIGNAL/_WAIT
  TimerEvents,   \* the events of type EVT_TIMER
  TplOf,         \* [Events -> TPLs]: NotifyTpl
  GroupOf,       \* [Events -> groups]: EventGroup
  NoGroup,       \* the event was made by CreateEvent (ExFlag is FALSE)
  Existing,      \* the events that exist from the start, the newest first
  WaitLists,     \* the arrays WaitForEvent may be called with
  Delays,        \* the trigger times SetTimer may be called with
  Durations,     \* what MeasureTimeLost may return
  AppCalls,      \* the services the application calls
  NotifyCalls,   \* the services notification functions call
  MaxCalls,      \* bound on the calls of services
  MaxTime        \* bound on the system time, which stops there (ticks go on)

Application == 4
Callback    == 8
Notify      == 16
HighLevel   == 31
TimerTpl    == HighLevel - 1
NotifyTpls  == {Callback, Notify, TimerTpl}

CheckTimerEvent == "mEfiCheckTimerEvent"
App == "application"

ASSUME DxeEventAssumption ==
  /\ {CheckTimerEvent, App} \cap Events = {}
  /\ Kind \in [Events -> {"signal", "wait", "none"}]
  /\ TplOf \in [Events -> {Callback, Notify}]
  /\ DOMAIN GroupOf = Events
  /\ TimerEvents \subseteq Events
  /\ Existing \in Seq(Events)
  /\ WaitLists \subseteq Seq(Events) \ {<<>>}
  /\ Delays \subseteq Nat /\ Durations \subseteq Nat \ {0}
  /\ MaxCalls \in Nat /\ MaxTime \in Nat

AllEvents == Events \cup {CheckTimerEvent}
KindOf(e) == IF e = CheckTimerEvent THEN "signal" ELSE Kind[e]
NotifyTpl(e) == IF e = CheckTimerEvent THEN TimerTpl ELSE TplOf[e]
Grouped(e) == e # CheckTimerEvent /\ GroupOf[e] # NoGroup

VARIABLES
  tpl,      \* gEfiCurrentTpl
  intr,     \* the processor's interrupts are enabled
  stack,    \* the calls under way, the running one last
  queue,    \* gEventQueue
  pending,  \* gEventPending
  sig,      \* SignalCount
  timers,   \* mEfiTimerList
  trigger,  \* Timer.TriggerTime
  period,   \* Timer.Period
  now,      \* mEfiSystemTime
  sigList,  \* gEventSignalQueue
  live,     \* the events that exist
  closed,   \* the events that were closed and freed
  calls     \* the calls of services so far

cpu     == <<tpl, intr, stack>>
notices == <<queue, pending, sig>>
clock   == <<timers, trigger, period, now>>
objects == <<sigList, live, closed>>
vars    == <<cpu, notices, clock, objects, calls>>
------------------------------------------------------------------------------
(***************************************************************************)
(* The stack                                                               *)
(***************************************************************************)
Top == Last(stack)
Under == Front(stack)
At(pc) == Top.at = pc

Restore(t) == [at |-> "restore", tpl |-> t]
Lower(t) == [at |-> "lower", tpl |-> t]
Dispatch(t) == [at |-> "dispatch", tpl |-> t]
Code(pc, owner, t, old) == [at |-> pc, ev |-> owner, level |-> t, tpl |-> old]
Call(pc, e) == [at |-> pc, ev |-> e]
Checking(t) == [at |-> "checkTimers", time |-> t]

\* A section under a lock of TPL_HIGH_LEVEL, up to the RestoreTpl of its
\* release: fs is what remains to be run afterwards.
Locked(fs) ==
  /\ tpl' = HighLevel
  /\ intr' = FALSE
  /\ stack' = Append(fs, Restore(tpl))

\* Goes on at the same TPL.
Continue(fs) == stack' = fs /\ UNCHANGED <<tpl, intr>>
------------------------------------------------------------------------------
(***************************************************************************)
(* Event queues                                                            *)
(***************************************************************************)
\* The elements of a list that are in a set, in their order: SelectSeq, as a
\* recursive function that can be reasoned about.
Keep(s, S) ==
  LET kept[n \in 0 .. Len(s)] ==
        IF n = 0 THEN <<>>
        ELSE IF s[n] \in S THEN Append(kept[n - 1], s[n]) ELSE kept[n - 1]
  IN  kept[Len(s)]

Unlink(s, e) == Keep(s, AllEvents \ {e})

\* The notifications of a sequence of events that are of level p.
OfLevel(evs, p) == Keep(evs, {x \in AllEvents : NotifyTpl(x) = p})

\* Mutant: the event is queued and its level is not marked.
NotifyEventsUnmarked(evs) ==
  /\ queue' = [p \in NotifyTpls |->
                 Keep(queue[p], AllEvents \ Range(evs)) \o OfLevel(evs, p)]
  /\ UNCHANGED pending

\* CoreNotifyEvent for every event of a sequence: each is moved to the end
\* of the queue of its TPL.
CoreNotifyEvents(evs) ==
  /\ queue' = [p \in NotifyTpls |->
                 Keep(queue[p], AllEvents \ Range(evs)) \o OfLevel(evs, p)]
  /\ pending' = pending \cup {p \in NotifyTpls : \E x \in Range(evs) : NotifyTpl(x) = p}

\* The members of the event's group that CoreNotifySignalList finds.
GroupMembers(e) == Keep(sigList, {x \in Events : GroupOf[x] = GroupOf[e]})

\* CoreSignalEvent where no notification can run in between (the caller
\* holds a lock of TPL_HIGH_LEVEL - 1 or higher).
SignalMasked(e) ==
  IF sig[e] = 1 THEN UNCHANGED notices
  ELSE /\ sig' = [sig EXCEPT ![e] = 1]
       /\ IF KindOf(e) = "signal"
          THEN CoreNotifyEvents(IF Grouped(e) THEN GroupMembers(e) ELSE <<e>>)
          ELSE UNCHANGED <<queue, pending>>
------------------------------------------------------------------------------
(***************************************************************************)
(* Task priority levels                                                    *)
(***************************************************************************)
\* Mutant: the mask of RestoreTpl also keeps the bit of the new TPL.
UnmaskedFrom(t) == {p \in pending : p >= t}

\* The pending levels that RestoreTpl(t) dispatches.
Unmasked(t) == {p \in pending : p > t}

RestoreTplDispatch ==
  /\ At("restore")
  /\ Unmasked(Top.tpl) # {}
  /\ tpl' = Max(pending)
  /\ intr' = TRUE
  /\ stack' = Append(stack, Dispatch(Max(pending)))
  /\ UNCHANGED <<notices, clock, objects, calls>>

\* The loop of RestoreTpl ends; gEfiCurrentTpl still has the level of what
\* was dispatched last.
RestoreTplNoMore ==
  /\ At("restore")
  /\ Unmasked(Top.tpl) = {}
  /\ Continue(Append(Under, Lower(Top.tpl)))
  /\ UNCHANGED <<notices, clock, objects, calls>>

RestoreTplLower ==
  /\ At("lower")
  /\ tpl' = Top.tpl
  /\ intr' = (intr \/ Top.tpl < HighLevel)
  /\ stack' = Under
  /\ UNCHANGED <<notices, clock, objects, calls>>

\* Mutant: SignalCount is not cleared.
DispatchKeepsSignal ==
  /\ At("dispatch")
  /\ queue[Top.tpl] # <<>>
  /\ queue' = [queue EXCEPT ![Top.tpl] = Tail(@)]
  /\ Locked(Append(stack, Code("notify", Head(queue[Top.tpl]), Top.tpl, Top.tpl)))
  /\ UNCHANGED <<pending, sig, clock, objects, calls>>

\* CoreDispatchEventNotifies takes the next event off the queue ...
DispatchNext ==
  /\ At("dispatch")
  /\ queue[Top.tpl] # <<>>
  /\ LET e == Head(queue[Top.tpl])
     IN  /\ queue' = [queue EXCEPT ![Top.tpl] = Tail(@)]
         /\ sig' = IF KindOf(e) = "signal" THEN [sig EXCEPT ![e] = 0] ELSE sig
         /\ Locked(Append(stack, Code("notify", e, Top.tpl, Top.tpl)))
  /\ UNCHANGED <<pending, clock, objects, calls>>

\* ... until there is none.
DispatchDone ==
  /\ At("dispatch")
  /\ queue[Top.tpl] = <<>>
  /\ pending' = pending \ {Top.tpl}
  /\ Locked(Under)
  /\ UNCHANGED <<queue, sig, clock, objects, calls>>
------------------------------------------------------------------------------
(***************************************************************************)
(* Timers                                                                  *)
(***************************************************************************)
\* Mutant: at the end of the list.
InsertLast(list, e, t) == Append(list, e)

\* CoreInsertEventTimer: before the first timer that expires later.
InsertEventTimer(list, e, t) ==
  LET n == SelectInSeq(list, LAMBDA x : trigger[x] > t)
  IN  IF n = 0 THEN Append(list, e) ELSE InsertAt(list, n, e)

\* CoreCheckTimers, the notification function of mEfiCheckTimerEvent,
\* acquires mEfiTimerLock and reads the time once.
CheckTimersStart ==
  /\ At("notify") /\ Top.ev = CheckTimerEvent
  /\ Continue(Append(Under, Checking(now)))
  /\ UNCHANGED <<notices, clock, objects, calls>>

\* Mutant: a timer expires only after its trigger time.
ExpiredBefore(t) == timers # <<>> /\ trigger[Head(timers)] < t

Expired(t) == timers # <<>> /\ trigger[Head(timers)] <= t

\* The first timer has expired: it is removed and signalled, and when it is
\* periodic its next expiry is set in a later step.
CheckTimersFire ==
  /\ At("checkTimers")
  /\ Expired(Top.time)
  /\ LET e == Head(timers)
     IN  /\ timers' = Tail(timers)
         /\ SignalMasked(e)
         /\ Continue(IF period[e] = 0 THEN stack
                     ELSE Append(stack, Call("rearm", e)))
  /\ UNCHANGED <<trigger, period, now, objects, calls>>

CheckTimersRearm ==
  /\ At("rearm")
  /\ LET e == Top.ev
         time == Last(Under).time
         next == trigger[e] + period[e]
         late == next <= time
         t == IF late THEN time ELSE next
     IN  /\ trigger' = [trigger EXCEPT ![e] = t]
         /\ timers' = InsertEventTimer(timers, e, t)
         /\ IF late THEN SignalMasked(CheckTimerEvent) ELSE UNCHANGED notices
  /\ Continue(Under)
  /\ UNCHANGED <<period, now, objects, calls>>

CheckTimersDone ==
  /\ At("checkTimers")
  /\ ~Expired(Top.time)
  /\ Continue(Append(Under, Restore(TimerTpl)))
  /\ UNCHANGED <<notices, clock, objects, calls>>

\* TimerInterruptHandler and CoreTimerTick, up to the final RestoreTPL.
TimerInterrupt ==
  /\ intr
  /\ \E d \in Durations :
       LET time == Min({now + d, MaxTime})
       IN  /\ now' = time
           /\ IF Expired(time) THEN SignalMasked(CheckTimerEvent)
                               ELSE UNCHANGED notices
  /\ Locked(stack)
  /\ UNCHANGED <<timers, trigger, period, objects, calls>>
------------------------------------------------------------------------------
(***************************************************************************)
(* The services, called by the application and by notification functions   *)
(***************************************************************************)
Running == Top.at \in {"app", "notify", "raised"} /\ Top.ev # CheckTimerEvent

MayCall(service) ==
  /\ Running
  /\ calls < MaxCalls
  /\ service \in IF Top.ev = App THEN AppCalls ELSE NotifyCalls
  /\ calls' = calls + 1

\* A notification function looks after its own event.
Owns(e) == Top.ev \in {App, e}

CreateEvent(e) ==
  /\ MayCall("CreateEvent")
  /\ tpl <= Notify
  /\ e \notin live \cup closed
  /\ live' = live \cup {e}
  /\ sigList' = IF Kind[e] = "signal" THEN <<e>> \o sigList ELSE sigList
  /\ Locked(stack)
  /\ UNCHANGED <<notices, clock, closed>>

\* With a group, the lock is released before CoreNotifySignalList takes it.
SignalEvent(e) ==
  /\ MayCall("SignalEvent")
  /\ e \in live
  /\ IF sig[e] = 0 /\ Kind[e] = "signal" /\ Grouped(e)
     THEN /\ sig' = [sig EXCEPT ![e] = 1]
          /\ Locked(Append(stack, Call("signalGroup", e)))
          /\ UNCHANGED <<queue, pending>>
     ELSE SignalMasked(e) /\ Locked(stack)
  /\ UNCHANGED <<clock, objects>>

NotifySignalList ==
  /\ At("signalGroup")
  /\ CoreNotifyEvents(GroupMembers(Top.ev))
  /\ Locked(Under)
  /\ UNCHANGED <<sig, clock, objects, calls>>

\* Mutant: the lock does not raise the TPL.
CancelTimerUnlocked(e, fs) ==
  /\ timers' = Unlink(timers, e)
  /\ trigger' = [trigger EXCEPT ![e] = 0]
  /\ period' = [period EXCEPT ![e] = 0]
  /\ stack' = fs
  /\ UNCHANGED <<tpl, intr, now>>

\* The timer is taken off the list under mEfiTimerLock, whose TPL is not
\* the highest: fs is what remains to be run, as in Locked.
CancelTimer(e, fs) ==
  /\ timers' = Unlink(timers, e)
  /\ trigger' = [trigger EXCEPT ![e] = 0]
  /\ period' = [period EXCEPT ![e] = 0]
  /\ tpl' = TimerTpl
  /\ stack' = fs
  /\ UNCHANGED <<intr, now>>

SetTimerCancel(e) ==
  /\ MayCall("SetTimer")
  /\ tpl <= Notify
  /\ e \in live \cap TimerEvents /\ Owns(e)
  /\ CancelTimer(e, Append(stack, Restore(tpl)))
  /\ UNCHANGED <<notices, objects>>

\* The rest of CoreSetTimer, with the time it has read and the TPL to restore.
Arm(e, repeat, delay) ==
  [at |-> "arm", ev |-> e, repeat |-> repeat, delay |-> delay, time |-> now, tpl |-> tpl]

\* A periodic timer of 0 has the period of the timer interrupt.
SetTimer(e, repeat, delay) ==
  /\ MayCall("SetTimer")
  /\ tpl <= Notify
  /\ e \in live \cap TimerEvents /\ Owns(e)
  /\ CancelTimer(e, Append(stack, Arm(e, repeat, IF repeat /\ delay = 0 THEN 1 ELSE delay)))
  /\ UNCHANGED <<notices, objects>>

SetTimerArm ==
  /\ At("arm")
  /\ LET e == Top.ev
         t == Top.time + Top.delay
     IN  /\ trigger' = [trigger EXCEPT ![e] = t]
         /\ period' = [period EXCEPT ![e] = IF Top.repeat THEN Top.delay ELSE 0]
         /\ timers' = InsertEventTimer(timers, e, t)
         /\ IF Top.delay = 0 THEN SignalMasked(CheckTimerEvent)
                             ELSE UNCHANGED notices
  /\ Continue(Append(Under, Restore(Top.tpl)))
  /\ UNCHANGED <<now, objects, calls>>

\* Mutant: the timer is not cancelled.
CloseEventArmed(e) ==
  /\ MayCall("CloseEvent")
  /\ tpl <= Notify
  /\ e \in live /\ Owns(e)
  /\ Continue(Append(stack, Call("unlink", e)))
  /\ UNCHANGED <<notices, clock, objects>>

\* CloseEvent cancels the timer, then takes the event off the queues, then
\* frees it; notifications may run in between.
CloseEvent(e) ==
  /\ MayCall("CloseEvent")
  /\ tpl <= Notify
  /\ e \in live /\ Owns(e)
  /\ IF e \in TimerEvents
     THEN CancelTimer(e, Append(Append(stack, Call("unlink", e)), Restore(tpl)))
     ELSE Continue(Append(stack, Call("unlink", e))) /\ UNCHANGED clock
  /\ UNCHANGED <<notices, objects>>

CloseEventUnlink ==
  /\ At("unlink")
  /\ queue' = [p \in NotifyTpls |-> Unlink(queue[p], Top.ev)]
  /\ sigList' = Unlink(sigList, Top.ev)
  /\ Locked(Append(Under, Call("free", Top.ev)))
  /\ UNCHANGED <<pending, sig, clock, live, closed, calls>>

CloseEventFree ==
  /\ At("free")
  /\ live' = live \ {Top.ev}
  /\ closed' = closed \cup {Top.ev}
  /\ Continue(Under)
  /\ UNCHANGED <<notices, clock, sigList, calls>>

\* CheckEvent is a poll of one event, WaitForEvent one that starts again.
Poll(evs, i, again) == [at |-> "poll", evs |-> evs, i |-> i, again |-> again]
Polled(evs, i, again) == [at |-> "polled", evs |-> evs, i |-> i, again |-> again]

CheckEvent(e) ==
  /\ MayCall("CheckEvent")
  /\ tpl < HighLevel
  /\ e \in live
  /\ Continue(Append(stack, Poll(<<e>>, 1, FALSE)))
  /\ UNCHANGED <<notices, clock, objects>>

WaitForEvent(evs) ==
  /\ MayCall("WaitForEvent")
  /\ tpl = Application
  /\ Range(evs) \subseteq live
  /\ Continue(Append(stack, Poll(evs, 1, TRUE)))
  /\ UNCHANGED <<notices, clock, objects>>

\* EFI_INVALID_PARAMETER for an event of type EVT_NOTIFY_SIGNAL; an event of
\* type EVT_NOTIFY_WAIT that is not signalled has its function queued.
PollNotify ==
  /\ At("poll")
  /\ LET e == Top.evs[Top.i]
     IN  \/ /\ Kind[e] = "signal"
            /\ Continue(Under) /\ UNCHANGED notices
         \/ /\ Kind[e] = "wait" /\ sig[e] = 0
            /\ CoreNotifyEvents(<<e>>) /\ UNCHANGED sig
            /\ Locked(Append(Under, Polled(Top.evs, Top.i, Top.again)))
         \/ /\ Kind[e] = "none" \/ (Kind[e] = "wait" /\ sig[e] = 1)
            /\ Continue(Append(Under, Polled(Top.evs, Top.i, Top.again)))
            /\ UNCHANGED notices
  /\ UNCHANGED <<clock, objects, calls>>

PollResult ==
  /\ At("polled")
  /\ LET e == Top.evs[Top.i]
     IN  \/ /\ sig[e] = 1
            /\ sig' = [sig EXCEPT ![e] = 0]
            /\ Locked(Under)
         \/ /\ sig[e] = 0 /\ Top.i < Len(Top.evs)
            /\ Continue(Append(Under, Poll(Top.evs, Top.i + 1, Top.again)))
            /\ UNCHANGED sig
         \/ /\ sig[e] = 0 /\ Top.i = Len(Top.evs)
            /\ Continue(IF Top.again
                        THEN Append(Under, Poll(Top.evs, 1, Top.again))
                        ELSE Under)
            /\ UNCHANGED sig
  /\ UNCHANGED <<queue, pending, clock, objects, calls>>

\* RaiseTPL; "raised" runs at the new TPL until it calls RestoreTPL.
RaiseTPL(t) ==
  /\ MayCall("RaiseTPL")
  /\ tpl < t
  /\ tpl' = t
  /\ intr' = (intr /\ t < HighLevel)
  /\ stack' = Append(stack, Code("raised", Top.ev, t, tpl))
  /\ UNCHANGED <<notices, clock, objects>>

RestoreTPL ==
  /\ At("raised")
  /\ Continue(Append(Under, Restore(Top.tpl)))
  /\ UNCHANGED <<notices, clock, objects, calls>>

NotifyReturn ==
  /\ At("notify") /\ Top.ev # CheckTimerEvent
  /\ Continue(Under)
  /\ UNCHANGED <<notices, clock, objects, calls>>
------------------------------------------------------------------------------
Init ==
  /\ tpl = Application /\ intr = TRUE
  /\ stack = <<Code("app", App, Application, Application)>>
  /\ queue = [p \in NotifyTpls |-> <<>>]
  /\ pending = {}
  /\ sig = [e \in AllEvents |-> 0]
  /\ timers = <<>>
  /\ trigger = [e \in Events |-> 0] /\ period = [e \in Events |-> 0]
  /\ now = 0
  /\ sigList = Keep(Existing, {e \in Events : Kind[e] = "signal"})
  /\ live = Range(Existing) /\ closed = {}
  /\ calls = 0

Services ==
  \/ \E e \in Events :
       \/ CreateEvent(e) \/ SignalEvent(e) \/ SetTimerCancel(e)
       \/ \E repeat \in BOOLEAN, d \in Delays : SetTimer(e, repeat, d)
       \/ CloseEvent(e) \/ CheckEvent(e)
  \/ \E evs \in WaitLists : WaitForEvent(evs)
  \/ \E t \in {Callback, Notify, HighLevel} : RaiseTPL(t)

Core ==
  \/ RestoreTplDispatch \/ RestoreTplNoMore \/ RestoreTplLower
  \/ DispatchNext \/ DispatchDone
  \/ CheckTimersStart \/ CheckTimersFire \/ CheckTimersRearm \/ CheckTimersDone
  \/ NotifySignalList \/ SetTimerArm \/ CloseEventUnlink \/ CloseEventFree
  \/ PollNotify \/ PollResult
  \/ RestoreTPL \/ NotifyReturn

Next == Services \/ Core \/ TimerInterrupt

Spec == Init /\ [][Next]_vars

\* The processor does not stop, the timer goes on interrupting it, and its
\* period is longer than its handler: what is interrupted goes on as well.
Interruptible == intr /\ Core

Fairness ==
  /\ WF_vars(Core)
  /\ SF_vars(Interruptible)
  /\ SF_vars(TimerInterrupt)
------------------------------------------------------------------------------
(***************************************************************************)
(* Properties                                                              *)
(***************************************************************************)
Pcs == {"app", "notify", "raised", "restore", "lower", "dispatch", "checkTimers",
        "rearm", "signalGroup", "arm", "unlink", "free", "poll", "polled"}

Queued(e) == \E p \in NotifyTpls : e \in Range(queue[p])
Frames(pcs) == {j \in DOMAIN stack : stack[j].at \in pcs}

\* The queues hold events of their own level, and only levels that have a
\* queue are marked in gEventPending.
TypeOK ==
  /\ tpl \in {Application, HighLevel} \cup NotifyTpls /\ intr \in BOOLEAN
  /\ stack # <<>>
  /\ \A j \in DOMAIN stack : stack[j].at \in Pcs
  /\ \A p \in NotifyTpls : Range(queue[p]) \subseteq {e \in AllEvents : NotifyTpl(e) = p}
  /\ pending \subseteq NotifyTpls
  /\ sig \in [AllEvents -> {0, 1}]
  /\ Range(timers) \subseteq TimerEvents
  /\ trigger \in [Events -> Nat] /\ period \in [Events -> Nat]
  /\ now \in 0..MaxTime
  /\ Range(sigList) \subseteq Events /\ live \subseteq Events /\ closed \subseteq Events
  /\ calls \in 0..MaxCalls

\* CoreSignalEvent does nothing while SignalCount is 1.  So an event of type
\* EVT_NOTIFY_SIGNAL with SignalCount 1 has its notification queued, or the
\* caller that signalled its group has yet to queue it: otherwise it could
\* never be notified again.
NoSignalLost ==
  \A e \in live \cup {CheckTimerEvent} :
    KindOf(e) = "signal" /\ sig[e] = 1 =>
      \/ Queued(e)
      \/ \E j \in Frames({"signalGroup", "free"}) : stack[j].ev = e

\* Code that runs at a TPL, by RaiseTPL or as a notification function, is
\* preempted by notifications of higher TPLs only, and finds its TPL
\* unchanged after every service it called.
PreemptedByHigherOnly ==
  /\ \A i \in Frames({"app", "notify", "raised"}), j \in Frames({"notify"}) :
       i < j => stack[i].level < stack[j].level
  /\ Running => tpl = Top.level

\* mEfiTimerLock is never acquired by a call that interrupted its holder
\* (CoreAcquireLock asserts that the lock is released).
TimerLockExclusive == Cardinality(Frames({"arm", "checkTimers"})) <= 1

\* mEfiTimerList holds every timer once, in the order of expiry, which is
\* what lets CoreTimerTick look at its head only.
TimerListSound ==
  \A i, j \in DOMAIN timers :
    i < j => timers[i] # timers[j] /\ trigger[timers[i]] <= trigger[timers[j]]

\* A freed event is on no list of the core and no suspended service goes on
\* to use it (see CarefulServices for what CoreCloseEvent leaves to its callers).
ClosedUnused ==
  \A e \in closed :
    /\ ~Queued(e) /\ e \notin Range(timers) \cup Range(sigList)
    /\ \A j \in Frames({"signalGroup", "arm", "rearm", "unlink", "free"}) : stack[j].ev # e
    /\ \A j \in Frames({"poll", "polled"}) : e \notin Range(stack[j].evs)

\* What ClosedUnused asks of the callers: no service is called on an event that
\* CloseEvent is about to free, and CloseEvent is not called on one that a
\* service under way goes on to use.
Closing(e) == \E j \in Frames({"unlink", "free"}) : stack[j].ev = e
InUse(e) ==
  \/ \E j \in Frames({"signalGroup"}) : stack[j].ev = e
  \/ \E j \in Frames({"poll", "polled"}) : e \in Range(stack[j].evs)

CarefulServices ==
  \/ \E e \in Events :
       \/ CreateEvent(e)
       \/ /\ ~Closing(e)
          /\ \/ SignalEvent(e) \/ SetTimerCancel(e) \/ CheckEvent(e)
             \/ \E repeat \in BOOLEAN, d \in Delays : SetTimer(e, repeat, d)
             \/ ~InUse(e) /\ CloseEvent(e)
  \/ \E evs \in WaitLists : WaitForEvent(evs)
  \/ \E t \in {Callback, Notify, HighLevel} : RaiseTPL(t)

CarefulNext == CarefulServices \/ Core \/ TimerInterrupt

CarefulSpec == Init /\ [][CarefulNext]_vars
FairSpec == CarefulSpec /\ Fairness

\* Every queued notification is dispatched, at the latest when a timer
\* interrupt restores the TPL.
EventuallyNotified == []<>(\A p \in NotifyTpls : queue[p] = <<>>)

Due(e) == e \in Range(timers) /\ trigger[e] <= now

\* A timer that is due is taken off the list or set to a later time, also
\* when the tick that should have seen it found the list in the middle of a
\* change.
TimersFire == []<>(\A e \in TimerEvents : ~Due(e))
==============================================================================
