\* Applications and notification functions that call every service, but not on
\* an event that is being closed, with timer interrupts everywhere.
SPECIFICATION FairSpec
CONSTANTS
  poll = poll
  ready = ready
  gA = gA
  gB = gB
  grp = grp
  NoGroup = NoGroup
  Events <- MCEvents
  Kind <- MCKind
  TimerEvents <- MCTimerEvents
  TplOf <- MCTplOf
  GroupOf <- MCGroupOf
  Existing <- MCExisting
  WaitLists <- MCWaitLists
  Delays = {0, 1}
  Durations = {1, 2}
  AppCalls = {"CreateEvent", "SignalEvent", "SetTimer", "CloseEvent",
              "CheckEvent", "WaitForEvent", "RaiseTPL"}
  NotifyCalls = {"CreateEvent", "SignalEvent", "SetTimer", "CloseEvent",
                 "CheckEvent", "RaiseTPL"}
  MaxCalls = 3
  MaxTime = 2
INVARIANTS
  NoSignalLost
  PreemptedByHigherOnly
  TimerLockExclusive
  TimerListSound
  ClosedUnused
PROPERTIES
  EventuallyNotified
  TimersFire
