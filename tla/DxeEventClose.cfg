\* A timer whose notification function sets it again, closed by the
\* application.
SPECIFICATION Spec
CONSTANTS
  poll = poll
  ready = ready
  gA = gA
  gB = gB
  grp = grp
  NoGroup = NoGroup
  Events <- MCEvents
  Kind <- MCKind
  TimerEvents <- MCTimerEvents
  TplOf <- MCTplOf
  GroupOf <- MCGroupOf
  Existing <- MCExisting
  WaitLists <- MCWaitLists
  Delays = {1}
  Durations = {1}
  AppCalls = {"SetTimer", "CloseEvent"}
  NotifyCalls = {"SetTimer"}
  MaxCalls = 3
  MaxTime = 2
INVARIANT ClosedUnused
