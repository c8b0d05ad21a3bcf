SPECIFICATION FairSpec
CONSTANTS
  t1 = t1
  t2 = t2
  f1 = f1
  f2 = f2
  Timers = {t1, t2}
  Fds = {f1, f2}
  Delays = {0, 1}
  MaxLap = 2
INVARIANTS
  TypeOK
  SortedToTheMillisecond
PROPERTIES
  NoStaleEvent
  DueTimerRuns
  EventServed
  SignalEndsLoop
