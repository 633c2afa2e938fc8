SPECIFICATION FairSpec
CONSTANTS
  Timer = {t1, t2, t3}
  Durations = {0, 1, 2}
  MaxNow = 3
  None = None
INVARIANTS
  ClockOK
  OneHome
  OnTime
  DeadlineOrder
PROPERTY DueReceived
