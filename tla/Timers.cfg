CONSTANTS
  Delays = {2}
  sleep_time = 1
  MaxTimers = 2
  MaxReloads = 2
  INT_MAX = 2
SPECIFICATION FairSpec
INVARIANT FiresOnce
PROPERTIES NotTooEarly EveryTimerFires StaleTimersLeave
CHECK_DEADLOCK FALSE
