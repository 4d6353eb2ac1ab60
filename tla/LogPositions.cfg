\* One container, up to three lines before its last, over two seconds of half-second ticks.
CONSTANTS
  Second = 2
  Start = 4
  FirstLogs <- MCFirstLogs
  MaxTime = 8
  MaxLines = 3
  MaxBreaks = 2
SPECIFICATION FairSpec
INVARIANTS TypeOK
PROPERTIES InOrder NoReplay EveryLineShown
CHECK_DEADLOCK FALSE
