SPECIFICATION MCSpec
CONSTANTS
  main = main
  a = a
  b = b
  c = c
  Main = main
  Procs = {main, a, b, c}
  Statuses = {0}
  MaxFiles = 1
  MaxCalls = 1
INVARIANT WaitTouchesLiveThread
CHECK_DEADLOCK FALSE
