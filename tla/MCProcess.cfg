SPECIFICATION MCSpec
CONSTANTS
  main = main
  a = a
  b = b
  c = c
  Main = main
  Procs = {main, a, b, c}
  Statuses = {0}
  MaxFiles = 1
  MaxCalls = 1
INVARIANTS TypeOK NoUseAfterFree LastOneFrees WaitReturnsExitStatus ExecAnswerIsFresh
PROPERTY ExitCompletes
CHECK_DEADLOCK FALSE
