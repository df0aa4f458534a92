SPECIFICATION MCFairSpec
CONSTANTS
  t1 = t1
  t2 = t2
  t3 = t3
  t4 = t4
  s1 = s1
  s2 = s2
  Threads = {t1, t2, t3, t4}
  Values = {1, 2}
  Idle = Idle
  MaxSpurious = 1
  MaxSleep = 3
  MaxLate = 2
INVARIANTS SyncTypeOK Exclusion AccessAccounting SignalNotLost ListedIsAsleep CompletionsPaired
PROPERTIES ImplementsRWLock EnteredGetsLock SignalsHighest BroadcastWakesAll TickWakesAllDue SleepReturns ImplementsDisk CommandCompletes
CHECK_DEADLOCK FALSE
