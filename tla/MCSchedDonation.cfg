SPECIFICATION Spec
CONSTANTS
  t1 = t1
  t2 = t2
  t3 = t3
  idleThread = idleThread
  sema = sema
  lockA = lockA
  Threads = {t1, t2, t3}
  Main = t1
  Idle = idleThread
  Semas = {sema, lockA}
  Locks = {lockA}
  IntrSemas = {sema}
  InitValue <- MCInitValue
  PriMax = 63
  Pri = {0, 1}
  MaxValue = 2
INVARIANT HolderHasWaiterPriority
