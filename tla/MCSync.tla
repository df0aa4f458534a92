------------------------------- MODULE MCSync -------------------------------
(***************************************************************************)
(* The users of semaphores, checked side by side: the readers-writer lock, *)
(* the condition variable, timer_sleep() and the disk channel.  A          *)
(* behaviour exercises one of them, as under says.  They share no state.   *)
(***************************************************************************)
EXTENDS RWLock, TLC

CONSTANTS t1, t2, t3, t4, s1, s2, Values, Idle, MaxSpurious, MaxSleep, MaxLate

VARIABLES
  under,
  holder, waiters, value, cv_pc, panicked,             \* CondVar
  sleeping_threads_list, due, sleep_value, timer_pc,   \* Timer
  lock, expecting_interrupt, completion_wait, is_ata, disk_pc, request, got,
  drive, command, data, disk, irq, spurious, disk_panicked  \* Ide

cvVars == <<holder, waiters, value, cv_pc, panicked>>
timerVars == <<sleeping_threads_list, due, sleep_value, timer_pc>>
ideVars == <<lock, expecting_interrupt, completion_wait, is_ata, disk_pc, request, got,
             drive, command, data, disk, irq, spurious, disk_panicked>>

\* Two threads of one priority and two of others, PRI_MIN among them.
MCPriority == t1 :> 1 @@ t2 :> 1 @@ t3 :> 2 @@ t4 :> 0

CV == INSTANCE CondVar WITH pc <- cv_pc, Priority <- MCPriority
T == INSTANCE Timer WITH Threads <- {t1, t2, t3}, pc <- timer_pc, value <- sleep_value
D == INSTANCE Ide WITH Threads <- {t1, t2}, Main <- t1, Sectors <- {s1, s2},
                       pc <- disk_pc, panicked <- disk_panicked

MCInit ==
  /\ under \in {"rw_lock", "condition", "timer", "disk"}
  /\ Init /\ CV!Init /\ T!Init /\ D!Init
  /\ disk = [s \in {s1, s2} |-> CHOOSE v \in Values : TRUE]

RWLockSteps == under = "rw_lock" /\ Next /\ UNCHANGED <<cvVars, timerVars, ideVars>>
CondVarSteps == under = "condition" /\ CV!Next /\ UNCHANGED <<vars, timerVars, ideVars>>
TimerSteps == under = "timer" /\ T!Next /\ UNCHANGED <<vars, cvVars, ideVars>>
\* Bound: t1 reads and writes, t2 reads.
DiskSteps ==
  /\ under = "disk" /\ D!Next /\ UNCHANGED <<vars, cvVars, timerVars>>
  /\ request'[t2] # Idle => request'[t2].op = "read"
MCNext == (RWLockSteps \/ CondVarSteps \/ TimerSteps \/ DiskSteps) /\ UNCHANGED under

MCSpec == MCInit /\ [][MCNext]_<<under, vars, cvVars, timerVars, ideVars>>
\* The Fairness of the module that under names.
MCFairness ==
  /\ \A t \in Threads :
       /\ WF_vars(under = "rw_lock" /\ Step(t))
       /\ WF_vars(under = "rw_lock" /\ Release(t))
       /\ WF_cvVars(under = "condition" /\ CV!SemaDown(t))
       /\ WF_cvVars(under = "condition" /\ CV!BroadcastStep(t))
  /\ WF_timerVars(under = "timer" /\ T!timer_interrupt)
  /\ \A t \in {t1, t2, t3} : WF_timerVars(under = "timer" /\ T!Step(t))
  /\ WF_ideVars(under = "disk" /\ D!Drive)
  /\ WF_ideVars(under = "disk" /\ D!interrupt_handler)
  /\ \A t \in {t1, t2} : WF_ideVars(under = "disk" /\ D!Step(t))
MCFairSpec == MCSpec /\ MCFairness

-----------------------------------------------------------------------------
\* The types of all four.
SyncTypeOK == TypeOK /\ CV!TypeOK /\ T!TypeOK /\ D!TypeOK

\* CondVar's properties, see that module.
\* Threads in cond_wait() are in the list or have their signal.
SignalNotLost == CV!SignalNotLost
\* cond_signal() wakes the first of the highest priority.
SignalsHighest == CV!SignalsHighest
\* cond_broadcast() wakes everyone.
BroadcastWakesAll == CV!BroadcastWakesAll
\* cond_signal() finds its waiter waiting.
SignalDoesNotFault == CV!SignalDoesNotFault

\* Timer's.
\* Threads in the list are asleep in timer_sleep(), and none is woken early.
ListedIsAsleep == T!ListedIsAsleep
\* timer_interrupt() wakes everyone whose time has come.
TickWakesAllDue == T!TickWakesAllDue
\* Every timer_sleep() returns.
SleepReturns == T!SleepReturns

\* Ide's.
\* ide_read() and ide_write() are atomic; only an unsettled write can be lost.
ImplementsDisk == D!ImplementsDisk
\* No completion is left over when the channel is free.
CompletionsPaired == D!CompletionsPaired
\* Every command on the channel ends.
CommandCompletes == D!CommandCompletes
\* ide_write() returns when the drive has acknowledged.
WriteIsAcknowledged == D!WriteIsAcknowledged
=============================================================================
