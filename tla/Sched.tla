------------------------------- MODULE Sched -------------------------------
(***************************************************************************)
(* The kernel's scheduler, semaphores and locks on one CPU                 *)
(* (threads/thread.c, threads/synch.c), in priority mode (thread_mlfqs is  *)
(* false).                                                                 *)
(*                                                                         *)
(* A code section with interrupts off is atomic up to the call of          *)
(* schedule() in it, so one action runs from one point where the CPU may   *)
(* change hands to the next.  A thread's own code is an arbitrary sequence *)
(* of calls of the operations below.  Timer preemption may come wherever   *)
(* interrupts are on: thread_ticks is abstracted to a choice.              *)
(*                                                                         *)
(* A lock is a semaphore of initial value 1 with a holder: Locks is the    *)
(* subset of Semas that are lock->semaphore.  locks_held is a set: the     *)
(* order of the list matters to nothing but the order of release at exit,  *)
(* which is left open here.  Every lock->priority is PRI_MIN: the one call *)
(* of donate_priority() is commented out (synch.c:256).                    *)
(***************************************************************************)
EXTENDS Naturals, FiniteSets, SequencesExt

CONSTANTS
  Threads,   \* thread structs other than the idle thread
  Main,      \* initial_thread
  Idle,      \* idle_thread
  Semas,     \* every semaphore
  Locks,     \* those that belong to a lock
  IntrSemas, \* those that an interrupt handler ups
  InitValue, \* sema_init's value for the semaphores that are not locks
  PriMax,    \* PRI_MAX; PRI_MIN is 0
  Pri,       \* the priorities in use
  MaxValue   \* bound: no semaphore is upped beyond this value

NoThread == "NULL"
NoSema == "NULL"

ASSUME SchedAssumption ==
  /\ Main \in Threads /\ Idle \notin Threads
  /\ NoThread \notin Threads \cup {Idle} /\ NoSema \notin Semas
  /\ Locks \subseteq Semas /\ IntrSemas \subseteq Semas \ Locks
  /\ InitValue \in [Semas \ Locks -> Nat]
  /\ PriMax \in Nat /\ Pri \subseteq 0..PriMax /\ 0 \in Pri
  /\ MaxValue \in Nat
  /\ IsFiniteSet(Threads)

All == Threads \cup {Idle}

VARIABLES
  status,      \* thread -> thread_status; "NONE" for a page that is no thread
  cur,         \* running_thread()
  ready_list,  \* READY threads, in list order
  priority,    \* thread -> priority
  value,       \* semaphore -> value
  waiters,     \* semaphore -> its waiters, in list order
  holder,      \* lock -> holder
  locks_held,  \* thread -> set of locks
  pc,          \* where the thread's kernel code stands, see Pcs
  on           \* the semaphore a thread at "down" or "try" is working on

vars == <<status, cur, ready_list, priority, value, waiters, holder,
          locks_held, pc, on>>

\* "run": outside the operations; "down": inside sema_down, to (re)test value;
\* "try": in lock_try_acquire, past a successful sema_try_down;
\* "exit": in thread_exit.
Pcs == {"run", "down", "try", "exit"}

TypeOK ==
  /\ status \in [All -> {"RUNNING", "READY", "BLOCKED", "DYING", "NONE"}]
  /\ cur \in All
  /\ ready_list \in Seq(Threads)
  /\ priority \in [All -> Pri]
  /\ value \in [Semas -> Nat]
  /\ waiters \in [Semas -> Seq(Threads)]
  /\ holder \in [Locks -> Threads \cup {NoThread}]
  /\ locks_held \in [Threads -> SUBSET Locks]
  /\ pc \in [Threads -> Pcs]
  /\ on \in [Threads -> Semas \cup {NoSema}]

\* After thread_start(): the main thread runs, the idle thread has blocked.
Init ==
  /\ status = [t \in All |-> IF t = Main THEN "RUNNING"
                             ELSE IF t = Idle THEN "BLOCKED" ELSE "NONE"]
  /\ cur = Main
  /\ ready_list = <<>>
  /\ priority \in {p \in [All -> Pri] : \A t \in All \ {Main} : p[t] = 0}
  /\ value = [s \in Semas |-> IF s \in Locks THEN 1 ELSE InitValue[s]]
  /\ waiters = [s \in Semas |-> <<>>]
  /\ holder = [l \in Locks |-> NoThread]
  /\ locks_held = [t \in Threads |-> {}]
  /\ pc = [t \in Threads |-> "run"]
  /\ on = [t \in Threads |-> NoSema]

-----------------------------------------------------------------------------
\* Mutant: >= for > in get_highest_priority_thread(), the last of the highest.
HighestIndexLast(q, pri) ==
  CHOOSE i \in DOMAIN q :
    /\ \A j \in DOMAIN q : pri[q[j]] <= pri[q[i]]
    /\ \A j \in DOMAIN q : j > i => pri[q[j]] < pri[q[i]]

\* get_highest_priority_thread(): the place in list q of the first thread of
\* the highest priority under pri.
HighestIndex(q, pri) ==
  CHOOSE i \in DOMAIN q :
    /\ \A j \in DOMAIN q : pri[q[j]] <= pri[q[i]]
    /\ \A j \in DOMAIN q : j < i => pri[q[j]] < pri[q[i]]

\* next_thread_to_run() and the switch to it, thread_schedule_tail() included:
\* q and st are the ready list and the statuses schedule() finds.
Schedule(q, st, pri) ==
  LET i    == HighestIndex(q, pri)
      next == IF q = <<>> THEN Idle ELSE q[i]
  IN  /\ cur' = next
      /\ ready_list' = IF q = <<>> THEN <<>> ELSE RemoveAt(q, i)
      /\ status' = [st EXCEPT ![next] = "RUNNING"]

\* thread_yield(): the idle thread never enters the ready list.
Yield(q, st, pri) ==
  Schedule(IF cur = Idle THEN q ELSE Append(q, cur),
           [st EXCEPT ![cur] = "READY"], pri)

\* thread_block() of the running thread.
Block == Schedule(ready_list, [status EXCEPT ![cur] = "BLOCKED"], priority)

\* The list and the value part of sema_up(s): the highest-priority waiter
\* leaves the waiters and value is incremented.  Awoken is the thread
\* thread_unblock() appends to the ready list.
Awoken(s) == waiters[s][HighestIndex(waiters[s], priority)]
\* Mutant: the woken thread's element stays in the waiters.
PopWaiterKeep(s) == value' = [value EXCEPT ![s] = @ + 1] /\ UNCHANGED waiters
PopWaiter(s) ==
  /\ value' = [value EXCEPT ![s] = @ + 1]
  /\ waiters' = IF waiters[s] = <<>> THEN waiters
                ELSE [waiters EXCEPT ![s] =
                        RemoveAt(@, HighestIndex(@, priority))]
ReadyAfterUp(s) ==
  IF waiters[s] = <<>> THEN ready_list ELSE Append(ready_list, Awoken(s))
StatusAfterUp(s) ==
  IF waiters[s] = <<>> THEN status ELSE [status EXCEPT ![Awoken(s)] = "READY"]

Running(t, where) == cur = t /\ pc[t] = where

\* A thread resumed inside sema_down() tests value with interrupts still off.
InterruptsOn == cur \in Threads => pc[cur] # "down"

-----------------------------------------------------------------------------
\* The body of sema_down()'s loop and what follows it.  Past the loop,
\* lock_acquire() records the new holder before interrupts come back on.
SemaDownTest(t, s) ==
  IF value[s] = 0
  THEN /\ waiters' = [waiters EXCEPT ![s] = Append(@, t)]
       /\ pc' = [pc EXCEPT ![t] = "down"]
       /\ on' = [on EXCEPT ![t] = s]
       /\ Block
       /\ UNCHANGED <<priority, value, holder, locks_held>>
  ELSE /\ value' = [value EXCEPT ![s] = @ - 1]
       /\ pc' = [pc EXCEPT ![t] = "run"]
       /\ on' = [on EXCEPT ![t] = NoSema]
       /\ IF s \in Locks
          THEN /\ holder' = [holder EXCEPT ![s] = t]
               /\ locks_held' = [locks_held EXCEPT ![t] = @ \cup {s}]
          ELSE UNCHANGED <<holder, locks_held>>
       /\ UNCHANGED <<status, cur, ready_list, priority, waiters>>

sema_down(t, s) ==
  /\ Running(t, "run")
  /\ s \notin Locks
  /\ SemaDownTest(t, s)

\* ASSERT (!lock_held_by_current_thread (lock)).
lock_acquire(t, l) ==
  /\ Running(t, "run")
  /\ holder[l] # t
  /\ SemaDownTest(t, l)

\* Mutant: sema_down() tests value with `if' instead of `while'.
SemaDownResumeIf(t) ==
  /\ Running(t, "down")
  /\ value' = [value EXCEPT ![on[t]] = @ - 1]
  /\ pc' = [pc EXCEPT ![t] = "run"]
  /\ on' = [on EXCEPT ![t] = NoSema]
  /\ IF on[t] \in Locks
     THEN /\ holder' = [holder EXCEPT ![on[t]] = t]
          /\ locks_held' = [locks_held EXCEPT ![t] = @ \cup {on[t]}]
     ELSE UNCHANGED <<holder, locks_held>>
  /\ UNCHANGED <<status, cur, ready_list, priority, waiters>>

\* thread_block() returns: sema_down() tests value again.
SemaDownResume(t) ==
  /\ Running(t, "down")
  /\ SemaDownTest(t, on[t])

sema_try_down(t, s) ==
  /\ Running(t, "run")
  /\ s \notin Locks
  /\ value[s] > 0
  /\ value' = [value EXCEPT ![s] = @ - 1]
  /\ UNCHANGED <<status, cur, ready_list, priority, waiters, holder,
                 locks_held, pc, on>>

\* lock_try_acquire() does not disable interrupts: the thread can lose the CPU
\* between the successful sema_try_down() and the update of the holder.
lock_try_acquire(t, l) ==
  /\ Running(t, "run")
  /\ holder[l] # t
  /\ value[l] > 0
  /\ value' = [value EXCEPT ![l] = @ - 1]
  /\ pc' = [pc EXCEPT ![t] = "try"]
  /\ on' = [on EXCEPT ![t] = l]
  /\ UNCHANGED <<status, cur, ready_list, priority, waiters, holder,
                 locks_held>>

LockTryAcquireHold(t) ==
  /\ Running(t, "try")
  /\ locks_held' = [locks_held EXCEPT ![t] = @ \cup {on[t]}]
  /\ holder' = [holder EXCEPT ![on[t]] = t]
  /\ pc' = [pc EXCEPT ![t] = "run"]
  /\ on' = [on EXCEPT ![t] = NoSema]
  /\ UNCHANGED <<status, cur, ready_list, priority, value, waiters>>

\* Mutant: sema_up() wakes a waiter only when the value was 0.
SemaUpWakeOnce(t, s) ==
  /\ Running(t, "run")
  /\ s \notin Locks /\ value[s] < MaxValue
  /\ IF value[s] = 0
     THEN PopWaiter(s) /\ Yield(ReadyAfterUp(s), StatusAfterUp(s), priority)
     ELSE /\ value' = [value EXCEPT ![s] = @ + 1]
          /\ Yield(ready_list, status, priority)
          /\ UNCHANGED waiters
  /\ UNCHANGED <<priority, holder, locks_held, pc, on>>

\* sema_up() from a thread: it always ends in thread_yield().
sema_up(t, s) ==
  /\ Running(t, "run")
  /\ s \notin Locks /\ value[s] < MaxValue
  /\ PopWaiter(s)
  /\ Yield(ReadyAfterUp(s), StatusAfterUp(s), priority)
  /\ UNCHANGED <<priority, holder, locks_held, pc, on>>

\* sema_up() from an external interrupt handler: no yield.
InterruptSemaUp(s) ==
  /\ InterruptsOn
  /\ value[s] < MaxValue
  /\ PopWaiter(s)
  /\ ready_list' = ReadyAfterUp(s)
  /\ status' = StatusAfterUp(s)
  /\ UNCHANGED <<cur, priority, holder, locks_held, pc, on>>

\* Mutant: the sema_up() of lock_release() does not yield.
LockReleaseNoYield(t, l) ==
  /\ locks_held' = [locks_held EXCEPT ![t] = @ \ {l}]
  /\ holder' = [holder EXCEPT ![l] = NoThread]
  /\ PopWaiter(l)
  /\ ready_list' = ReadyAfterUp(l)
  /\ status' = StatusAfterUp(l)
  /\ UNCHANGED <<cur, priority, pc, on>>

\* Mutant: lock_release() ups the semaphore but forgets list_remove().
LockReleaseKeepsElem(t, l) ==
  /\ holder' = [holder EXCEPT ![l] = NoThread]
  /\ PopWaiter(l)
  /\ Yield(ReadyAfterUp(l), StatusAfterUp(l), priority)
  /\ UNCHANGED <<priority, locks_held, pc, on>>

LockReleaseBody(t, l) ==
  /\ locks_held' = [locks_held EXCEPT ![t] = @ \ {l}]
  /\ holder' = [holder EXCEPT ![l] = NoThread]
  /\ PopWaiter(l)
  /\ Yield(ReadyAfterUp(l), StatusAfterUp(l), priority)
  /\ UNCHANGED <<priority, pc, on>>

\* ASSERT (lock_held_by_current_thread (lock)).
lock_release(t, l) ==
  /\ Running(t, "run")
  /\ holder[l] = t
  /\ LockReleaseBody(t, l)

\* shed_priority() takes the maximum over locks_held, the dummy lock of the
\* original priority included: the other locks' priority is PRI_MIN.
thread_set_priority(t, p) ==
  /\ Running(t, "run")
  /\ priority' = [priority EXCEPT ![t] = p]
  /\ Yield(ready_list, status, priority')
  /\ UNCHANGED <<value, waiters, holder, locks_held, pc, on>>

\* thread_create(): the new thread goes to the ready list; thread_unblock(),
\* called with interrupts on, yields to it if its priority is higher.
thread_create(t, u, p) ==
  /\ Running(t, "run")
  /\ status[u] = "NONE"
  /\ priority' = [priority EXCEPT ![u] = p]
  /\ LET q  == Append(ready_list, u)
         st == [status EXCEPT ![u] = "READY"]
     IN  IF p > priority[t]
         THEN Yield(q, st, priority')
         ELSE ready_list' = q /\ status' = st /\ UNCHANGED cur
  /\ UNCHANGED <<value, waiters, holder, locks_held, pc, on>>

\* thread_exit() and the release_all_locks() of process_exit(): one lock is
\* released at a time, then the thread dies and its page is freed by the
\* thread that runs next.  initial_thread's page is never freed.
thread_exit(t) ==
  /\ Running(t, "run")
  /\ pc' = [pc EXCEPT ![t] = "exit"]
  /\ UNCHANGED <<status, cur, ready_list, priority, value, waiters, holder,
                 locks_held, on>>

\* Mutant: the locks leave the list and are not released.
ReleaseAllLocksPops(t) ==
  /\ Running(t, "exit")
  /\ \E l \in locks_held[t] : locks_held' = [locks_held EXCEPT ![t] = @ \ {l}]
  /\ UNCHANGED <<status, cur, ready_list, priority, value, waiters, holder, pc, on>>

ReleaseAllLocks(t) ==
  /\ Running(t, "exit")
  /\ \E l \in locks_held[t] : LockReleaseBody(t, l)

Die(t) ==
  /\ Running(t, "exit")
  /\ locks_held[t] = {}
  /\ priority' = [priority EXCEPT ![t] = 0]
  /\ pc' = [pc EXCEPT ![t] = "run"]
  /\ Schedule(ready_list,
              [status EXCEPT ![t] = IF t = Main THEN "DYING" ELSE "NONE"],
              priority)
  /\ UNCHANGED <<value, waiters, holder, locks_held, on>>

\* thread_yield() called by a thread, or by intr_handler() at the end of the
\* time slice (thread_tick): possible wherever interrupts are on.
Preempt ==
  /\ InterruptsOn
  /\ Yield(ready_list, status, priority)
  /\ UNCHANGED <<priority, value, waiters, holder, locks_held, pc, on>>

\* idle(): an interrupt ends hlt and the loop calls thread_block().
idle ==
  /\ cur = Idle
  /\ Block
  /\ UNCHANGED <<priority, value, waiters, holder, locks_held, pc, on>>

Next ==
  \/ \E t \in Threads :
       \/ \E s \in Semas : sema_down(t, s) \/ sema_try_down(t, s) \/ sema_up(t, s)
       \/ \E l \in Locks :
            lock_acquire(t, l) \/ lock_try_acquire(t, l) \/ lock_release(t, l)
       \/ SemaDownResume(t) \/ LockTryAcquireHold(t)
       \/ \E p \in Pri : thread_set_priority(t, p)
       \/ \E u \in Threads, p \in Pri : thread_create(t, u, p)
       \/ thread_exit(t) \/ ReleaseAllLocks(t) \/ Die(t)
  \/ \E s \in IntrSemas : InterruptSemaUp(s)
  \/ Preempt
  \/ idle

Spec == Init /\ [][Next]_vars

\* The timer keeps ticking (Preempt) and a thread that is given the CPU inside
\* sema_down() tests the value.  A thread that exits gets on with it if it is
\* given the CPU again and again, even if the timer takes it away each time: a
\* time slice is four ticks.
Fairness ==
  /\ WF_vars(Preempt)
  /\ WF_vars(idle)
  /\ \A t \in Threads :
       /\ WF_vars(SemaDownResume(t))
       /\ SF_vars(ReleaseAllLocks(t) \/ Die(t))

FairSpec == Spec /\ Fairness

-----------------------------------------------------------------------------
Waiting(s) == {t \in Threads : pc[t] = "down" /\ on[t] = s}
Woken(s) == {t \in Waiting(s) : status[t] # "BLOCKED"}

\* A thread is where its status says: RUNNING is the thread on the CPU, READY
\* threads are in the ready list once, BLOCKED threads are in the waiters of
\* the semaphore they are down on, once, and nobody else is in any list.  All
\* lists share the one list_elem `elem' of struct thread, so a thread in two
\* lists would corrupt both.
QueuesMatchStatus ==
  /\ \A t \in All : status[t] = "RUNNING" <=> cur = t
  /\ IsInjective(ready_list)
  /\ ToSet(ready_list) = {t \in Threads : status[t] = "READY"}
  /\ \A s \in Semas :
       /\ IsInjective(waiters[s])
       /\ ToSet(waiters[s]) =
            {t \in Waiting(s) : status[t] = "BLOCKED"}
  /\ \A t \in Threads : status[t] = "BLOCKED" => pc[t] = "down"

\* No wakeup is lost: while threads sleep on a semaphore, there are at least as
\* many threads awake and about to retry sema_down()'s test as the value could
\* admit, although sema_up() wakes one waiter only and other threads may take
\* the value before it runs.
NoLostWakeup ==
  \A s \in Semas :
    waiters[s] # <<>> => value[s] <= Cardinality(Woken(s))

\* A thread owns lock l from the moment it has taken the semaphore, even if
\* lock_try_acquire() has not recorded the holder yet.
Owns(t, l) == l \in locks_held[t] \/ (pc[t] = "try" /\ on[t] = l)

\* A lock has one owner or its semaphore is 1, and lock->holder never names a
\* thread that is not the owner.
LockExclusion ==
  \A l \in Locks :
    /\ value[l] \in {0, 1}
    /\ value[l] = 1 <=> \A t \in Threads : ~Owns(t, l)
    /\ \A t, u \in Threads : Owns(t, l) /\ Owns(u, l) => t = u
    /\ \A t \in Threads : holder[l] = t <=> l \in locks_held[t]

\* A thread of higher priority than the running one is ready only if an
\* interrupt handler woke it: sema_up(), thread_create() and
\* thread_set_priority() all give it the CPU at once, an interrupt leaves it to
\* the end of the time slice.
HighestPriorityRuns ==
  \A t \in ToSet(ready_list) :
    priority[t] > priority[cur] => pc[t] = "down" /\ on[t] \in IntrSemas

\* The counters and locks that the waiting lists and the scheduler implement.
LockOwner ==
  [l \in Locks |-> IF \E t \in Threads : Owns(t, l)
                   THEN CHOOSE t \in Threads : Owns(t, l) ELSE NoThread]
Sync == INSTANCE SyncSpec
          WITH Counters <- Semas \ Locks, owner <- LockOwner,
               count <- [s \in Semas \ Locks |-> value[s]]

\* Semaphores and locks behave as atomic counters and owners, whatever the
\* scheduler does (sema_down, sema_up, lock_acquire, lock_release).
ImplementsSync == Sync!Spec

\* The comments on lock_acquire() and donate_priority(): a thread that waits for
\* a held lock has donated its priority to the lock's holder.
HolderHasWaiterPriority ==
  \A l \in Locks : \A t \in Waiting(l), u \in Threads :
    holder[l] = u => priority[u] >= priority[t]

\* Among threads of the highest priority the ready list is round robin: such a
\* thread gets the CPU unless one of a higher priority comes (thread_yield()
\* appends, get_highest_priority_thread() takes the first).
ReadyThreadRuns ==
  \A t \in Threads :
    status[t] = "READY" ~>
      \/ cur = t
      \/ \E u \in Threads : priority[u] > priority[t] /\ status[u] \in {"READY", "RUNNING"}

\* A lock outlives the thread that exits with it: process_exit() releases it,
\* one lock after another with a yield after each, unless threads of a higher
\* priority keep the CPU; so nobody is left waiting for a dead thread's lock.
ExitReleasesLocks ==
  \A t \in Threads, l \in Locks :
    pc[t] = "exit" /\ holder[l] = t ~>
      \/ holder[l] # t
      \/ \E u \in Threads : priority[u] > priority[t] /\ status[u] \in {"READY", "RUNNING"}
=============================================================================
