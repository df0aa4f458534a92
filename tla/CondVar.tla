------------------------------ MODULE CondVar ------------------------------
(***************************************************************************)
(* One condition variable and its lock (threads/synch.c), at the grain of  *)
(* the lock and of the private semaphore of each waiter.  lock_release()   *)
(* yields, so a waiter is off the CPU between releasing the lock and its   *)
(* sema_down().                                                            *)
(***************************************************************************)
EXTENDS Integers, Sequences, SequencesExt

CONSTANTS
  Threads,
  Priority  \* of each thread

NoThread == "NULL"

VARIABLES
  holder,   \* of the lock
  waiters,  \* cond->waiters: the threads whose semaphore_elem is in the list
  value,    \* of each thread's private semaphore
  pc,       \* "out", "in" (holds the lock), "wait" (before sema_down()),
            \* "blocked" (in it), "woken", "relock", "broadcast" (holds the lock)
  panicked  \* get_semaphore_to_signal() has dereferenced NULL

vars == <<holder, waiters, value, pc, panicked>>

TypeOK ==
  /\ holder \in Threads \cup {NoThread}
  /\ waiters \in Seq(Threads)
  /\ value \in [Threads -> 0 .. 1]
  /\ pc \in [Threads -> {"out", "in", "wait", "blocked", "woken", "relock", "broadcast"}]
  /\ panicked \in BOOLEAN

Init ==
  /\ holder = NoThread /\ waiters = <<>> /\ panicked = FALSE
  /\ value = [t \in Threads |-> 0]
  /\ pc = [t \in Threads |-> "out"]

-----------------------------------------------------------------------------
Goto(t, from, to) == ~panicked /\ pc[t] = from /\ pc' = [pc EXCEPT ![t] = to]

lock_acquire(t) ==
  /\ Goto(t, "out", "in") \/ Goto(t, "relock", "in")
  /\ holder = NoThread /\ holder' = t
  /\ UNCHANGED <<waiters, value, panicked>>

lock_release(t) ==
  /\ Goto(t, "in", "out")
  /\ holder' = NoThread
  /\ UNCHANGED <<waiters, value, panicked>>

\* cond_wait() up to its lock_release().
cond_wait(t) ==
  /\ Goto(t, "in", "wait")
  /\ waiters' = Append(waiters, t)
  /\ holder' = NoThread
  /\ UNCHANGED <<value, panicked>>

\* sema_down (&waiter.semaphore), and its retest after the wakeup.
SemaDown(t) ==
  /\ \/ /\ value[t] = 0
        /\ Goto(t, "wait", "blocked")
        /\ UNCHANGED value
     \/ /\ value[t] > 0
        /\ Goto(t, "wait", "relock") \/ Goto(t, "woken", "relock")
        /\ value' = [value EXCEPT ![t] = @ - 1]
  /\ UNCHANGED <<holder, waiters, panicked>>

PRI_MIN == 0

\* Mutant: >= for >.
ConsiderLater(best, t) ==
  IF Priority[t] >= best.priority \/ best.thread = NoThread
  THEN [thread |-> t, priority |-> Priority[t]] ELSE best

\* One turn of the loop of get_semaphore_to_signal(): best is toSignal, by its
\* thread, and curr_highest_priority.
Consider(best, t) ==
  IF Priority[t] > best.priority \/ best.thread = NoThread
  THEN [thread |-> t, priority |-> Priority[t]] ELSE best

get_semaphore_to_signal ==
  FoldLeft(Consider, [thread |-> NoThread, priority |-> PRI_MIN], waiters).thread

\* Mutant: no list_remove() in get_semaphore_to_signal().
SignalKeepsElem(t, next) ==
  IF \E k \in DOMAIN waiters : pc[waiters[k]] # "blocked"
  THEN panicked' = TRUE /\ UNCHANGED <<waiters, value, pc>>
  ELSE LET w == get_semaphore_to_signal
       IN  /\ value' = [value EXCEPT ![w] = @ + 1]
           /\ pc' = [pc EXCEPT ![w] = "woken", ![t] = next]
           /\ UNCHANGED <<waiters, panicked>>

\* cond_signal() by t, which goes on at next.  A waiter that is in the list but
\* not yet in its sema_down() has no thread in its semaphore's list:
\* get_highest_priority_thread() returns NULL and the kernel faults.
Signal(t, next) ==
  IF \E k \in DOMAIN waiters : pc[waiters[k]] # "blocked"
  THEN panicked' = TRUE /\ UNCHANGED <<waiters, value, pc>>
  ELSE LET w == get_semaphore_to_signal
       IN  /\ waiters' = Remove(waiters, w)
           /\ value' = [value EXCEPT ![w] = @ + 1]
           /\ pc' = [pc EXCEPT ![w] = "woken", ![t] = next]
           /\ UNCHANGED panicked

cond_signal(t) ==
  /\ ~panicked /\ pc[t] = "in" /\ waiters # <<>>
  /\ Signal(t, "in")
  /\ UNCHANGED holder

\* cond_broadcast(): one signal after another while anyone is in the list.
cond_broadcast(t) ==
  /\ waiters # <<>>
  /\ Goto(t, "in", "broadcast")
  /\ UNCHANGED <<holder, waiters, value, panicked>>

\* Mutant: if for while in cond_broadcast().
BroadcastStepOnce(t) ==
  /\ ~panicked /\ pc[t] = "broadcast"
  /\ Signal(t, "in")
  /\ UNCHANGED holder

BroadcastStep(t) ==
  /\ ~panicked /\ pc[t] = "broadcast"
  /\ IF waiters = <<>>
     THEN pc' = [pc EXCEPT ![t] = "in"] /\ UNCHANGED <<waiters, value, panicked>>
     ELSE Signal(t, "broadcast")
  /\ UNCHANGED holder

Next ==
  \E t \in Threads :
    \/ lock_acquire(t) \/ lock_release(t) \/ cond_wait(t) \/ SemaDown(t)
    \/ cond_signal(t) \/ cond_broadcast(t) \/ BroadcastStep(t)

Spec == Init /\ [][Next]_vars

\* A thread in the middle of a call goes on when it can.
Fairness == \A t \in Threads : WF_vars(SemaDown(t)) /\ WF_vars(BroadcastStep(t))
FairSpec == Spec /\ Fairness

-----------------------------------------------------------------------------
\* No signal is lost and none is invented: a thread inside cond_wait() is in the
\* condition's list, or the signal that took it out is in its semaphore.
SignalNotLost ==
  \A t \in Threads :
    /\ t \in ToSet(waiters) => pc[t] \in {"wait", "blocked"} /\ value[t] = 0
    /\ pc[t] \in {"wait", "blocked", "woken"} /\ t \notin ToSet(waiters) => value[t] = 1
    /\ pc[t] \in {"out", "in", "relock", "broadcast"} => value[t] = 0

\* Whoever leaves the list has the highest priority in it, PRI_MIN included, and
\* of equals has waited longest: what the loop's one pass with a strict
\* comparison from curr_highest_priority = PRI_MIN on computes.
SignalsHighest ==
  [][\A k \in DOMAIN waiters : waiters[k] \notin ToSet(waiters') =>
       \A j \in DOMAIN waiters :
         /\ Priority[waiters[j]] <= Priority[waiters[k]]
         /\ j < k => Priority[waiters[j]] < Priority[waiters[k]]]_vars

\* cond_broadcast() wakes everyone in the list.
BroadcastWakesAll ==
  \A t \in Threads :
    (\E u \in Threads : pc[u] = "broadcast") /\ t \in ToSet(waiters)
      ~> pc[t] = "relock" \/ panicked

\* cond_wait(): "Atomically releases LOCK and waits for COND to be signaled": a
\* thread that gets the lock and signals finds every waiter waiting, and
\* cond_signal() does not fault.
SignalDoesNotFault == ~panicked
=============================================================================
