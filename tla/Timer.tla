------------------------------- MODULE Timer -------------------------------
(***************************************************************************)
(* timer_sleep() and the timer interrupt (devices/timer.c).                *)
(*                                                                         *)
(* The code only ever compares wake times with each other and with ticks,  *)
(* so due is wake_time - ticks: a tick takes one from every due time.      *)
(* Interrupts are on in timer_sleep() except around the list insertion: a  *)
(* tick may come between any two of its steps.  What thread_tick() does    *)
(* for the scheduler, the end of the time slice, is Sched's Preempt.       *)
(***************************************************************************)
EXTENDS Integers, Sequences, SequencesExt

CONSTANTS
  Threads,
  MaxSleep, \* bound: sleep_ticks is at most this
  MaxLate   \* bound: ticks by which a thread is late when it gets to the list

VARIABLES
  sleeping_threads_list,  \* the threads whose sleeping_thread is in it, in order
  due,    \* wake_time - ticks, of a thread in timer_sleep()
  value,  \* of its semaphore
  pc      \* "out", "check" (start is read), "insert", "down" (at sema_down())

vars == <<sleeping_threads_list, due, value, pc>>

TypeOK ==
  /\ sleeping_threads_list \in Seq(Threads)
  /\ due \in [Threads -> -MaxLate - 1 .. MaxSleep]
  /\ value \in [Threads -> 0 .. 1]
  /\ pc \in [Threads -> {"out", "check", "insert", "down"}]

\* timer_init()
Init ==
  /\ sleeping_threads_list = <<>>
  /\ due = [t \in Threads |-> 0]
  /\ value = [t \in Threads |-> 0]
  /\ pc = [t \in Threads |-> "out"]

-----------------------------------------------------------------------------
\* timer_sleep() reads ticks; a call with sleep_ticks <= 0 returns at once.
timer_sleep(t, sleep_ticks) ==
  /\ pc[t] = "out" /\ sleep_ticks > 0
  /\ pc' = [pc EXCEPT ![t] = "check"]
  /\ due' = [due EXCEPT ![t] = sleep_ticks]
  /\ value' = [value EXCEPT ![t] = 0]
  /\ UNCHANGED sleeping_threads_list

Return(t) ==
  /\ pc' = [pc EXCEPT ![t] = "out"]
  /\ due' = [due EXCEPT ![t] = 0]
  /\ UNCHANGED sleeping_threads_list

\* wake_time <= timer_ticks(): no need to sleep any more.
Check(t) ==
  /\ pc[t] = "check"
  /\ IF due[t] <= 0 THEN Return(t)
     ELSE pc' = [pc EXCEPT ![t] = "insert"] /\ UNCHANGED <<sleeping_threads_list, due>>
  /\ UNCHANGED value

\* Mutant: a thread goes after the first that wakes later.
InsertAfterLater(t) ==
  LET later == {k \in DOMAIN sleeping_threads_list : due[t] < due[sleeping_threads_list[k]]}
      at == IF later = {} THEN Len(sleeping_threads_list) + 1
            ELSE 1 + CHOOSE k \in later : \A j \in later : k <= j
  IN  InsertAt(sleeping_threads_list, at, t)

\* list_insert_ordered() with sleeping_thread_insert_func(): before the first
\* thread that wakes later.
InsertOrdered(t) ==
  LET later == {k \in DOMAIN sleeping_threads_list : due[t] < due[sleeping_threads_list[k]]}
      at == IF later = {} THEN Len(sleeping_threads_list) + 1
            ELSE CHOOSE k \in later : \A j \in later : k <= j
  IN  InsertAt(sleeping_threads_list, at, t)

Insert(t) ==
  /\ pc[t] = "insert"
  /\ pc' = [pc EXCEPT ![t] = "down"]
  /\ sleeping_threads_list' = InsertOrdered(t)
  /\ UNCHANGED <<due, value>>

\* sema_down() gets through, and timer_sleep() returns.
Wake(t) ==
  /\ pc[t] = "down" /\ value[t] > 0
  /\ value' = [value EXCEPT ![t] = @ - 1]
  /\ Return(t)

\* Mutant: no list_push_front().
TickDropsFirst ==
  LET later == [t \in Threads |-> IF pc[t] = "out" \/ due[t] < -MaxLate
                                  THEN due[t] ELSE due[t] - 1]
      Asleep(k) == later[sleeping_threads_list[k]] > 0
      woken == {k \in DOMAIN sleeping_threads_list : \A j \in 1 .. k : ~Asleep(j)}
      InWoken(t) == \E k \in woken : sleeping_threads_list[k] = t
  IN  /\ \A t \in Threads : pc[t] \in {"check", "insert"} => due[t] > -MaxLate
      /\ due' = later
      /\ sleeping_threads_list' = LET rest == SelectSeq(sleeping_threads_list, LAMBDA t : ~InWoken(t)) IN IF rest = <<>> THEN rest ELSE Tail(rest)
      /\ value' = [t \in Threads |-> IF InWoken(t) THEN value[t] + 1 ELSE value[t]]
      /\ UNCHANGED pc

\* Mutant: list_front() for list_pop_front().
TickKeepsElem ==
  LET later == [t \in Threads |-> IF pc[t] = "out" \/ due[t] < -MaxLate
                                  THEN due[t] ELSE due[t] - 1]
      Asleep(k) == later[sleeping_threads_list[k]] > 0
      woken == {k \in DOMAIN sleeping_threads_list : \A j \in 1 .. k : ~Asleep(j)}
      InWoken(t) == \E k \in woken : sleeping_threads_list[k] = t
  IN  /\ \A t \in Threads : pc[t] \in {"check", "insert"} => due[t] > -MaxLate
      /\ due' = later
      /\ sleeping_threads_list' = sleeping_threads_list
      /\ value' = [t \in Threads |-> IF InWoken(t) THEN value[t] + 1 ELSE value[t]]
      /\ UNCHANGED pc

\* timer_interrupt(): sleepers are taken from the front of the list and woken
\* up to the first whose time has not come.  The due time of a thread that has
\* been woken no longer matters and stops at the bound.
timer_interrupt ==
  LET later == [t \in Threads |-> IF pc[t] = "out" \/ due[t] < -MaxLate
                                  THEN due[t] ELSE due[t] - 1]
      Asleep(k) == later[sleeping_threads_list[k]] > 0
      woken == {k \in DOMAIN sleeping_threads_list : \A j \in 1 .. k : ~Asleep(j)}
      InWoken(t) == \E k \in woken : sleeping_threads_list[k] = t
  IN  /\ \A t \in Threads : pc[t] \in {"check", "insert"} => due[t] > -MaxLate
      /\ due' = later
      /\ sleeping_threads_list' = SelectSeq(sleeping_threads_list, LAMBDA t : ~InWoken(t))
      /\ value' = [t \in Threads |-> IF InWoken(t) THEN value[t] + 1 ELSE value[t]]
      /\ UNCHANGED pc

Step(t) == Check(t) \/ Insert(t) \/ Wake(t)

Next ==
  \/ timer_interrupt
  \/ \E t \in Threads : Step(t) \/ \E n \in 1 .. MaxSleep : timer_sleep(t, n)

Spec == Init /\ [][Next]_vars

\* The timer ticks, and threads that can run do in the end.
Fairness == WF_vars(timer_interrupt) /\ \A t \in Threads : WF_vars(Step(t))
FairSpec == Spec /\ Fairness

-----------------------------------------------------------------------------
\* The thread in the list is the one at sema_down() that has not been upped: no
\* sleeping_thread of a stack frame that is gone is in the list, and no wakeup
\* comes before the time.
ListedIsAsleep ==
  \A t \in Threads :
    /\ t \in ToSet(sleeping_threads_list) <=> pc[t] = "down" /\ value[t] = 0
    /\ value[t] = 1 => pc[t] = "down" /\ due[t] <= 0

\* A tick leaves nobody in the list whose time has come.
TickWakesAllDue ==
  [][due' # due /\ pc' = pc => \A t \in ToSet(sleeping_threads_list') : due'[t] > 0]_vars

\* Every call of timer_sleep() returns.
SleepReturns == \A t \in Threads : pc[t] # "out" ~> pc[t] = "out"
=============================================================================
