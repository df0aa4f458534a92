------------------------------- MODULE RWLock -------------------------------
(***************************************************************************)
(* The readers-writer lock of threads/synch.c, over three semaphores that  *)
(* behave as SyncSpec says (Sched shows they do).  Between two semaphore   *)
(* operations of a thread any other thread may run.  The access to readers *)
(* between the down and the up of readers_lock is joined with the up.      *)
(***************************************************************************)
EXTENDS Naturals, FiniteSets

CONSTANT Threads

ASSUME ThreadsFinite == IsFiniteSet(Threads)

VARIABLES
  no_waiting, no_accessing, readers_lock,  \* the semaphores' values
  readers,                                 \* rw_lock->readers
  pc                                       \* thread -> its place, see below

vars == <<no_waiting, no_accessing, readers_lock, readers, pc>>

\* reader_acquire: idle -> ra_lock -> ra_count -> ra_first | ra_done -> reading
\* reader_release: reading -> rr_count -> rr_last | idle -> idle
\* writer_acquire: idle -> wa_access -> wa_done -> writing, writer_release: -> idle
\* writer_try_acquire: idle -> wt_access -> wa_done -> writing, or -> wt_fail -> idle
Pcs == {"idle", "ra_lock", "ra_count", "ra_first", "ra_done", "reading",
        "rr_count", "rr_last", "wa_access", "wa_done", "writing",
        "wt_access", "wt_fail"}

TypeOK ==
  /\ no_waiting \in {0, 1} /\ no_accessing \in {0, 1} /\ readers_lock \in {0, 1}
  /\ readers \in Nat
  /\ pc \in [Threads -> Pcs]

\* rw_lock_init().
Init ==
  /\ no_waiting = 1 /\ no_accessing = 1 /\ readers_lock = 1
  /\ readers = 0
  /\ pc = [t \in Threads |-> "idle"]

Goto(t, from, to) == pc[t] = from /\ pc' = [pc EXCEPT ![t] = to]

Down(sema) == sema > 0 /\ sema' = sema - 1
Up(sema) == sema' = sema + 1

-----------------------------------------------------------------------------
\* reader_acquire()
ReaderEnter(t) ==
  /\ Goto(t, "idle", "ra_lock") /\ Down(no_waiting)
  /\ UNCHANGED <<no_accessing, readers_lock, readers>>

ReaderLock(t) ==
  /\ Goto(t, "ra_lock", "ra_count") /\ Down(readers_lock)
  /\ UNCHANGED <<no_waiting, no_accessing, readers>>

\* Mutant: the test of the first reader is on the count after ++.
ReaderCountAfter(t) ==
  /\ Goto(t, "ra_count", IF readers + 1 = 0 THEN "ra_first" ELSE "ra_done")
  /\ readers' = readers + 1
  /\ Up(readers_lock)
  /\ UNCHANGED <<no_waiting, no_accessing>>

\* int readers = rw_lock->readers++;
ReaderCount(t) ==
  /\ Goto(t, "ra_count", IF readers = 0 THEN "ra_first" ELSE "ra_done")
  /\ readers' = readers + 1
  /\ Up(readers_lock)
  /\ UNCHANGED <<no_waiting, no_accessing>>

ReaderFirst(t) ==
  /\ Goto(t, "ra_first", "ra_done") /\ Down(no_accessing)
  /\ UNCHANGED <<no_waiting, readers_lock, readers>>

ReaderDone(t) ==
  /\ Goto(t, "ra_done", "reading") /\ Up(no_waiting)
  /\ UNCHANGED <<no_accessing, readers_lock, readers>>

\* reader_release()
ReaderRelease(t) ==
  /\ Goto(t, "reading", "rr_count") /\ Down(readers_lock)
  /\ UNCHANGED <<no_waiting, no_accessing, readers>>

\* Mutant: the count is tested before the --, as in reader_acquire.
ReaderUncountBefore(t) ==
  /\ Goto(t, "rr_count", IF readers = 0 THEN "rr_last" ELSE "idle")
  /\ readers' = readers - 1
  /\ Up(readers_lock)
  /\ UNCHANGED <<no_waiting, no_accessing>>

\* Mutant: every reader that leaves gives no_accessing back.
ReaderUncountAlways(t) ==
  /\ Goto(t, "rr_count", "rr_last")
  /\ readers' = readers - 1
  /\ Up(readers_lock)
  /\ UNCHANGED <<no_waiting, no_accessing>>

\* int readers = --rw_lock->readers;
ReaderUncount(t) ==
  /\ Goto(t, "rr_count", IF readers = 1 THEN "rr_last" ELSE "idle")
  /\ readers' = readers - 1
  /\ Up(readers_lock)
  /\ UNCHANGED <<no_waiting, no_accessing>>

ReaderLast(t) ==
  /\ Goto(t, "rr_last", "idle") /\ Up(no_accessing)
  /\ UNCHANGED <<no_waiting, readers_lock, readers>>

\* writer_acquire()
WriterEnter(t) ==
  /\ Goto(t, "idle", "wa_access") /\ Down(no_waiting)
  /\ UNCHANGED <<no_accessing, readers_lock, readers>>

WriterAccess(t) ==
  /\ Goto(t, "wa_access", "wa_done") /\ Down(no_accessing)
  /\ UNCHANGED <<no_waiting, readers_lock, readers>>

WriterDone(t) ==
  /\ Goto(t, "wa_done", "writing") /\ Up(no_waiting)
  /\ UNCHANGED <<no_accessing, readers_lock, readers>>

\* writer_try_acquire(): when the first sema_try_down() fails nothing changes.
WriterTry(t) ==
  /\ Goto(t, "idle", "wt_access") /\ Down(no_waiting)
  /\ UNCHANGED <<no_accessing, readers_lock, readers>>

WriterTryAccess(t) ==
  /\ \/ Goto(t, "wt_access", "wa_done") /\ Down(no_accessing)
     \/ Goto(t, "wt_access", "wt_fail") /\ no_accessing = 0 /\ UNCHANGED no_accessing
  /\ UNCHANGED <<no_waiting, readers_lock, readers>>

\* Mutant: the failing path of writer_try_acquire forgets its sema_up.
WriterTryFailKeeps(t) ==
  /\ Goto(t, "wt_fail", "idle")
  /\ UNCHANGED <<no_waiting, no_accessing, readers_lock, readers>>

WriterTryFail(t) ==
  /\ Goto(t, "wt_fail", "idle") /\ Up(no_waiting)
  /\ UNCHANGED <<no_accessing, readers_lock, readers>>

\* writer_release()
WriterRelease(t) ==
  /\ Goto(t, "writing", "idle") /\ Up(no_accessing)
  /\ UNCHANGED <<no_waiting, readers_lock, readers>>

-----------------------------------------------------------------------------
\* Steps a thread takes once it has called an acquire or a release function.
Step(t) ==
  \/ ReaderLock(t) \/ ReaderCount(t) \/ ReaderFirst(t) \/ ReaderDone(t)
  \/ ReaderUncount(t) \/ ReaderLast(t)
  \/ WriterAccess(t) \/ WriterDone(t) \/ WriterTryAccess(t) \/ WriterTryFail(t)

Call(t) == ReaderEnter(t) \/ WriterEnter(t) \/ WriterTry(t)
Release(t) == ReaderRelease(t) \/ WriterRelease(t)

Next == \E t \in Threads : Call(t) \/ Step(t) \/ Release(t)

Spec == Init /\ [][Next]_vars

\* A thread that can go on does, and gives the lock back some time after it got
\* it.  Calling is up to the thread.
Fairness == \A t \in Threads : WF_vars(Step(t)) /\ WF_vars(Release(t))
FairSpec == Spec /\ Fairness

-----------------------------------------------------------------------------
Entering == {"ra_lock", "ra_count", "ra_first", "ra_done",
             "wa_access", "wa_done", "wt_access", "wt_fail"}
Counting == {"ra_count", "rr_count"}
Counted == {"ra_first", "ra_done", "reading", "rr_count"}
CountedThreads == {t \in Threads : pc[t] \in Counted}
Shared == Counted \ {"ra_first"}             \* hold no_accessing together
Alone == {"wa_done", "writing", "rr_last"}   \* hold no_accessing alone

\* "arbitarily many readers to access the protected data, or one writer".
Exclusion ==
  \A t, u \in Threads :
    pc[t] = "writing" /\ pc[u] \in {"reading", "writing"} => t = u

\* A semaphore used as a lock is 0 exactly while one thread is past its down.
HeldByOne(sema, inside) ==
  /\ sema = 0 <=> \E t \in Threads : pc[t] \in inside
  /\ \A t, u \in Threads : pc[t] \in inside /\ pc[u] \in inside => t = u

\* no_accessing is passed on through every path of the six functions: it is 0
\* exactly while one writer has it, the last reader on its way out has it, or
\* the counted readers have it together, and a first reader that waits for it
\* is the only reader counted.  readers counts the threads between ++ and --.
AccessAccounting ==
  /\ HeldByOne(no_waiting, Entering)
  /\ HeldByOne(readers_lock, Counting)
  /\ no_accessing = 0 <=> \E t \in Threads : pc[t] \in Alone \cup Shared
  /\ \A t, u \in Threads :
       pc[t] \in Alone /\ pc[u] \in Alone \cup Shared => t = u
  /\ \A t, u \in Threads : pc[t] = "ra_first" /\ pc[u] \in Counted => t = u
  /\ readers = Cardinality(CountedThreads)

\* Once a thread is past no_waiting it gets the lock: only there can it starve.
EnteredGetsLock ==
  \A t \in Threads :
    pc[t] \in Entering \ {"wt_access", "wt_fail"}
      ~> pc[t] \in {"reading", "writing"}

\* The semaphore code implements the promise: a thread is a reader (a writer)
\* from the return of its acquire to the call of its release.
RW == INSTANCE RWLockSpec
        WITH readers <- {t \in Threads : pc[t] = "reading"},
             writers <- {t \in Threads : pc[t] = "writing"}
ImplementsRWLock == RW!Spec
=============================================================================
