---------------------------- MODULE RWLockProofs ----------------------------
(***************************************************************************)
(* The readers-writer lock excludes, for every finite set of threads.      *)
(* AccessAccounting is inductive together with TypeOK: Exclusion alone is  *)
(* not, since it says nothing of the reader that is counted but not yet in *)
(* and of the last reader that is no longer counted but not yet out.       *)
(***************************************************************************)
EXTENDS RWLock, FiniteSetTheorems, TLAPS

IInv == TypeOK /\ AccessAccounting

\* rw_lock_init() establishes the invariant.
LEMMA InitIInv == Init => IInv
<1> SUFFICES ASSUME Init PROVE IInv
  OBVIOUS
<1>1. CountedThreads = {}
  BY DEF Init, Counted, CountedThreads
<1>2. readers = Cardinality(CountedThreads)
  BY <1>1, FS_EmptySet DEF Init
<1> QED
  BY <1>2 DEF Init, IInv, TypeOK, AccessAccounting, HeldByOne, Pcs, Entering,
     Counting, Counted, Shared, Alone

\* What the count says: it is the number of a finite set, 0 when it is empty
\* and 1 when it has one element only.
LEMMA CountFacts ==
  ASSUME TypeOK
  PROVE  /\ IsFiniteSet(CountedThreads)
         /\ Cardinality(CountedThreads) \in Nat
         /\ Cardinality(CountedThreads) = 0 <=> CountedThreads = {}
         /\ \A t \in CountedThreads :
              Cardinality(CountedThreads) = 1 <=> CountedThreads = {t}
<1>1. IsFiniteSet(CountedThreads)
  BY ThreadsFinite, FS_Subset DEF CountedThreads
<1>2. ASSUME NEW t \in CountedThreads
      PROVE  Cardinality(CountedThreads) = 1 <=> CountedThreads = {t}
  <2>1. /\ IsFiniteSet(CountedThreads \ {t})
        /\ Cardinality(CountedThreads \ {t}) = Cardinality(CountedThreads) - 1
    BY <1>1, FS_RemoveElement
  <2>2. Cardinality(CountedThreads \ {t}) = 0 <=> CountedThreads \ {t} = {}
    BY <2>1, FS_EmptySet
  <2> QED
    BY <1>1, <2>1, <2>2, FS_CardinalityType
<1> QED
  BY <1>1, <1>2, FS_CardinalityType, FS_EmptySet

\* A step that leaves every thread on its side of ++ and -- keeps the count.
LEMMA CountKept ==
  ASSUME readers = Cardinality(CountedThreads), readers' = readers,
         \A t \in Threads : pc'[t] \in Counted <=> pc[t] \in Counted
  PROVE  readers' = Cardinality(CountedThreads')
<1>1. CountedThreads' = CountedThreads
  BY DEF CountedThreads
<1> QED
  BY <1>1

\* Every step keeps the invariant.
LEMMA NextIInv == IInv /\ [Next]_vars => IInv'
<1> SUFFICES ASSUME IInv, [Next]_vars PROVE IInv'
  OBVIOUS
<1> USE DEF IInv, TypeOK, Pcs
<1>0. readers = Cardinality(CountedThreads)
  BY DEF AccessAccounting
<1> USE DEF AccessAccounting, HeldByOne, Entering, Counting, Counted,
        Shared, Alone
<1>1. ASSUME NEW t \in Threads, ReaderEnter(t) PROVE IInv'
  <2>1. readers' = Cardinality(CountedThreads')
    BY <1>0, <1>1, CountKept DEF ReaderEnter, Goto, Counted
  <2> QED
    BY <1>1, <2>1 DEF ReaderEnter, Goto, Down
<1>2. ASSUME NEW t \in Threads, ReaderLock(t) PROVE IInv'
  <2>1. readers' = Cardinality(CountedThreads')
    BY <1>0, <1>2, CountKept DEF ReaderLock, Goto, Counted
  <2> QED
    BY <1>2, <2>1 DEF ReaderLock, Goto, Down
<1>3. ASSUME NEW t \in Threads, ReaderFirst(t) PROVE IInv'
  <2>1. readers' = Cardinality(CountedThreads')
    BY <1>0, <1>3, CountKept DEF ReaderFirst, Goto, Counted
  <2> QED
    BY <1>3, <2>1 DEF ReaderFirst, Goto, Down
<1>4. ASSUME NEW t \in Threads, ReaderDone(t) PROVE IInv'
  <2>1. readers' = Cardinality(CountedThreads')
    BY <1>0, <1>4, CountKept DEF ReaderDone, Goto, Counted
  <2> QED
    BY <1>4, <2>1 DEF ReaderDone, Goto, Up
<1>5. ASSUME NEW t \in Threads, ReaderRelease(t) PROVE IInv'
  <2>1. readers' = Cardinality(CountedThreads')
    BY <1>0, <1>5, CountKept DEF ReaderRelease, Goto, Counted
  <2> QED
    BY <1>5, <2>1 DEF ReaderRelease, Goto, Down
<1>6. ASSUME NEW t \in Threads, ReaderLast(t) PROVE IInv'
  <2>1. readers' = Cardinality(CountedThreads')
    BY <1>0, <1>6, CountKept DEF ReaderLast, Goto, Counted
  <2> QED
    BY <1>6, <2>1 DEF ReaderLast, Goto, Up
<1>7. ASSUME NEW t \in Threads, WriterEnter(t) PROVE IInv'
  <2>1. readers' = Cardinality(CountedThreads')
    BY <1>0, <1>7, CountKept DEF WriterEnter, Goto, Counted
  <2> QED
    BY <1>7, <2>1 DEF WriterEnter, Goto, Down
<1>8. ASSUME NEW t \in Threads, WriterAccess(t) PROVE IInv'
  <2>1. readers' = Cardinality(CountedThreads')
    BY <1>0, <1>8, CountKept DEF WriterAccess, Goto, Counted
  <2> QED
    BY <1>8, <2>1 DEF WriterAccess, Goto, Down
<1>9. ASSUME NEW t \in Threads, WriterDone(t) PROVE IInv'
  <2>1. readers' = Cardinality(CountedThreads')
    BY <1>0, <1>9, CountKept DEF WriterDone, Goto, Counted
  <2> QED
    BY <1>9, <2>1 DEF WriterDone, Goto, Up
<1>10. ASSUME NEW t \in Threads, WriterTry(t) PROVE IInv'
  <2>1. readers' = Cardinality(CountedThreads')
    BY <1>0, <1>10, CountKept DEF WriterTry, Goto, Counted
  <2> QED
    BY <1>10, <2>1 DEF WriterTry, Goto, Down
<1>11. ASSUME NEW t \in Threads, WriterTryAccess(t) PROVE IInv'
  <2>1. readers' = Cardinality(CountedThreads')
    BY <1>0, <1>11, CountKept DEF WriterTryAccess, Goto, Counted
  <2> QED
    BY <1>11, <2>1 DEF WriterTryAccess, Goto, Down
<1>12. ASSUME NEW t \in Threads, WriterTryFail(t) PROVE IInv'
  <2>1. readers' = Cardinality(CountedThreads')
    BY <1>0, <1>12, CountKept DEF WriterTryFail, Goto, Counted
  <2> QED
    BY <1>12, <2>1 DEF WriterTryFail, Goto, Up
<1>13. ASSUME NEW t \in Threads, WriterRelease(t) PROVE IInv'
  <2>1. readers' = Cardinality(CountedThreads')
    BY <1>0, <1>13, CountKept DEF WriterRelease, Goto, Counted
  <2> QED
    BY <1>13, <2>1 DEF WriterRelease, Goto, Up
<1>14. ASSUME NEW t \in Threads, ReaderCount(t) PROVE IInv'
  <2>1. t \notin CountedThreads /\ CountedThreads' = CountedThreads \cup {t}
    BY <1>14 DEF ReaderCount, Goto, CountedThreads
  <2>2. readers' = Cardinality(CountedThreads')
    BY <1>0, <1>14, <2>1, CountFacts, FS_AddElement DEF ReaderCount
  <2>3. readers = 0 <=> \A u \in Threads : pc[u] \notin Counted
    BY <1>0, CountFacts DEF CountedThreads
  <2> QED
    BY <1>14, <2>2, <2>3 DEF ReaderCount, Goto, Up
<1>15. ASSUME NEW t \in Threads, ReaderUncount(t) PROVE IInv'
  <2>1. t \in CountedThreads /\ CountedThreads' = CountedThreads \ {t}
    BY <1>15 DEF ReaderUncount, Goto, CountedThreads
  <2>2. readers' = Cardinality(CountedThreads')
    BY <1>0, <1>15, <2>1, CountFacts, FS_RemoveElement DEF ReaderUncount
  <2>3. readers # 0
    BY <1>0, <2>1, CountFacts
  <2>4. readers = 1 <=> \A u \in Threads : pc[u] \in Counted => u = t
    BY <1>0, <2>1, CountFacts DEF CountedThreads
  <2> QED
    BY <1>15, <2>2, <2>3, <2>4 DEF ReaderUncount, Goto, Up
<1>16. CASE UNCHANGED vars
  BY <1>16 DEF vars, CountedThreads
<1> QED
  BY <1>1, <1>2, <1>3, <1>4, <1>5, <1>6, <1>7, <1>8, <1>9, <1>10, <1>11, <1>12, <1>13, <1>14, <1>15, <1>16
     DEF Next, Call, Step, Release

\* Types and accounting hold in every reachable state, for every finite set of
\* threads: no path through the six functions loses or doubles a semaphore.
THEOREM Accounting == Spec => [](TypeOK /\ AccessAccounting)
<1>1. IInv => TypeOK /\ AccessAccounting
  BY DEF IInv
<1> QED
  BY <1>1, InitIInv, NextIInv, PTL DEF Spec

\* A writer has the lock alone.
THEOREM MutualExclusion == Spec => []Exclusion
<1>1. IInv => Exclusion
  BY DEF IInv, AccessAccounting, Exclusion, Alone, Shared, Counted
<1> QED
  BY <1>1, InitIInv, NextIInv, PTL DEF Spec

\* A step of the code is a step of RWLockSpec or changes nothing there: only
\* ReaderDone, ReaderRelease, WriterDone and WriterRelease are visible.
LEMMA StepRefines == IInv /\ [Next]_vars => [RW!Next]_(RW!vars)
<1> SUFFICES ASSUME IInv, [Next]_vars PROVE [RW!Next]_(RW!vars)
  OBVIOUS
<1> USE DEF IInv, TypeOK, Pcs, Goto, RW!vars
<1>1. ASSUME NEW t \in Threads, ReaderDone(t) PROVE RW!StartRead(t)
  BY <1>1 DEF ReaderDone, RW!StartRead, AccessAccounting, Alone, Shared, Counted
<1>2. ASSUME NEW t \in Threads, ReaderRelease(t) PROVE RW!EndRead(t)
  BY <1>2 DEF ReaderRelease, RW!EndRead
<1>3. ASSUME NEW t \in Threads, WriterDone(t) PROVE RW!StartWrite(t)
  BY <1>3 DEF WriterDone, RW!StartWrite, AccessAccounting, Alone, Shared, Counted
<1>4. ASSUME NEW t \in Threads, WriterRelease(t) PROVE RW!EndWrite(t)
  BY <1>4 DEF WriterRelease, RW!EndWrite, AccessAccounting, Alone, Shared, Counted
<1>5. ASSUME NEW t \in Threads,
             \/ ReaderEnter(t) \/ ReaderLock(t) \/ ReaderCount(t) \/ ReaderFirst(t)
             \/ ReaderUncount(t) \/ ReaderLast(t)
             \/ WriterEnter(t) \/ WriterAccess(t) \/ WriterTry(t)
             \/ WriterTryAccess(t) \/ WriterTryFail(t)
      PROVE  UNCHANGED RW!vars
  BY <1>5 DEF ReaderEnter, ReaderLock, ReaderCount, ReaderFirst, ReaderUncount,
     ReaderLast, WriterEnter, WriterAccess, WriterTry, WriterTryAccess,
     WriterTryFail
<1>6. CASE UNCHANGED vars
  BY <1>6 DEF vars
<1> QED
  BY <1>1, <1>2, <1>3, <1>4, <1>5, <1>6
     DEF Next, Call, Step, Release, RW!Next

\* The code implements the abstract readers-writer lock.
THEOREM Refinement == Spec => ImplementsRWLock
<1>1. Init => RW!Init
  BY DEF Init, RW!Init
<1> QED
  BY <1>1, InitIInv, NextIInv, StepRefines, PTL
     DEF Spec, ImplementsRWLock, RW!Spec
=============================================================================
