---------------------------- MODULE SchedProofs ----------------------------
(***************************************************************************)
(* The type invariant of the scheduler and the ownership of locks, for     *)
(* every set of threads, semaphores and priorities.  LockExclusion is      *)
(* inductive together with TypeOK once it is known that a thread between   *)
(* the two halves of lock_try_acquire() is working on a lock, and one      *)
(* inside sema_down() on a semaphore (WorksOn).                            *)
(***************************************************************************)
EXTENDS Sched, SequenceTheorems, WellFoundedInduction, TLAPS

\* Every leaf is for Zenon, unless it names another prover.
USE ZenonT(60)

WorksOn ==
  \A t \in Threads :
    /\ pc[t] = "down" => on[t] \in Semas
    /\ pc[t] = "try" => on[t] \in Locks

IInv == TypeOK /\ WorksOn /\ LockExclusion

-----------------------------------------------------------------------------
\* A non-empty set of natural numbers has a least element.
LEMMA LeastNat ==
  ASSUME NEW T \in SUBSET Nat, T # {}
  PROVE  \E x \in T : \A y \in T : x <= y
<1> DEFINE R == OpToRel(<, Nat)
<1>1. \A x, y \in Nat : <<y, x>> \in R <=> y < x
  BY DEF OpToRel
<1>2. IsWellFoundedOn(R, Nat)
  BY NatLessThanWellFounded
<1> HIDE DEF R
<1>3. PICK x \in T : \A y \in T : ~ (<<y, x>> \in R)
  BY <1>2, WFMin
<1>4. \A y \in T : ~ (y < x)
  BY <1>1, <1>3, Zenon
<1> QED
  BY <1>3, <1>4, SMTT(60)

\* A non-empty set of numbers up to a bound has a greatest element.
LEMMA GreatestNat ==
  ASSUME NEW n \in Nat, NEW T \in SUBSET (0 .. n), T # {}
  PROVE  \E x \in T : \A y \in T : y <= x
<1> DEFINE D == {k \in Nat : \E x \in T : k = n - x}
<1>1. \A x \in T : n - x \in D
  BY SMTT(60)
<1>0. D \in SUBSET Nat /\ D # {}
  BY <1>1
<1>2. PICK k \in D : \A j \in D : k <= j
  BY <1>0, LeastNat
<1>3. PICK x \in T : k = n - x
  BY <1>2
<1>4. ASSUME NEW y \in T PROVE y <= x
  <2>1. n - y \in D
    BY SMTT(60)
  <2> QED
    BY <1>2, <1>3, <2>1, SMTT(60)
<1> QED
  BY <1>3, <1>4

\* get_highest_priority_thread() finds a thread in every list that has one.
LEMMA HighestIndexInDomain ==
  ASSUME NEW q \in Seq(Threads), q # <<>>, NEW pri \in [All -> Pri]
  PROVE  HighestIndex(q, pri) \in DOMAIN q
<1> DEFINE P == {pri[q[j]] : j \in DOMAIN q}
<1>1. DOMAIN q = 1 .. Len(q) /\ Len(q) \in Nat \ {0} /\ \A j \in DOMAIN q : q[j] \in Threads
  BY EmptySeq, LenProperties
<1>2. P \in SUBSET (0 .. PriMax) /\ P # {}
  <2>1. \A j \in DOMAIN q : pri[q[j]] \in 0 .. PriMax
    BY <1>1, SchedAssumption DEF All
  <2>2. 1 \in DOMAIN q
    BY <1>1, SMTT(60)
  <2> QED
    BY <2>1, <2>2
<1>3. PICK p \in P : \A r \in P : r <= p
  BY <1>2, GreatestNat, SchedAssumption
<1> DEFINE I == {i \in DOMAIN q : pri[q[i]] = p}
<1>4. I \in SUBSET Nat /\ I # {}
  BY <1>1, <1>3, SMTT(60)
<1>5. PICK i \in I : \A j \in I : i <= j
  BY <1>4, LeastNat
<1>6. \A j \in DOMAIN q : pri[q[j]] <= pri[q[i]]
  BY <1>3, <1>5
<1>7. \A j \in DOMAIN q : j < i => pri[q[j]] < pri[q[i]]
  <2> SUFFICES ASSUME NEW j \in DOMAIN q, j < i PROVE pri[q[j]] < pri[q[i]]
    OBVIOUS
  <2>1. pri[q[j]] <= pri[q[i]] /\ pri[q[j]] \in 0 .. PriMax /\ pri[q[i]] \in 0 .. PriMax
    BY <1>2, <1>5, <1>6
  <2>2. pri[q[j]] # pri[q[i]]
    BY <1>1, <1>5, SMTT(60)
  <2> QED
    BY <2>1, <2>2, SchedAssumption, SMTT(60)
<1> QED
  BY <1>5, <1>6, <1>7 DEF HighestIndex

\* list_remove() leaves a list of threads.
LEMMA RemoveAtType ==
  ASSUME NEW S, NEW q \in Seq(S), NEW i \in DOMAIN q
  PROVE  RemoveAt(q, i) \in Seq(S)
<1>1. DOMAIN q = 1 .. Len(q) /\ Len(q) \in Nat /\ \A j \in 1 .. Len(q) : q[j] \in S
  BY LenProperties
<1>2. SubSeq(q, 1, i - 1) \in Seq(S)
  BY <1>1, SubSeqProperties, SMTT(60)
<1>3. SubSeq(q, i + 1, Len(q)) \in Seq(S)
  BY <1>1, SubSeqProperties, SMTT(60)
<1> QED
  BY <1>2, <1>3, ConcatProperties DEF RemoveAt
-----------------------------------------------------------------------------
Statuses == {"RUNNING", "READY", "BLOCKED", "DYING", "NONE"}

\* schedule() picks a thread of the ready list, or the idle thread.
LEMMA ScheduleType ==
  ASSUME NEW q \in Seq(Threads), NEW st \in [All -> Statuses], NEW pri \in [All -> Pri],
         Schedule(q, st, pri)
  PROVE  cur' \in All /\ ready_list' \in Seq(Threads) /\ status' \in [All -> Statuses]
<1>1. CASE q = <<>>
  BY <1>1 DEF Schedule, All, Statuses
<1>2. CASE q # <<>>
  <2> DEFINE i == HighestIndex(q, pri)
  <2>1. i \in DOMAIN q
    BY <1>2, HighestIndexInDomain
  <2>2. q[i] \in Threads
    BY <2>1, LenProperties
  <2>3. RemoveAt(q, i) \in Seq(Threads)
    BY <2>1, RemoveAtType
  <2> HIDE DEF i
  <2>4. cur' = q[i] /\ ready_list' = RemoveAt(q, i) /\ status' = [st EXCEPT ![q[i]] = "RUNNING"]
    BY <1>2 DEF Schedule, i
  <2> QED
    BY <2>2, <2>3, <2>4 DEF All, Statuses
<1> QED
  BY <1>1, <1>2

\* thread_yield() keeps the types.
LEMMA YieldType ==
  ASSUME cur \in All, NEW q \in Seq(Threads), NEW st \in [All -> Statuses],
         NEW pri \in [All -> Pri], Yield(q, st, pri)
  PROVE  cur' \in All /\ ready_list' \in Seq(Threads) /\ status' \in [All -> Statuses]
<1> DEFINE r == IF cur = Idle THEN q ELSE Append(q, cur)
           u == [st EXCEPT ![cur] = "READY"]
<1>1. r \in Seq(Threads)
  BY AppendProperties DEF All
<1>2. u \in [All -> Statuses]
  BY DEF Statuses
<1>3. Schedule(r, u, pri)
  BY DEF Yield
<1> QED
  BY <1>1, <1>2, <1>3, ScheduleType

\* thread_block() keeps the types.
LEMMA BlockType ==
  ASSUME TypeOK, Block
  PROVE  cur' \in All /\ ready_list' \in Seq(Threads) /\ status' \in [All -> Statuses]
<1>1. [status EXCEPT ![cur] = "BLOCKED"] \in [All -> Statuses]
  BY DEF TypeOK, Statuses
<1> QED
  BY <1>1, ScheduleType DEF Block, TypeOK

\* The list part of sema_up() keeps the types.
LEMMA UpType ==
  ASSUME TypeOK, NEW s \in Semas, PopWaiter(s)
  PROVE  /\ value' \in [Semas -> Nat] /\ waiters' \in [Semas -> Seq(Threads)]
         /\ ReadyAfterUp(s) \in Seq(Threads)
         /\ StatusAfterUp(s) \in [All -> Statuses]
<1> USE DEF TypeOK
<1>1. value' \in [Semas -> Nat]
  BY SMTT(60) DEF PopWaiter
<1>2. CASE waiters[s] = <<>>
  BY <1>1, <1>2 DEF PopWaiter, ReadyAfterUp, StatusAfterUp, Statuses
<1>3. CASE waiters[s] # <<>>
  <2> DEFINE i == HighestIndex(waiters[s], priority)
  <2>1. i \in DOMAIN waiters[s]
    BY <1>3, HighestIndexInDomain
  <2>2. waiters[s][i] \in Threads
    BY <2>1, LenProperties, SMTT(60)
  <2>3. RemoveAt(waiters[s], i) \in Seq(Threads)
    BY <2>1, RemoveAtType
  <2>4. Awoken(s) \in Threads
    BY <2>2 DEF Awoken
  <2>5. waiters' = [waiters EXCEPT ![s] = RemoveAt(waiters[s], i)]
    BY <1>3 DEF PopWaiter
  <2> HIDE DEF i
  <2>6. waiters' \in [Semas -> Seq(Threads)]
    BY <2>3, <2>5
  <2>7. ReadyAfterUp(s) \in Seq(Threads)
    BY <2>4, AppendProperties DEF ReadyAfterUp
  <2>8. StatusAfterUp(s) \in [All -> Statuses]
    BY <2>4 DEF StatusAfterUp, Statuses, All
  <2> QED
    BY <1>1, <2>6, <2>7, <2>8
<1> QED
  BY <1>2, <1>3

-----------------------------------------------------------------------------
\* thread_start() establishes the invariant.
LEMMA InitIInv == Init => IInv
<1> SUFFICES ASSUME Init PROVE IInv
  OBVIOUS
<1> USE SchedAssumption DEF Init
<1>1. TypeOK
  BY EmptySeq DEF TypeOK, All, Pcs
<1>2. WorksOn
  BY DEF WorksOn
<1>3. LockExclusion
  BY DEF LockExclusion, Owns
<1> QED
  BY <1>1, <1>2, <1>3 DEF IInv

\* A step of the locks' ownership that changes nothing of it.
LEMMA OwnershipKept ==
  ASSUME LockExclusion, WorksOn, TypeOK,
         holder' = holder, locks_held' = locks_held,
         \A l \in Locks : value'[l] = value[l],
         \A t \in Threads : pc'[t] = "try" <=> pc[t] = "try",
         \A t \in Threads : pc[t] = "try" => on'[t] = on[t]
  PROVE  LockExclusion'
<1>1. \A t \in Threads, l \in Locks : Owns(t, l)' <=> Owns(t, l)
  BY DEF Owns
<1> QED
  BY <1>1 DEF LockExclusion

\* sema_down(), from its first test or from a later one.
LEMMA SemaDownTestIInv ==
  ASSUME IInv, NEW t \in Threads, NEW s \in Semas, pc[t] \in {"run", "down"},
         SemaDownTest(t, s)
  PROVE  IInv'
<1>s. Locks \subseteq Semas /\ NoThread \notin Threads
  BY SchedAssumption
<1> USE <1>s DEF IInv
<1>1. CASE value[s] = 0
  <2>1. /\ waiters' = [waiters EXCEPT ![s] = Append(@, t)]
        /\ pc' = [pc EXCEPT ![t] = "down"] /\ on' = [on EXCEPT ![t] = s]
        /\ Block /\ UNCHANGED <<priority, value, holder, locks_held>>
    BY <1>1 DEF SemaDownTest
  <2>2. waiters' \in [Semas -> Seq(Threads)]
    BY <2>1, AppendProperties DEF TypeOK
  <2>3. TypeOK'
    BY <2>1, <2>2, BlockType DEF TypeOK, Statuses, Pcs
  <2>4. WorksOn'
    BY <2>1 DEF WorksOn, TypeOK
  <2>5. LockExclusion'
    BY <2>1, OwnershipKept DEF TypeOK
  <2> QED
    BY <2>3, <2>4, <2>5
<1>2. CASE value[s] # 0
  <2>1. /\ value' = [value EXCEPT ![s] = @ - 1]
        /\ pc' = [pc EXCEPT ![t] = "run"] /\ on' = [on EXCEPT ![t] = NoSema]
        /\ UNCHANGED <<status, cur, ready_list, priority, waiters>>
        /\ s \in Locks => /\ holder' = [holder EXCEPT ![s] = t]
                          /\ locks_held' = [locks_held EXCEPT ![t] = @ \cup {s}]
        /\ s \notin Locks => UNCHANGED <<holder, locks_held>>
    BY <1>2 DEF SemaDownTest
  <2>2. TypeOK'
    <3>1. value' \in [Semas -> Nat]
      BY <1>2, <2>1, SMTT(60) DEF TypeOK
    <3>2. holder' \in [Locks -> Threads \cup {NoThread}] /\ locks_held' \in [Threads -> SUBSET Locks]
      <4>1. CASE s \in Locks
        <5>1. holder' = [holder EXCEPT ![s] = t] /\ holder \in [Locks -> Threads \cup {NoThread}]
          BY <2>1, <4>1 DEF TypeOK
        <5>2. /\ locks_held' = [locks_held EXCEPT ![t] = @ \cup {s}]
              /\ locks_held \in [Threads -> SUBSET Locks]
          BY <2>1, <4>1 DEF TypeOK
        <5>3. holder' \in [Locks -> Threads \cup {NoThread}]
          BY <4>1, <5>1
        <5>4. locks_held' \in [Threads -> SUBSET Locks]
          BY <4>1, <5>2
        <5> QED
          BY <5>3, <5>4
      <4>2. CASE s \notin Locks
        BY <2>1, <4>2 DEF TypeOK
      <4> QED
        BY <4>1, <4>2
    <3> QED
      BY <2>1, <3>1, <3>2 DEF TypeOK, Pcs
  <2>3. WorksOn'
    BY <2>1, SMTT(30) DEF WorksOn, TypeOK
  <2>4. CASE s \notin Locks
    BY <2>1, <2>2, <2>3, <2>4, OwnershipKept DEF TypeOK
  <2>5. CASE s \in Locks
    <3>1. value[s] = 1 /\ \A u \in Threads : ~Owns(u, s)
      BY <1>2, <2>5 DEF LockExclusion
    <3>2. \A u \in Threads, l \in Locks : Owns(u, l)' <=> Owns(u, l) \/ (u = t /\ l = s)
      BY <2>1, <2>5, SMTT(60) DEF Owns, TypeOK
    <3>3. \A l \in Locks : value'[l] = IF l = s THEN 0 ELSE value[l]
      BY <2>1, <3>1, SMTT(60) DEF TypeOK
    <3>4. \A u \in Threads, l \in Locks : holder'[l] = u <=> l \in locks_held'[u]
      <4> SUFFICES ASSUME NEW u \in Threads, NEW l \in Locks
                   PROVE  holder'[l] = u <=> l \in locks_held'[u]
        OBVIOUS
      <4>1. holder[l] = u <=> l \in locks_held[u]
        BY DEF LockExclusion
      <4>2. s \notin locks_held[u]
        BY <3>1 DEF Owns
      <4>3. holder'[l] = IF l = s THEN t ELSE holder[l]
        BY <2>1, <2>5 DEF TypeOK
      <4>4. locks_held'[u] = IF u = t THEN locks_held[u] \cup {s} ELSE locks_held[u]
        BY <2>1, <2>5, SMTT(30) DEF TypeOK
      <4> QED
        BY <4>1, <4>2, <4>3, <4>4
    <3>5. LockExclusion'
      BY <3>1, <3>2, <3>3, <3>4, SMTT(60) DEF LockExclusion
    <3> QED
      BY <2>2, <2>3, <3>5
  <2> QED
    BY <2>4, <2>5
<1> QED
  BY <1>1, <1>2

\* lock_release() of a lock the thread holds, also at exit.
LEMMA LockReleaseIInv ==
  ASSUME IInv, NEW t \in Threads, NEW l \in Locks, l \in locks_held[t], pc[t] \in {"run", "exit"},
         LockReleaseBody(t, l)
  PROVE  IInv'
<1>s. Locks \subseteq Semas /\ NoThread \notin Threads
  BY SchedAssumption
<1> USE <1>s DEF IInv
<1>1. /\ locks_held' = [locks_held EXCEPT ![t] = @ \ {l}]
      /\ holder' = [holder EXCEPT ![l] = NoThread]
      /\ PopWaiter(l) /\ value' = [value EXCEPT ![l] = @ + 1]
      /\ Yield(ReadyAfterUp(l), StatusAfterUp(l), priority)
      /\ UNCHANGED <<priority, pc, on>>
  BY DEF LockReleaseBody, PopWaiter
<1>2. TypeOK'
  <2>1. cur' \in All /\ ready_list' \in Seq(Threads) /\ status' \in [All -> Statuses]
    BY <1>1, UpType, YieldType DEF TypeOK
  <2>2. holder' \in [Locks -> Threads \cup {NoThread}] /\ locks_held' \in [Threads -> SUBSET Locks]
    BY <1>1 DEF TypeOK
  <2>3. value' \in [Semas -> Nat] /\ waiters' \in [Semas -> Seq(Threads)]
    BY <1>1, UpType
  <2> QED
    BY <1>1, <2>1, <2>2, <2>3 DEF TypeOK, Statuses
<1>3. WorksOn'
  BY <1>1 DEF WorksOn
<1>4. Owns(t, l) /\ value[l] = 0 /\ \A u \in Threads : Owns(u, l) => u = t
  BY DEF LockExclusion, Owns
<1>5. \A u \in Threads, k \in Locks : Owns(u, k)' <=> Owns(u, k) /\ ~(u = t /\ k = l)
  BY <1>1 DEF Owns, TypeOK
<1>6. \A k \in Locks : value'[k] = IF k = l THEN 1 ELSE value[k]
  BY <1>1, <1>4, SMTT(60) DEF TypeOK
<1>7. \A u \in Threads, k \in Locks : holder'[k] = u <=> k \in locks_held'[u]
  BY <1>1, <1>4, SMTT(30) DEF LockExclusion, Owns, TypeOK
<1>8. LockExclusion'
  <2> SUFFICES ASSUME NEW k \in Locks
               PROVE  /\ value'[k] \in {0, 1}
                      /\ value'[k] = 1 <=> \A u \in Threads : ~Owns(u, k)'
                      /\ \A u, v \in Threads : Owns(u, k)' /\ Owns(v, k)' => u = v
                      /\ \A u \in Threads : holder'[k] = u <=> k \in locks_held'[u]
    BY DEF LockExclusion
  <2>1. /\ value[k] \in {0, 1}
        /\ value[k] = 1 <=> \A u \in Threads : ~Owns(u, k)
        /\ \A u, v \in Threads : Owns(u, k) /\ Owns(v, k) => u = v
    BY DEF LockExclusion
  <2>2. CASE k = l
    BY <1>4, <1>5, <1>6, <1>7, <2>2
  <2>3. CASE k # l
    <3>1. value'[k] = value[k] /\ \A u \in Threads : Owns(u, k)' <=> Owns(u, k)
      BY <1>5, <1>6, <2>3
    <3> QED
      BY <1>7, <2>1, <3>1
  <2> QED
    BY <2>2, <2>3
<1> QED
  BY <1>2, <1>3, <1>8

\* sema_up() on a semaphore that is no lock, in a thread or in an interrupt.
LEMMA UpIInv ==
  ASSUME IInv, NEW s \in Semas \ Locks, PopWaiter(s),
         \/ Yield(ReadyAfterUp(s), StatusAfterUp(s), priority)
         \/ ready_list' = ReadyAfterUp(s) /\ status' = StatusAfterUp(s) /\ cur' = cur,
         UNCHANGED <<priority, holder, locks_held, pc, on>>
  PROVE  IInv'
<1>s. Locks \subseteq Semas /\ NoThread \notin Threads
  BY SchedAssumption
<1> USE <1>s DEF IInv
<1>0. ReadyAfterUp(s) \in Seq(Threads) /\ StatusAfterUp(s) \in [All -> Statuses]
  BY UpType
<1>1. cur' \in All /\ ready_list' \in Seq(Threads) /\ status' \in [All -> Statuses]
  <2>1. CASE Yield(ReadyAfterUp(s), StatusAfterUp(s), priority)
    BY <1>0, <2>1, YieldType DEF TypeOK
  <2>2. CASE ready_list' = ReadyAfterUp(s) /\ status' = StatusAfterUp(s) /\ cur' = cur
    BY <1>0, <2>2 DEF TypeOK
  <2> QED
    BY <2>1, <2>2
<1>2. value' \in [Semas -> Nat] /\ waiters' \in [Semas -> Seq(Threads)]
  BY UpType
<1>3. TypeOK'
  BY <1>1, <1>2 DEF TypeOK, Statuses
<1>4. WorksOn'
  BY DEF WorksOn
<1>5. \A l \in Locks : value'[l] = value[l]
  BY SMTT(30) DEF PopWaiter, TypeOK
<1>6. LockExclusion'
  BY <1>5, OwnershipKept
<1> QED
  BY <1>3, <1>4, <1>6

\* A step of the scheduler alone.
LEMMA SwitchIInv ==
  ASSUME IInv, UNCHANGED <<value, waiters, holder, locks_held, pc, on>>,
         priority' \in [All -> Pri],
         cur' \in All /\ ready_list' \in Seq(Threads) /\ status' \in [All -> Statuses]
  PROVE  IInv'
<1> USE DEF IInv
<1>1. TypeOK'
  BY SMTT(30) DEF TypeOK, Statuses
<1>2. WorksOn'
  BY DEF WorksOn
<1>3. LockExclusion'
  BY OwnershipKept, SMTT(30)
<1> QED
  BY <1>1, <1>2, <1>3

\* lock_try_acquire(): the semaphore is taken, the holder not yet recorded.
LEMMA TryIInv ==
  ASSUME IInv, NEW t \in Threads, NEW l \in Locks, lock_try_acquire(t, l)
  PROVE  IInv'
<1>s. Locks \subseteq Semas /\ NoThread \notin Threads
  BY SchedAssumption
<1> USE <1>s DEF IInv, lock_try_acquire, Running
<1>1. TypeOK'
  BY SMTT(30) DEF TypeOK, Pcs
<1>2. WorksOn'
  BY DEF WorksOn, TypeOK
<1>3. value[l] = 1 /\ \A u \in Threads : ~Owns(u, l)
  BY SMTT(60) DEF LockExclusion
<1>4. \A u \in Threads, k \in Locks : Owns(u, k)' <=> Owns(u, k) \/ (u = t /\ k = l)
  BY DEF Owns, TypeOK
<1>5. \A k \in Locks : value'[k] = IF k = l THEN 0 ELSE value[k]
  BY <1>3, SMTT(30) DEF TypeOK
<1>6. LockExclusion'
  BY <1>3, <1>4, <1>5, SMTT(30) DEF LockExclusion
<1> QED
  BY <1>1, <1>2, <1>6

\* lock_try_acquire(): the owner becomes the holder.
LEMMA TryHoldIInv ==
  ASSUME IInv, NEW t \in Threads, LockTryAcquireHold(t)
  PROVE  IInv'
<1> USE DEF IInv
<1>0. PICK l \in Locks : l = on[t]
  BY DEF WorksOn, LockTryAcquireHold, Running
<1>a. /\ pc[t] = "try" /\ l = on[t]
      /\ locks_held' = [locks_held EXCEPT ![t] = @ \cup {l}]
      /\ holder' = [holder EXCEPT ![l] = t]
      /\ pc' = [pc EXCEPT ![t] = "run"] /\ on' = [on EXCEPT ![t] = NoSema]
      /\ UNCHANGED <<status, cur, ready_list, priority, value, waiters>>
  BY <1>0 DEF LockTryAcquireHold, Running
<1>1. TypeOK'
  <2>1. holder' \in [Locks -> Threads \cup {NoThread}]
    BY <1>a DEF TypeOK
  <2>2. locks_held' \in [Threads -> SUBSET Locks]
    BY <1>a DEF TypeOK
  <2> QED
    BY <1>a, <2>1, <2>2 DEF TypeOK, Pcs
<1>2. WorksOn'
  BY <1>a DEF WorksOn, TypeOK
<1>3. Owns(t, l) /\ \A u \in Threads : Owns(u, l) => u = t
  BY <1>a DEF LockExclusion, Owns
<1>4. \A u \in Threads, k \in Locks : Owns(u, k)' <=> Owns(u, k)
  BY <1>a, SMTT(30) DEF Owns, TypeOK
<1>5. ASSUME NEW u \in Threads, NEW k \in Locks
      PROVE  holder'[k] = u <=> k \in locks_held'[u]
  <2>1. holder[k] = u <=> k \in locks_held[u]
    BY DEF LockExclusion
  <2>2. l \in locks_held[u] => u = t
    BY <1>3 DEF Owns
  <2>3. holder'[k] = IF k = l THEN t ELSE holder[k]
    BY <1>a DEF TypeOK
  <2>4. locks_held'[u] = IF u = t THEN locks_held[u] \cup {l} ELSE locks_held[u]
    BY <1>a DEF TypeOK
  <2> QED
    BY <2>1, <2>2, <2>3, <2>4, SMTT(30)
<1>6. LockExclusion'
  <2> SUFFICES ASSUME NEW k \in Locks
               PROVE  /\ value'[k] \in {0, 1}
                      /\ value'[k] = 1 <=> \A u \in Threads : ~Owns(u, k)'
                      /\ \A u, v \in Threads : Owns(u, k)' /\ Owns(v, k)' => u = v
                      /\ \A u \in Threads : holder'[k] = u <=> k \in locks_held'[u]
    BY SMTT(30) DEF LockExclusion
  <2>1. /\ value[k] \in {0, 1}
        /\ value[k] = 1 <=> \A u \in Threads : ~Owns(u, k)
        /\ \A u, v \in Threads : Owns(u, k) /\ Owns(v, k) => u = v
    BY SMTT(30) DEF LockExclusion
  <2>2. value'[k] = value[k]
    BY <1>a
  <2> QED
    BY <1>4, <1>5, <2>1, <2>2
<1> QED
  BY <1>1, <1>2, <1>6

-----------------------------------------------------------------------------
\* Every step of the scheduler preserves the invariant.
LEMMA NextIInv == IInv /\ [Next]_vars => IInv'
<1> SUFFICES ASSUME IInv, [Next]_vars PROVE IInv'
  OBVIOUS
<1>s. Locks \subseteq Semas /\ IntrSemas \subseteq Semas \ Locks /\ 0 \in Pri
  BY SchedAssumption
<1> USE <1>s
<1>a. TypeOK /\ WorksOn /\ LockExclusion
  BY DEF IInv
<1>1. ASSUME NEW t \in Threads, NEW s \in Semas, sema_down(t, s) PROVE IInv'
  BY <1>1, SemaDownTestIInv DEF sema_down, Running
<1>2. ASSUME NEW t \in Threads, NEW s \in Semas, sema_try_down(t, s) PROVE IInv'
  <2>1. TypeOK'
    BY <1>a, <1>2, SMTT(30) DEF sema_try_down, TypeOK
  <2>2. WorksOn'
    BY <1>a, <1>2 DEF sema_try_down, WorksOn
  <2>3. LockExclusion'
    BY <1>a, <1>2, OwnershipKept DEF sema_try_down, TypeOK
  <2> QED
    BY <2>1, <2>2, <2>3 DEF IInv
<1>3. ASSUME NEW t \in Threads, NEW s \in Semas, sema_up(t, s) PROVE IInv'
  BY <1>3, UpIInv DEF sema_up
<1>4. ASSUME NEW t \in Threads, NEW l \in Locks, lock_acquire(t, l) PROVE IInv'
  BY <1>4, SemaDownTestIInv DEF lock_acquire, Running
<1>5. ASSUME NEW t \in Threads, NEW l \in Locks, lock_try_acquire(t, l) PROVE IInv'
  BY <1>5, TryIInv
<1>6. ASSUME NEW t \in Threads, NEW l \in Locks, lock_release(t, l) PROVE IInv'
  <2>1. l \in locks_held[t]
    BY <1>a, <1>6 DEF lock_release, LockExclusion
  <2> QED
    BY <1>6, <2>1, LockReleaseIInv, SMTT(30) DEF lock_release, Running
<1>7. ASSUME NEW t \in Threads, SemaDownResume(t) PROVE IInv'
  <2>1. on[t] \in Semas
    BY <1>a, <1>7 DEF SemaDownResume, Running, WorksOn
  <2> QED
    BY <1>7, <2>1, SemaDownTestIInv DEF SemaDownResume, Running
<1>8. ASSUME NEW t \in Threads, LockTryAcquireHold(t) PROVE IInv'
  BY <1>8, TryHoldIInv
<1>9. ASSUME NEW t \in Threads, NEW p \in Pri, thread_set_priority(t, p) PROVE IInv'
  <2>1. priority' \in [All -> Pri]
    BY <1>a, <1>9 DEF thread_set_priority, TypeOK
  <2>2. cur' \in All /\ ready_list' \in Seq(Threads) /\ status' \in [All -> Statuses]
    BY <1>a, <1>9, <2>1, YieldType DEF thread_set_priority, TypeOK, Statuses
  <2> QED
    BY <1>9, <2>1, <2>2, SwitchIInv DEF thread_set_priority
<1>10. ASSUME NEW t \in Threads, NEW u \in Threads, NEW p \in Pri, thread_create(t, u, p)
       PROVE  IInv'
  <2> DEFINE q  == Append(ready_list, u)
             st == [status EXCEPT ![u] = "READY"]
  <2>1. priority' \in [All -> Pri]
    BY <1>a, <1>10 DEF thread_create, TypeOK
  <2>2. q \in Seq(Threads)
    BY <1>a, AppendProperties DEF TypeOK
  <2>3. st \in [All -> Statuses]
    BY <1>a DEF TypeOK, Statuses
  <2>4. Yield(q, st, priority') \/ (ready_list' = q /\ status' = st /\ cur' = cur)
    BY <1>10 DEF thread_create
  <2> HIDE DEF q, st
  <2>5. cur' \in All /\ ready_list' \in Seq(Threads) /\ status' \in [All -> Statuses]
    BY <1>a, <2>1, <2>2, <2>3, <2>4, YieldType DEF TypeOK
  <2> QED
    BY <1>10, <2>1, <2>5, SwitchIInv DEF thread_create
<1>11. ASSUME NEW t \in Threads, thread_exit(t) PROVE IInv'
  <2>1. TypeOK'
    BY <1>a, <1>11 DEF thread_exit, TypeOK, Pcs
  <2>2. WorksOn'
    BY <1>a, <1>11 DEF thread_exit, WorksOn, TypeOK
  <2>3. LockExclusion'
    BY <1>a, <1>11, OwnershipKept DEF thread_exit, TypeOK, Running
  <2> QED
    BY <2>1, <2>2, <2>3 DEF IInv
<1>12. ASSUME NEW t \in Threads, ReleaseAllLocks(t) PROVE IInv'
  <2>1. PICK l \in locks_held[t] : LockReleaseBody(t, l)
    BY <1>12 DEF ReleaseAllLocks
  <2>2. l \in Locks
    BY <1>a, <2>1 DEF TypeOK
  <2> QED
    BY <1>12, <2>1, <2>2, LockReleaseIInv DEF ReleaseAllLocks, Running
<1>13. ASSUME NEW t \in Threads, Die(t) PROVE IInv'
  <2> DEFINE st == [status EXCEPT ![t] = IF t = Main THEN "DYING" ELSE "NONE"]
  <2>1. st \in [All -> Statuses]
    BY <1>a DEF TypeOK, Statuses
  <2>2. Schedule(ready_list, st, priority)
    BY <1>13 DEF Die
  <2> HIDE DEF st
  <2>3. cur' \in All /\ ready_list' \in Seq(Threads) /\ status' \in [All -> Statuses]
    BY <1>a, <2>1, <2>2, ScheduleType DEF TypeOK
  <2>4. TypeOK'
    BY <1>a, <1>13, <2>3 DEF Die, TypeOK, Pcs, Statuses
  <2>5. WorksOn'
    BY <1>a, <1>13 DEF Die, WorksOn, TypeOK
  <2>6. LockExclusion'
    BY <1>a, <1>13, OwnershipKept DEF Die, TypeOK, Running
  <2> QED
    BY <2>4, <2>5, <2>6 DEF IInv
<1>14. ASSUME NEW s \in IntrSemas, InterruptSemaUp(s) PROVE IInv'
  BY <1>14, UpIInv DEF InterruptSemaUp
<1>15. CASE Preempt
  <2>1. cur' \in All /\ ready_list' \in Seq(Threads) /\ status' \in [All -> Statuses]
    BY <1>a, <1>15, YieldType DEF Preempt, TypeOK, Statuses
  <2> QED
    BY <1>a, <1>15, <2>1, SwitchIInv DEF Preempt, TypeOK
<1>16. CASE idle
  BY <1>a, <1>16, BlockType, SwitchIInv DEF idle, TypeOK
<1>17. CASE UNCHANGED vars
  <2> USE <1>a, <1>17 DEF vars
  <2>1. TypeOK'
    BY SMTT(30) DEF TypeOK
  <2>2. WorksOn'
    BY DEF WorksOn
  <2>3. LockExclusion'
    BY OwnershipKept
  <2> QED
    BY <2>1, <2>2, <2>3 DEF IInv
<1> QED
  BY <1>1, <1>2, <1>3, <1>4, <1>5, <1>6, <1>7, <1>8, <1>9, <1>10, <1>11,
     <1>12, <1>13, <1>14, <1>15, <1>16, <1>17 DEF Next

-----------------------------------------------------------------------------
\* The scheduler keeps its types, for every set of threads and semaphores: in
\* particular next_thread_to_run() always finds a thread or the idle thread.
THEOREM TypeCorrect == Spec => []TypeOK
<1>1. IInv => TypeOK
  BY DEF IInv
<1> QED
  BY <1>1, InitIInv, NextIInv, PTL DEF Spec

\* Every lock has one owner or is free, and lock->holder names nobody else
\* (lock_acquire(), lock_try_acquire(), lock_release(), release_all_locks()).
THEOREM LockOwnership == Spec => []LockExclusion
<1>1. IInv => LockExclusion
  BY DEF IInv
<1> QED
  BY <1>1, InitIInv, NextIInv, PTL DEF Spec
=============================================================================
