------------------------------ MODULE SyncSpec ------------------------------
(***************************************************************************)
(* What threads/synch.c promises: a semaphore is a counter that a down     *)
(* takes one from only while it is positive, and a lock has one owner, who *)
(* alone can give it up.  No waiting, no scheduler, no CPU.                *)
(***************************************************************************)
EXTENDS Naturals

CONSTANTS Threads, Locks, Counters, InitValue, NoThread

VARIABLES
  count,  \* counting semaphore -> its value
  owner   \* lock -> the thread that owns it, or NoThread

vars == <<count, owner>>

Init == count = InitValue /\ owner = [l \in Locks |-> NoThread]

Down(s) ==
  /\ count[s] > 0
  /\ count' = [count EXCEPT ![s] = @ - 1]
  /\ UNCHANGED owner

Up(s) ==
  /\ count' = [count EXCEPT ![s] = @ + 1]
  /\ UNCHANGED owner

Acquire(t, l) ==
  /\ owner[l] = NoThread
  /\ owner' = [owner EXCEPT ![l] = t]
  /\ UNCHANGED count

Release(t, l) ==
  /\ owner[l] = t
  /\ owner' = [owner EXCEPT ![l] = NoThread]
  /\ UNCHANGED count

Next ==
  \/ \E s \in Counters : Down(s) \/ Up(s)
  \/ \E t \in Threads, l \in Locks : Acquire(t, l) \/ Release(t, l)

Spec == Init /\ [][Next]_vars
=============================================================================
