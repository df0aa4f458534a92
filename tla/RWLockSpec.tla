----------------------------- MODULE RWLockSpec -----------------------------
(***************************************************************************)
(* What the rw_lock of threads/synch.c promises: arbitrarily many readers  *)
(* access the protected data, or one writer does.                          *)
(***************************************************************************)
CONSTANTS Threads

VARIABLES
  readers,  \* the threads that have the lock for reading
  writers   \* the threads that have the lock for writing

vars == <<readers, writers>>

Init == readers = {} /\ writers = {}

StartRead(t) ==
  /\ t \notin readers /\ writers = {}
  /\ readers' = readers \cup {t}
  /\ UNCHANGED writers

EndRead(t) ==
  /\ t \in readers
  /\ readers' = readers \ {t}
  /\ UNCHANGED writers

StartWrite(t) ==
  /\ readers = {} /\ writers = {}
  /\ writers' = {t}
  /\ UNCHANGED readers

EndWrite(t) ==
  /\ writers = {t}
  /\ writers' = {}
  /\ UNCHANGED readers

Next ==
  \E t \in Threads : StartRead(t) \/ EndRead(t) \/ StartWrite(t) \/ EndWrite(t)

Spec == Init /\ [][Next]_vars
=============================================================================
