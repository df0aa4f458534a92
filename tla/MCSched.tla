------------------------------ MODULE MCSched ------------------------------
(* Instances of Sched for TLC. *)
EXTENDS Sched

CONSTANTS t1, t2, t3, idleThread, sema, lockA

MCInitValue == [s \in {sema} |-> 0]
=============================================================================
