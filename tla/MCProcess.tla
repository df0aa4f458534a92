----------------------------- MODULE MCProcess -----------------------------
(***************************************************************************)
(* Two families of processes, one chosen at the start.  "line": the main   *)
(* thread, a and b, whoever creates whom.  "siblings": the main thread     *)
(* creates a, and a creates b and then c, so that a parent has a second    *)
(* exec() and two children to wait for or to leave behind.                 *)
(* Bounds: siblings make no file system calls (they still load and close   *)
(* their executable) and exit with Killed only, and c's load succeeds.     *)
(***************************************************************************)
EXTENDS Process

CONSTANTS main, a, b, c

VARIABLE family

\* Names are given out in order: a first, c last.
Created(p) == page'[p] # "unused"
InFamily ==
  /\ Created(b) => Created(a)
  /\ Created(c) => family = "siblings" /\ Created(b)
  /\ family = "siblings" =>
       /\ \A p \in {b, c} : Created(p) => parent'[p] = a
       /\ fs_calls' = 0
       /\ pc[c] = "load" => pc'[c] \in {"load", "loaded"}
       /\ \A p \in Procs : pc[p] = "running" /\ pc'[p] = "exit_lock" =>
            exit_status'[p] = Killed

MCInit == Init /\ family \in {"line", "siblings"}
MCSpec ==
  MCInit /\ [][Next /\ InFamily /\ UNCHANGED family]_<<vars, family>> /\ Fairness
=============================================================================
