------------------------------ MODULE Process ------------------------------
(***************************************************************************)
(* Parent and child processes: exec, wait and exit (userprog/process.c,    *)
(* userprog/syscall.c, and the set-up in threads/thread.c).                *)
(*                                                                         *)
(* A process has a struct thread, in a page that is freed when it dies,    *)
(* and a vital_info, malloc'd for the parent to read after the child has   *)
(* died and freed by the last of the two.  process_exit() runs with        *)
(* interrupts off, so its sections between acquiring and releasing a       *)
(* vital_info_lock are atomic; but each lock_release() and sema_up() in it *)
(* yields.  process_wait() runs with interrupts on.                        *)
(*                                                                         *)
(* User processes all have the same priority and the ready list is first   *)
(* in first out, so a parent that sema_up(&cur->wait_on_me) wakes leaves   *)
(* its sema_down() before the child runs again: the wakeup hands over.     *)
(***************************************************************************)
EXTENDS Integers, FiniteSets

CONSTANTS
  Procs,   \* struct thread pages (a page is not reused)
  Main,    \* the initial thread, which runs the kernel's command line
  Statuses, \* exit statuses user programs pass to exit()
  MaxFiles, \* bound: files a process has open
  MaxCalls  \* bound: file system calls that all the processes make

NoProc == "NULL"
Killed == -1

ASSUME ProcessAssumption ==
  /\ Main \in Procs /\ NoProc \notin Procs /\ Statuses \subseteq Int
  /\ MaxFiles \in Nat \ {0} /\ MaxCalls \in Nat

VARIABLES
  page,     \* struct thread: "unused", "live" or "freed"
  parent,   \* parent_thread
  children, \* child_threads: processes whose vital_info is in the list
  load_sema, did_load,   \* sema_child_load, child_did_load_successfully
  wait_sema,             \* wait_on_me
  info,     \* vital_info's memory: "unused", "live", "freed" or "corrupt"
  exit_status, child_is_finished, parent_is_finished,  \* its fields
  info_lock,             \* holder of its vital_info_lock
  file_system_lock,      \* its holder
  open_files, \* how many files a process has open, mapped ones included
  fs_calls,   \* file system calls so far
  pc, arg   \* where the process stands and the process it works on

vars == <<page, parent, children, load_sema, did_load, wait_sema, info,
          exit_status, child_is_finished, parent_is_finished, info_lock,
          file_system_lock, open_files, fs_calls, pc, arg>>
infoVars == <<info, exit_status, child_is_finished, parent_is_finished>>
loadVars == <<load_sema, did_load>>
fsVars == <<file_system_lock, open_files, fs_calls>>

Loads == {"start", "load", "loaded", "not_loaded"}
Exited == {"exit_up", "notify", "notify_free", "release", "closing", "die", "dead"}
Pcs == {"none", "load_failed", "running", "file_call", "exec", "wait_lock", "wait_test",
        "wait_down", "wait_blocked", "wait_lost", "wait_reap", "exit_lock", "exit_free"}
       \cup Loads \cup Exited

TypeOK ==
  /\ page \in [Procs -> {"unused", "live", "freed"}]
  /\ parent \in [Procs -> Procs \cup {NoProc}]
  /\ children \in [Procs -> SUBSET Procs]
  /\ load_sema \in [Procs -> Nat] /\ did_load \in [Procs -> BOOLEAN]
  /\ wait_sema \in [Procs -> Nat]
  /\ info \in [Procs -> {"unused", "live", "freed", "corrupt"}]
  /\ exit_status \in [Procs -> Statuses \cup {0, Killed}]
  /\ child_is_finished \in [Procs -> BOOLEAN]
  /\ parent_is_finished \in [Procs -> BOOLEAN]
  /\ info_lock \in [Procs -> Procs \cup {NoProc}]
  /\ file_system_lock \in Procs \cup {NoProc}
  /\ open_files \in [Procs -> 0 .. MaxFiles] /\ fs_calls \in 0 .. MaxCalls
  /\ pc \in [Procs -> Pcs] /\ arg \in [Procs -> Procs \cup {NoProc}]

Init ==
  /\ page = [p \in Procs |-> IF p = Main THEN "live" ELSE "unused"]
  /\ parent = [p \in Procs |-> NoProc]
  /\ children = [p \in Procs |-> {}]
  /\ load_sema = [p \in Procs |-> 0] /\ did_load = [p \in Procs |-> FALSE]
  /\ wait_sema = [p \in Procs |-> 0]
  /\ info = [p \in Procs |-> IF p = Main THEN "live" ELSE "unused"]
  /\ exit_status = [p \in Procs |-> 0]
  /\ child_is_finished = [p \in Procs |-> FALSE]
  /\ parent_is_finished = [p \in Procs |-> FALSE]
  /\ info_lock = [p \in Procs |-> NoProc]
  /\ file_system_lock = NoProc
  /\ open_files = [p \in Procs |-> 0] /\ fs_calls = 0
  /\ pc = [p \in Procs |-> IF p = Main THEN "running" ELSE "none"]
  /\ arg = [p \in Procs |-> NoProc]

-----------------------------------------------------------------------------
Goto(p, from, to) == pc[p] = from /\ pc' = [pc EXCEPT ![p] = to]

\* lock_acquire (&file_system_lock)
AcquireFs(p) == file_system_lock = NoProc /\ file_system_lock' = p

\* free() of a vital_info: a second free() corrupts the heap.
FreeInfo(c) ==
  info' = [info EXCEPT ![c] = IF @ = "live" THEN "freed" ELSE "corrupt"]

\* thread_create() with init_vital_info() and init_child_managment_info().
thread_create(p, c) ==
  /\ page[c] = "unused"
  /\ page' = [page EXCEPT ![c] = "live"]
  /\ info' = [info EXCEPT ![c] = "live"]
  /\ parent' = [parent EXCEPT ![c] = p]
  /\ children' = [children EXCEPT ![p] = @ \cup {c}]

\* process_execute(), called by LP_exec(), or by the main thread in run_task(),
\* which goes on to process_wait() without looking at sema_child_load.
process_execute(p, c) ==
  /\ pc[p] = "running"
  /\ thread_create(p, c)
  /\ pc' = [pc EXCEPT ![c] = "start", ![p] = IF p = Main THEN "wait_lock" ELSE "exec"]
  /\ arg' = [arg EXCEPT ![p] = c]
  /\ UNCHANGED <<loadVars, wait_sema, exit_status, child_is_finished,
                 parent_is_finished, info_lock, fsVars>>

\* malloc() fails in init_vital_info(): the calling process exits.
ExecNoMemory(p) ==
  /\ p # Main
  /\ Goto(p, "running", "exit_lock")
  /\ UNCHANGED <<page, parent, children, loadVars, wait_sema, infoVars,
                 info_lock, arg, fsVars>>

\* start_process(): load() runs with file_system_lock held.
LoadLock(c) ==
  /\ Goto(c, "start", "load")
  /\ AcquireFs(c)
  /\ UNCHANGED <<page, parent, children, loadVars, wait_sema, infoVars,
                 info_lock, arg, open_files, fs_calls>>

\* load() returns ok, with the executable in open_files, and the lock is released.
load(c, ok) ==
  /\ Goto(c, "load", IF ok THEN "loaded" ELSE "not_loaded")
  /\ open_files' = [open_files EXCEPT ![c] = IF ok THEN 1 ELSE 0]
  /\ file_system_lock' = NoProc
  /\ UNCHANGED <<page, parent, children, loadVars, wait_sema, infoVars,
                 info_lock, arg, fs_calls>>

\* The parent is told; sema_up() yields before exit_status is set.
start_process(c) ==
  LET ok == pc[c] = "loaded"
  IN  /\ Goto(c, "loaded", "running") \/ Goto(c, "not_loaded", "load_failed")
      /\ did_load' = [did_load EXCEPT ![parent[c]] = ok]
      /\ load_sema' = [load_sema EXCEPT ![parent[c]] = @ + 1]
      /\ UNCHANGED <<page, parent, children, wait_sema, infoVars, info_lock, arg, fsVars>>

LoadFailed(c) ==
  /\ Goto(c, "load_failed", "exit_lock")
  /\ exit_status' = [exit_status EXCEPT ![c] = Killed]
  /\ UNCHANGED <<page, parent, children, loadVars, wait_sema, info, child_is_finished,
                 parent_is_finished, info_lock, arg, fsVars>>

\* load() ends in thread_exit() (malloc() fails for the executable's path or a
\* supplemental page table entry): the parent is not told, and the process
\* exits with file_system_lock held.
LoadExits(c) ==
  /\ Goto(c, "load", "exit_lock")
  /\ UNCHANGED <<page, parent, children, loadVars, wait_sema, infoVars,
                 info_lock, arg, fsVars>>

\* Mutant: the sema_down() on sema_child_load does not take the signal.
LP_execNoDown(p) ==
  /\ Goto(p, "exec", "running")
  /\ load_sema[p] > 0
  /\ did_load' = [did_load EXCEPT ![p] = FALSE]
  /\ arg' = [arg EXCEPT ![p] = NoProc]
  /\ UNCHANGED <<page, parent, children, load_sema, wait_sema, infoVars, info_lock, fsVars>>

\* Mutant: LP_exec() does not wait for the load.
LP_execNoWait(p) ==
  /\ Goto(p, "exec", "running")
  /\ load_sema' = [load_sema EXCEPT ![p] = @ - 1]
  /\ did_load' = [did_load EXCEPT ![p] = FALSE]
  /\ arg' = [arg EXCEPT ![p] = NoProc]
  /\ UNCHANGED <<page, parent, children, wait_sema, infoVars, info_lock, fsVars>>

\* LP_exec() past process_execute(): it returns the pid or -1.
LP_exec(p) ==
  /\ Goto(p, "exec", "running")
  /\ load_sema[p] > 0
  /\ load_sema' = [load_sema EXCEPT ![p] = @ - 1]
  /\ did_load' = [did_load EXCEPT ![p] = FALSE]
  /\ arg' = [arg EXCEPT ![p] = NoProc]
  /\ UNCHANGED <<page, parent, children, wait_sema, infoVars, info_lock, fsVars>>

\* A system call on files: under file_system_lock, a file is opened, closed or
\* only used.
FileCall(p) ==
  /\ p # Main /\ fs_calls < MaxCalls
  /\ Goto(p, "running", "file_call")
  /\ AcquireFs(p)
  /\ fs_calls' = fs_calls + 1
  /\ UNCHANGED <<page, parent, children, loadVars, wait_sema, infoVars, info_lock, arg,
                 open_files>>

FileReturn(p) ==
  /\ Goto(p, "file_call", "running")
  /\ file_system_lock' = NoProc
  /\ \E n \in {open_files[p] - 1, open_files[p], open_files[p] + 1} \cap (0 .. MaxFiles) :
       open_files' = [open_files EXCEPT ![p] = n]
  /\ UNCHANGED <<page, parent, children, loadVars, wait_sema, infoVars, info_lock, arg,
                 fs_calls>>

-----------------------------------------------------------------------------
\* process_wait() up to has_allready_been_waited_on: a caller waits for one
\* child at a time and reaps it, so the flag is never found set.  For any other
\* tid get_child_by_tid() finds nothing and -1 is returned at once.
process_wait(p, c) ==
  /\ p # Main
  /\ c \in children[p]
  /\ Goto(p, "running", "wait_lock")
  /\ arg' = [arg EXCEPT ![p] = c]
  /\ UNCHANGED <<page, parent, children, loadVars, wait_sema, infoVars,
                 info_lock, fsVars>>

WaitLock(p) ==
  /\ Goto(p, "wait_lock", "wait_test")
  /\ info_lock[arg[p]] = NoProc
  /\ info_lock' = [info_lock EXCEPT ![arg[p]] = p]
  /\ UNCHANGED <<page, parent, children, loadVars, wait_sema, infoVars, arg, fsVars>>

\* Mutant: the test of child_is_finished is inverted.
WaitTestInverted(p) ==
  /\ Goto(p, "wait_test",
          IF child_is_finished[arg[p]] THEN "wait_down" ELSE "wait_reap")
  /\ info_lock' = [info_lock EXCEPT ![arg[p]] = NoProc]
  /\ UNCHANGED <<page, parent, children, loadVars, wait_sema, infoVars, arg, fsVars>>

WaitTest(p) ==
  /\ Goto(p, "wait_test",
          IF child_is_finished[arg[p]] THEN "wait_reap" ELSE "wait_down")
  /\ info_lock' = [info_lock EXCEPT ![arg[p]] = NoProc]
  /\ UNCHANGED <<page, parent, children, loadVars, wait_sema, infoVars, arg, fsVars>>

\* sema_down (&child_to_wait_on->t->wait_on_me).  If the child has died by now
\* its page is free: what is read there lets the parent through (the 0xcc that
\* palloc_free_multiple() fills it with), or blocks it for good (a page in use
\* again, zeroed).
WaitDown(p) ==
  /\ pc[p] = "wait_down"
  /\ \/ /\ page[arg[p]] = "live" /\ wait_sema[arg[p]] > 0
        /\ pc' = [pc EXCEPT ![p] = "wait_reap"]
        /\ wait_sema' = [wait_sema EXCEPT ![arg[p]] = @ - 1]
     \/ /\ page[arg[p]] = "live" /\ wait_sema[arg[p]] = 0
        /\ pc' = [pc EXCEPT ![p] = "wait_blocked"]
        /\ UNCHANGED wait_sema
     \/ /\ page[arg[p]] = "freed"
        /\ \E to \in {"wait_reap", "wait_lost"} : pc' = [pc EXCEPT ![p] = to]
        /\ UNCHANGED wait_sema
  /\ UNCHANGED <<page, parent, children, loadVars, infoVars, info_lock, arg, fsVars>>

\* returnVal is exit_status[arg[p]]; list_remove() and free().
WaitReap(p) ==
  /\ Goto(p, "wait_reap", "running")
  /\ children' = [children EXCEPT ![p] = @ \ {arg[p]}]
  /\ FreeInfo(arg[p])
  /\ arg' = [arg EXCEPT ![p] = NoProc]
  /\ UNCHANGED <<page, parent, loadVars, wait_sema, exit_status,
                 child_is_finished, parent_is_finished, info_lock, fsVars>>

-----------------------------------------------------------------------------
\* LP_exit(status), or kill() and the failed checks of user pointers with -1.
LP_exit(p, s) ==
  /\ p # Main
  /\ Goto(p, "running", "exit_lock")
  /\ exit_status' = [exit_status EXCEPT ![p] = s]
  /\ UNCHANGED <<page, parent, children, loadVars, wait_sema, info,
                 child_is_finished, parent_is_finished, info_lock, arg, fsVars>>

\* Mutant: no test of parent_is_finished.
process_exitNoTest(p) ==
  /\ info_lock[p] = NoProc
  /\ Goto(p, "exit_lock", "exit_up")
  /\ child_is_finished' = [child_is_finished EXCEPT ![p] = TRUE]
  /\ UNCHANGED <<page, parent, children, loadVars, wait_sema, info, exit_status,
                 parent_is_finished, info_lock, arg, fsVars>>

\* process_exit(): acquire, test and release of the own vital_info_lock.
process_exit(p) ==
  /\ info_lock[p] = NoProc
  /\ Goto(p, "exit_lock", IF parent_is_finished[p] THEN "exit_free" ELSE "exit_up")
  /\ child_is_finished' = [child_is_finished EXCEPT ![p] = @ \/ ~parent_is_finished[p]]
  /\ UNCHANGED <<page, parent, children, loadVars, wait_sema, info, exit_status,
                 parent_is_finished, info_lock, arg, fsVars>>

ExitFree(p) ==
  /\ Goto(p, "exit_free", "notify")
  /\ FreeInfo(p)
  /\ UNCHANGED <<page, parent, children, loadVars, wait_sema, exit_status,
                 child_is_finished, parent_is_finished, info_lock, arg, fsVars>>

\* sema_up (&cur->wait_on_me).
ExitUp(p) ==
  LET waiter == {q \in Procs : pc[q] = "wait_blocked" /\ arg[q] = p}
  IN  /\ pc[p] = "exit_up"
      /\ pc' = [q \in Procs |-> IF q = p THEN "notify"
                                ELSE IF q \in waiter THEN "wait_reap" ELSE pc[q]]
      /\ wait_sema' = [wait_sema EXCEPT ![p] = IF waiter = {} THEN @ + 1 ELSE @]
      /\ UNCHANGED <<page, parent, children, loadVars, infoVars, info_lock, arg, fsVars>>

\* Mutant: the parent frees the vital_info of a child that still runs.
NotifyChildFrees(p, c) ==
  /\ pc[p] = "notify"
  /\ c \in children[p]
  /\ info_lock[c] = NoProc
  /\ children' = [children EXCEPT ![p] = @ \ {c}]
  /\ pc' = [pc EXCEPT ![p] = "notify_free"]
  /\ arg' = [arg EXCEPT ![p] = c]
  /\ UNCHANGED <<page, parent, loadVars, wait_sema, info, exit_status,
                 child_is_finished, parent_is_finished, info_lock, fsVars>>

\* notify_children_parent_is_finished(): one child of the list.
NotifyChild(p, c) ==
  /\ pc[p] = "notify"
  /\ c \in children[p]
  /\ info_lock[c] = NoProc
  /\ children' = [children EXCEPT ![p] = @ \ {c}]
  /\ IF child_is_finished[c]
     THEN /\ pc' = [pc EXCEPT ![p] = "notify_free"]
          /\ arg' = [arg EXCEPT ![p] = c]
          /\ UNCHANGED parent_is_finished
     ELSE /\ parent_is_finished' = [parent_is_finished EXCEPT ![c] = TRUE]
          /\ UNCHANGED <<pc, arg>>
  /\ UNCHANGED <<page, parent, loadVars, wait_sema, info, exit_status,
                 child_is_finished, info_lock, fsVars>>

NotifyFree(p) ==
  /\ Goto(p, "notify_free", "notify")
  /\ FreeInfo(arg[p])
  /\ UNCHANGED <<page, parent, children, loadVars, wait_sema, exit_status,
                 child_is_finished, parent_is_finished, info_lock, arg, fsVars>>

\* The end of notify_children_parent_is_finished(), and release_resources().
Notified(p) ==
  /\ children[p] = {}
  /\ Goto(p, "notify", "release")
  /\ arg' = [arg EXCEPT ![p] = NoProc]
  /\ UNCHANGED <<page, parent, children, loadVars, wait_sema, infoVars, info_lock, fsVars>>

\* munmap_all() and close_open_files(): one file is closed at a time, under
\* file_system_lock.
CloseFile(p) ==
  /\ open_files[p] > 0
  /\ Goto(p, "release", "closing")
  /\ AcquireFs(p)
  /\ open_files' = [open_files EXCEPT ![p] = @ - 1]
  /\ UNCHANGED <<page, parent, children, loadVars, wait_sema, infoVars, info_lock, arg,
                 fs_calls>>

FileClosed(p) ==
  /\ Goto(p, "closing", "release")
  /\ file_system_lock' = NoProc
  /\ UNCHANGED <<page, parent, children, loadVars, wait_sema, infoVars, info_lock, arg,
                 open_files, fs_calls>>

\* Mutant: no release_all_locks().
ReleaseNoLocks(p) ==
  /\ open_files[p] = 0
  /\ Goto(p, "release", "die")
  /\ UNCHANGED <<page, parent, children, loadVars, wait_sema, infoVars, info_lock, arg, fsVars>>

\* release_all_locks(): here, file_system_lock if load() has left it held.  Then
\* pagedir_destroy().
release_all_locks(p) ==
  /\ open_files[p] = 0
  /\ Goto(p, "release", "die")
  /\ file_system_lock' = IF file_system_lock = p THEN NoProc ELSE file_system_lock
  /\ UNCHANGED <<page, parent, children, loadVars, wait_sema, infoVars, info_lock, arg,
                 open_files, fs_calls>>

\* schedule() in thread_exit(): thread_schedule_tail() frees the page.
Die(p) ==
  /\ Goto(p, "die", "dead")
  /\ page' = [page EXCEPT ![p] = "freed"]
  /\ UNCHANGED <<parent, children, loadVars, wait_sema, infoVars, info_lock, arg, fsVars>>

-----------------------------------------------------------------------------
Exiting(p) ==
  \/ process_exit(p) \/ ExitFree(p) \/ ExitUp(p) \/ NotifyFree(p)
  \/ \E c \in Procs : NotifyChild(p, c)
  \/ Notified(p) \/ CloseFile(p) \/ FileClosed(p) \/ release_all_locks(p) \/ Die(p)
Loading(p) ==
  \/ LoadLock(p) \/ LoadExits(p) \/ \E ok \in BOOLEAN : load(p, ok)
  \/ start_process(p) \/ LoadFailed(p)
Waiting(p) == WaitLock(p) \/ WaitTest(p) \/ WaitDown(p) \/ WaitReap(p)

Next ==
  \E p \in Procs :
    \/ \E c \in Procs :
         process_execute(p, c) \/ process_wait(p, c)
    \/ ExecNoMemory(p) \/ LP_exec(p) \/ FileCall(p) \/ FileReturn(p)
    \/ \E s \in Statuses \cup {Killed} : LP_exit(p, s)
    \/ Loading(p) \/ Waiting(p) \/ Exiting(p)

Spec == Init /\ [][Next]_vars

\* Equal priorities and the timer: a process inside the kernel goes on whenever
\* it can.  What a user program calls, and whether it ever exits, is open.
InKernel(p) == Loading(p) \/ LP_exec(p) \/ FileReturn(p) \/ Waiting(p) \/ Exiting(p)
Fairness == \A p \in Procs : WF_vars(InKernel(p))
FairSpec == Spec /\ Fairness

-----------------------------------------------------------------------------
\* The vital_infos process p still reads, writes, or holds in a list.
UsesInfo(p) ==
  children[p]
  \cup (IF pc[p] \in {"wait_lock", "wait_test", "wait_down", "wait_blocked",
                      "wait_reap", "notify_free"} THEN {arg[p]} ELSE {})
  \cup (IF pc[p] \in {"none"} \cup Exited THEN {} ELSE {p})

\* Parent and child settle under vital_info_lock which of them frees a
\* vital_info: neither ever holds a pointer to one the other has freed, in
\* whatever order they exit and wait, so none is freed twice
\* (get_child_by_tid(): "There is no race condition here"); and the parent a
\* loading process reports to is still there.
NoUseAfterFree ==
  \A p \in Procs : /\ \A c \in UsesInfo(p) : info[c] = "live"
                   /\ pc[p] \in Loads => page[parent[p]] = "live"

\* The last of parent and child to go frees the vital_info: none is leaked.
LastOneFrees ==
  \A c \in Procs :
    pc[c] = "dead" /\ pc[parent[c]] = "dead" => info[c] = "freed"

\* process_wait() returns the status the child exited with: when it reads
\* exit_status the child has exited, and has set it for the last time.
WaitReturnsExitStatus ==
  /\ \A p \in Procs : pc[p] = "wait_reap" => child_is_finished[arg[p]]
  /\ \A c \in Procs : child_is_finished[c] => pc[c] \in Exited

\* LP_exec() answers from the load of the process it has just created: no
\* earlier child's signal is left in sema_child_load.
ExecAnswerIsFresh ==
  \A p \in Procs :
    pc[p] = "exec" /\ load_sema[p] > 0 => load_sema[p] = 1 /\ pc[arg[p]] \notin Loads

\* process_exit() ends: however parents and children that wait and exit contend
\* for the vital_info_locks and, to close their files, for file_system_lock, an
\* exiting process dies; a load that exits with file_system_lock held blocks
\* nobody for good.
ExitCompletes == \A p \in Procs \ {Main} : pc[p] = "exit_lock" ~> pc[p] = "dead"

\* What the parent needs after a child exits is in its vital_info (thread.h:
\* "the information that has to stay around even after a thread exits"), so
\* process_wait() does not touch the struct thread of a dead child.
WaitTouchesLiveThread ==
  \A p \in Procs :
    pc[p] \in {"wait_down", "wait_blocked"} => page[arg[p]] = "live"

\* LP_exec(): "Must return pid -1 ... if the program cannot load or run for any
\* reason": it returns.
ExecReturns == \A p \in Procs : pc[p] = "exec" ~> pc[p] # "exec"
=============================================================================
