# A TLA+ verification of the cs140 Pintos kernel

The kernel under `src/src` is a teaching operating system for one x86 CPU:
threads and semaphores, user processes, virtual memory, a file system behind a
buffer cache, and drivers. These modules model its concurrent core. TLC checks
them on small instances and TLAPS proves the central invariants for every
instance. All source paths below are relative to `src/src`.

## The system and its parts

| Part | Source | Modules | State of the work |
|---|---|---|---|
| scheduler (priority mode) | `threads/thread.c` | `Sched`, `SchedProofs` | modelled, first theorems |
| semaphores, locks | `threads/synch.c` | `Sched`, `SyncSpec`, `SchedProofs` | modelled, refinement checked, ownership proved |
| readers-writer lock | `threads/synch.c` | `RWLock`, `RWLockSpec`, `RWLockProofs` | modelled, refinement proved |
| condition variables | `threads/synch.c` | `CondVar` | modelled |
| processes: exec, wait, exit | `userprog/process.c`, `userprog/syscall.c` | `Process` | modelled |
| buffer cache and daemons | `filesys/cache.c` | `Cache`, `CacheSpec` | modelled, but for the request list of the fetch daemon |
| interrupt queues, input buffer, serial port | `devices/intq.c`, `input.c`, `serial.c` | `Serial`, `IntqSpec` | queued mode |
| IDE disks, block layer | `devices/ide.c`, `block.c` | `Ide`, `DiskSpec` | one channel |
| timer | `devices/timer.c` | `Timer` | sleep and interrupt |
| MLFQS scheduler, fixed point | `threads/thread.c`, `fixed-point.c` | | planned |
| frame table, page table, swap, page faults | `vm/*.c`, `userprog/exception.c`, `pagedir.c` | | planned |
| file system calls, mmap, pinning | `userprog/syscall.c` | | planned |
| inodes, directories, free map, files | `filesys/*.c` | | planned |
| page and block allocators | `threads/palloc.c`, `malloc.c` | | planned |
| keyboard decoding | `devices/kbd.c` | | planned |
| lists, hash tables, bitmaps | `lib/kernel/*.c` | | used as sequences and sets; planned as algorithms |
| ELF loader, argument passing | `userprog/process.c` | | its outcomes only, in `Process` |
| console | `lib/kernel/console.c` | | a lock around `serial_putc()` |
| boot, gates, PIC, GDT, TSS, PIT, RTC, speaker, VGA, partitions, shutdown, C and user libraries | | | not modelled: hardware set-up, or sequential code on bytes and strings |

How they interact: everything blocks through semaphores, and semaphores run on
the scheduler. `Sched` therefore models both together, and shows that what its
callers see is `SyncSpec`: atomic counters, and locks with one owner. The other
modules use the semaphore or lock as `SyncSpec` describes it. In the same way
`RWLock` implements `RWLockSpec`, which is what `Cache` uses for its locks, and
`Ide` implements `DiskSpec`, the device below the cache. `Serial` stands on
`thread_block()` and `thread_unblock()` directly, as `intq.c` does.

## The modules and the code

**Atomicity.** There is one CPU. Code with interrupts off is atomic up to the
next call of `schedule()` in it; with interrupts on, the CPU may change hands
between any two steps that touch shared state. An action runs from one such
point to the next. `sema_up()` outside an interrupt always ends in
`thread_yield()`, so the code after it is a new action.

**Sched** has the ready list and the waiter lists as sequences, in list order,
since `get_highest_priority_thread()` takes the *first* of the highest
priority. Its actions are `sema_down`, `sema_try_down`, `sema_up` (from a thread
and from an interrupt handler), `lock_acquire`, `lock_try_acquire` in two halves
(it leaves interrupts on), `lock_release`, `thread_create`,
`thread_set_priority`, the exit of a thread with `release_all_locks()`, the
idle thread and preemption. `thread_ticks` is a choice: a time slice may end
wherever interrupts are on. `donate_priority()` has no caller, so every
`lock->priority` is `PRI_MIN`.

**RWLock** has one action per semaphore operation of `reader_acquire`,
`reader_release`, `writer_acquire`, `writer_try_acquire` and `writer_release`.
**CondVar** has the lock, the list of waiters and each waiter's private
semaphore; the step between `lock_release()` and `sema_down()` in `cond_wait()`
is separate, since `lock_release()` yields. The loop of
`get_semaphore_to_signal()` is a fold over the list with the loop's own
comparison, from `PRI_MIN` and no choice. A signal for a waiter that is not yet
down on its semaphore reads through a null pointer; the model stops there.

**Process** follows a process from `process_execute()` through its load, exec,
wait and exit. A `struct thread` is a page that is freed when the process dies.
A `vital_info` is heap memory that parent and child share. What
`sema_down()` reads in a freed page is a choice over what can be there.
`malloc()` may fail in `init_vital_info()` and inside `load()`. The signal that
the load is over and the `exit_status` of a failed load are two steps, since
`sema_up()` yields between them. `load()`, the system calls on files and, for
each file to close, the exit take `file_system_lock`; of files there is only the
number a process has open, mapped ones included. A `load()` that exits still
holds the lock until `release_all_locks()`.

**Cache** has clients, the write-back daemon (also the thread in
`filesys_done()`) and the fetch daemon, over blocks with a state, a lock and
the clock arm. The kernel's own callers hold `file_system_lock`; the module is
checked against the header's contract, concurrent clients, and against the
daemons, which do not take that lock. The device below loses no write: a drive
that fails after `ide_write()` has returned (see `Ide`) is not passed on. A read
of a block never filled gives `Junk`. `CACHE_BLOCKS` is twice the bits of an int,
as 64 is twice 32.

**Serial** has the two ring buffers of `intq.c`, readers of the input buffer,
writers of the serial port, and the interrupts. It starts after
`serial_init_queue()`; the polling mode before it and `serial_flush()`, used at
shutdown, are left out.

**Ide** has one channel: identification at boot, then `ide_read` and
`ide_write`, the interrupt handler and the drive. `issue_pio_command()` is two
steps, the flag and the command, since interrupts are on. Time is not counted: a
time-out can come at any moment. `wait_until_idle()` may therefore return with a
drive that is not idle, as it does after its message, and the command that
follows finds it busy; `wait_while_busy()` may give up on a busy drive, which
panics, or leaves no disk at boot. The drive is external: it takes a command, is
busy, raises an interrupt, transfers, or fails at any moment while busy, after
it has received the data of a write too. A command written to a drive that is
not idle is ignored or replaces the one it works on. Detection of the devices is
the initial state. `DiskSpec` says what is left of the promise: reads and writes
are atomic and in order, and only the last write can be lost after `ide_write()`
has returned, since the function looks at no status after the acknowledgement.
What is lost is settled before the next read or write takes effect.

**Timer** has `timer_sleep()` and the interrupt. `due` is the wake time less
the clock: the code only compares.

## What the runs check

| Run | Instance | What it shows |
|---|---|---|
| `sched` | 3 threads, the idle thread, a semaphore an interrupt ups, a lock, 2 priorities | lists match statuses, no wakeup is lost, a lock has one owner, a higher priority waits only after an interrupt, `SyncSpec` is implemented, a ready thread of the highest priority runs, a thread that exits gives back its locks |
| `sync` | 4 threads on a readers-writer lock; or 4 threads of 3 priorities on a condition; or 3 sleepers; or a thread that reads and writes and one that reads 2 sectors of a disk, with time-outs, errors and a spurious interrupt | exclusion, accounting of the three semaphores, `RWLockSpec`, progress past `no_waiting`; signals are not lost, go to the first of the highest priority, a broadcast wakes everyone; sleepers are in order, are woken in time, and return; completions pair with commands, `DiskSpec`, commands complete |
| `process` | a line of 3 processes, or a parent with two children | no use after free, no leak of `vital_info`, the right exit status, exec answers for its own child, an exit ends however the processes contend for the `vital_info_lock`s and `file_system_lock` |
| `cache` | 2 clients, or 1 client with both daemons, or 2 clients that read and the fetch daemon; 2 sectors, 2 blocks | a sector is cached once, clean blocks equal the disk, users of the cache never all wait for one another while no more than `CACHE_BLOCKS` threads miss, reads return the last write (`CacheSpec`) |
| `serial` | 2 readers and a writer, or a reader and 2 writers, or two byte values in one direction; rings of 3 | a sleeper is known to its queue, the enable register matches the queues, the rings are FIFO queues, a writer wakes |

Seven more runs check one statement each that a comment or an assertion makes and
the code does not keep; `PROJECT.json` quotes the line.

| Run | Statement | What happens |
|---|---|---|
| `sched_no_donation` | a lock's holder has the priority of its waiters | the call of `donate_priority()` is commented out |
| `cond_signal_faults` | `cond_signal()` finds its waiter waiting | the waiter is in the list before it is down on its semaphore |
| `disk_write_unacknowledged` | `ide_write()` returns after the drive's acknowledgement | `expecting_interrupt` is never reset, and a spurious interrupt is taken for the acknowledgement |
| `process_wait_dead_thread` | the parent does not need a dead child's `struct thread` | the child dies between `lock_release()` and `sema_down()` |
| `process_exec_hangs` | `exec` returns | `load()` may exit without the signal |
| `cache_done` | `filesys_done()` leaves all data on disk | `1 << i` is too narrow for the mask of blocks |
| `serial_wait_assert` | `wait()` is called with the queue empty or full | the queue was tested before `lock_acquire()` |

**Bounds.** Three threads give the smallest case of the wakeup race in
`sema_down()`: one wakes, one sleeps, one barges in. Two priorities tell higher
from lower and leave two threads of one priority. Four threads on the
readers-writer lock give two readers and two writers. Three processes give every
order of exit of parent and child, and a fourth gives a parent a second child
and a second `exec`. One file system call (`MaxCalls`) and one open file
(`MaxFiles`) beside the loads make every kind of holder of `file_system_lock`
meet an exit; in the family with two children nobody makes calls, all exit with
one status, and the second child's load succeeds. The cache has as many blocks
as sectors of concern and evicts because one block is always in use; a request
touches one of two bytes, so a write must keep the other. Two clients that read
and the fetch daemon are one more than there are blocks: all three can miss at
once, the clients hold the blocks and wait for `sector_lock`, and the daemon has
`sector_lock` and looks for a block. That state is reached and nothing moves in
it, so the condition on the number of misses in `NobodyWaitsForever` is needed:
with the real 64 blocks it takes 65 threads that miss. In this kernel the
callers hold `file_system_lock` and nobody asks the daemon to fetch, so it does
not happen; the header's contract alone does not exclude it. Rings of three
slots hold two bytes and wrap around. `MaxValue`, `MaxSpurious`, `MaxSleep` and
`MaxLate` are named in the modules. Where a run has several scenarios (`under`,
`team`, `family` in the MC modules) the choice is made in the initial state and
never changes; it adds state spaces instead of multiplying them. The cache run
uses symmetry of clients and of sectors; it has no liveness property. The runs
without a deadlock check are those whose callers may stop calling, or whose
kernel may panic or halt; `sched` checks deadlock.

**Fairness.** The timer ticks (`Preempt`, `timer_interrupt`), the devices answer
(`Drive`, `LineSent` and the interrupt handlers), and a thread inside an
operation goes on when it can. In `Sched` a thread that exits gets on with it if
it is given the CPU again and again (strong fairness): a time slice is four
ticks, and with weak fairness the timer could take the CPU away at the same
point for ever. With equal priorities this is what the time slice and the
first-in first-out ready list give, which `ReadyThreadRuns` checks on `Sched`.
What a thread or a user program calls next is never assumed. `ExitCompletes`
needs the holder of `file_system_lock` to return from its file system call, and
the number of such calls to be bounded; who is served first is not modelled.

## What is proved

`RWLockProofs`, for every finite set of threads:

- `Accounting`: `AccessAccounting` is invariant. With `TypeOK` it is inductive.
  It says for each semaphore which threads hold it, and that `readers` is the
  number of the threads counted.
- `MutualExclusion`: a writer excludes everybody else. `Exclusion` is not
  inductive: it does not mention the reader that is counted but not yet in, and
  the last reader that is no longer counted but not yet out.
- `Refinement`: the lock implements `RWLockSpec`.

`SchedProofs`, for every finite set of threads and every set of semaphores,
locks and priorities that satisfies `SchedAssumption`:

- `TypeCorrect`: the type invariant. The substance is
  `HighestIndexInDomain`: a non-empty list has a first element of the highest
  priority, so `next_thread_to_run()` always has an answer.
- `LockOwnership`: `LockExclusion` is invariant. The inductive invariant adds
  `WorksOn`: a thread between the halves of `lock_try_acquire()` works on a
  lock. Each action has its step; a lock's value goes from 1 to 0 with a new
  owner and back with its release, and `sema_up()` never touches a lock.

Only model-checked: the liveness properties (they rest on fairness and
`ENABLED`), the properties of `CondVar`, `Process`, `Cache`, `Serial`, `Ide` and
`Timer`, and in `Sched` the properties other than the two above. The assumptions
are `ThreadsFinite` and `SchedAssumption`, which TLC evaluates.

## Plan

1. `Frames`: frame table, page locks, pinning, swap slots, page faults, `munmap`
   and exit, with two processes, two frames and three pages. Properties: a frame
   has one resident page, a page's content survives eviction, no frame or slot is
   lost, no deadlock of `page_lock` and `frame_lock`, the assertions of
   `frame.c`. An abstract `MemorySpec`: a page reads what was last written.
2. `FileSys`: names, inodes, open counts, removal and the free map over the
   cache, and the file system calls with `file_system_lock`. An abstract map from
   names to files.
3. `Heap`: `palloc.c` and `malloc.c`, two threads, arenas and big blocks.
4. `Mlfqs` and fixed-point arithmetic; `list.c`, `bitmap.c` and `hash.c` as
   algorithms against sequences and sets; `kbd.c`.
5. The request list of the fetch daemon; starvation at `no_waiting` under the
   scheduler's priorities.
6. Proofs: `QueuesMatchStatus`, `NoLostWakeup` and the refinement of `SyncSpec`
   in `Sched`; `NoUseAfterFree` and `LastOneFrees` in `Process`; the ring buffers
   of `Serial`; the one-copy invariant of `Cache`.
