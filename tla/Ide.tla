-------------------------------- MODULE Ide --------------------------------
(***************************************************************************)
(* One ATA channel (devices/ide.c) under the block layer (devices/         *)
(* block.c): identification at boot, then reads and writes of sectors by   *)
(* threads, the interrupt handler, and the drive, which is external.       *)
(*                                                                         *)
(* Sectors are the sectors of the disks on the channel.  The drive may be  *)
(* slow, fail at any point of a command, and raise MaxSpurious interrupts  *)
(* of its own, for which the handler has a case.                           *)
(***************************************************************************)
EXTENDS Naturals

CONSTANTS
  Threads, Main,   \* Main runs ide_init()
  Sectors, Values, Idle,
  MaxSpurious

NoThread == "NULL"

VARIABLES
  lock, expecting_interrupt, completion_wait,  \* of struct channel
  is_ata,    \* identified and registered with the block layer
  pc,        \* where a thread is: see Pcs
  request, got,            \* as in DiskSpec
  drive,     \* "idle", "busy" or "drq": the BSY and DRQ bits
  command,   \* what it is doing: [op, sector], or Idle
  data,      \* its data register: a value, or Idle
  disk,      \* what is on the platters
  irq,       \* interrupt line
  spurious,  \* spurious interrupts so far
  panicked

channelVars == <<lock, expecting_interrupt, completion_wait>>
driveVars == <<drive, command, data, disk>>
vars == <<lock, expecting_interrupt, completion_wait, is_ata, pc, request, got,
          drive, command, data, disk, irq, spurious, panicked>>

\* A write the drive has received counts, until the drive loses it.
Received == command # Idle /\ data # Idle /\ command.op = "write"
Contents == IF Received THEN [disk EXCEPT ![command.sector] = data] ELSE disk
Unsettled ==
  IF Received THEN [sector |-> command.sector, old |-> disk[command.sector]] ELSE Idle
Disk == INSTANCE DiskSpec WITH contents <- Contents, unsettled <- Unsettled

Pcs == {"identify", "idle", "acquire", "select", "issue", "command", "down", "poll", "ack", "release"}

TypeOK ==
  /\ lock \in Threads \cup {NoThread} /\ expecting_interrupt \in BOOLEAN
  /\ completion_wait \in 0 .. MaxSpurious + 1 /\ is_ata \in BOOLEAN
  /\ pc \in [Threads -> Pcs]
  /\ request \in [Threads -> Disk!Requests \cup {Idle}]
  /\ got \in [Threads -> Values \cup {Idle}]
  /\ drive \in {"idle", "busy", "drq"}
  /\ disk \in [Sectors -> Values] /\ data \in Values \cup {Idle}
  /\ irq \in BOOLEAN /\ spurious \in 0 .. MaxSpurious /\ panicked \in BOOLEAN

\* ide_init(), past reset_channel() and check_device_type().
Init ==
  /\ lock = NoThread /\ expecting_interrupt = FALSE /\ completion_wait = 0
  /\ is_ata = FALSE
  /\ pc = [t \in Threads |-> IF t = Main THEN "identify" ELSE "idle"]
  /\ request = [t \in Threads |-> Idle] /\ got = [t \in Threads |-> Idle]
  /\ drive = "idle" /\ command = Idle /\ data = Idle
  /\ disk \in [Sectors -> Values]
  /\ irq = FALSE /\ spurious = 0 /\ panicked = FALSE

-----------------------------------------------------------------------------
\* What t asks of the drive: identify_ata_device() does without the lock.
Asked(t) == IF lock = t THEN request[t] ELSE [op |-> "identify"]

Goto(t, from, to) == ~panicked /\ pc[t] = from /\ pc' = [pc EXCEPT ![t] = to]

\* block_read() or block_write() is called, of a sector the device has.
Call(t, r) ==
  /\ is_ata /\ Goto(t, "idle", "acquire")
  /\ request' = [request EXCEPT ![t] = r]
  /\ got' = [got EXCEPT ![t] = Idle]
  /\ UNCHANGED <<channelVars, is_ata, driveVars, irq, spurious, panicked>>

\* lock_acquire (&c->lock)
Acquire(t) ==
  /\ Goto(t, "acquire", "select")
  /\ lock = NoThread /\ lock' = t
  /\ UNCHANGED <<expecting_interrupt, completion_wait, is_ata, request, got, driveVars,
                 irq, spurious, panicked>>

\* wait_until_idle() returns when the drive is idle, and after its 1000 turns
\* also with one that is not: "idle timeout" is only printed.  Reading the
\* status clears a pending interrupt.
wait_until_idle == irq' = FALSE

select_device_wait ==
  /\ wait_until_idle
  /\ UNCHANGED <<channelVars, is_ata, request, got, driveVars, spurious, panicked>>

identify_ata_device(t) == Goto(t, "identify", "issue") /\ select_device_wait
select_sector(t) == Goto(t, "select", "issue") /\ select_device_wait

\* outb (reg_command (c), command).  A drive that is not idle ignores the
\* command, or drops what it was doing: the standard leaves it open.
WriteCommand(what) ==
  /\ \/ drive' = "busy" /\ command' = what /\ data' = Idle
     \/ drive # "idle" /\ UNCHANGED <<drive, command, data>>
  /\ UNCHANGED disk

AfterCommand(t) == IF Asked(t).op = "write" THEN "poll" ELSE "down"

\* Mutant: the command is written before the interrupt is expected.
CommandBeforeExpecting(t) ==
  /\ \/ Goto(t, "issue", "command") /\ WriteCommand(Asked(t)) /\ UNCHANGED expecting_interrupt
     \/ /\ Goto(t, "command", AfterCommand(t))
        /\ expecting_interrupt' = TRUE /\ UNCHANGED driveVars
  /\ UNCHANGED <<lock, completion_wait, is_ata, request, got, irq, spurious, panicked>>

\* Interrupts are on: one may come between the two assignments.
issue_pio_command(t) ==
  /\ \/ Goto(t, "issue", "command") /\ expecting_interrupt' = TRUE /\ UNCHANGED driveVars
     \/ /\ Goto(t, "command", AfterCommand(t))
        /\ WriteCommand(Asked(t)) /\ UNCHANGED expecting_interrupt
  /\ UNCHANGED <<lock, completion_wait, is_ata, request, got, irq, spurious, panicked>>

\* Mutant: the value stays.
SemaDownKeeps(t) ==
  /\ Goto(t, "down", "poll") \/ Goto(t, "ack", "release")
  /\ completion_wait > 0
  /\ UNCHANGED <<channelVars, is_ata, request, got, driveVars, irq, spurious, panicked>>

\* sema_down (&c->completion_wait): in a write it is the drive's
\* acknowledgement, otherwise it says that there is something to read.
SemaDown(t) ==
  /\ Goto(t, "down", "poll") \/ Goto(t, "ack", "release")
  /\ completion_wait > 0 /\ completion_wait' = completion_wait - 1
  /\ UNCHANGED <<lock, expecting_interrupt, is_ata, request, got, driveVars, irq, spurious,
                 panicked>>

\* wait_while_busy() returns true, and the sector is read or written.
Identified(t) ==
  /\ Goto(t, "poll", "idle") /\ drive = "drq" /\ Asked(t).op = "identify"
  /\ is_ata' \in BOOLEAN    \* not with a capacity of 1 GB or more
  /\ drive' = "idle" /\ command' = Idle /\ data' = Idle
  /\ UNCHANGED <<channelVars, request, got, disk, irq, spurious, panicked>>

\* Mutant: no wait_while_busy().
InputWhileBusy(t) ==
  /\ Goto(t, "poll", "release") /\ Asked(t).op = "read"
  /\ got' = [got EXCEPT ![t] = data]
  /\ request' = [request EXCEPT ![t] = Idle]
  /\ drive' = "idle" /\ command' = Idle /\ data' = Idle
  /\ UNCHANGED <<channelVars, is_ata, disk, irq, spurious, panicked>>

input_sector(t) ==
  /\ Goto(t, "poll", "release") /\ drive = "drq" /\ Asked(t).op = "read"
  /\ got' = [got EXCEPT ![t] = data]
  /\ request' = [request EXCEPT ![t] = Idle]
  /\ drive' = "idle" /\ command' = Idle /\ data' = Idle
  /\ UNCHANGED <<channelVars, is_ata, disk, irq, spurious, panicked>>

\* Mutant: no sema_down() in ide_write().
OutputNoAck(t) ==
  /\ Goto(t, "poll", "release") /\ drive = "drq" /\ Asked(t).op = "write"
  /\ data' = request[t].value
  /\ request' = [request EXCEPT ![t] = Idle]
  /\ drive' = "busy"
  /\ UNCHANGED <<channelVars, is_ata, got, command, disk, irq, spurious, panicked>>

output_sector(t) ==
  /\ Goto(t, "poll", "ack") /\ drive = "drq" /\ Asked(t).op = "write"
  /\ data' = request[t].value
  /\ request' = [request EXCEPT ![t] = Idle]
  /\ drive' = "busy"
  /\ UNCHANGED <<channelVars, is_ata, got, command, disk, irq, spurious, panicked>>

\* wait_while_busy() returns false, without DRQ or because the drive is still
\* busy after 30 seconds: PANIC, or no disk at boot.
Failed(t) ==
  /\ ~panicked /\ pc[t] = "poll" /\ drive # "drq"
  /\ IF lock = t THEN panicked' = TRUE /\ UNCHANGED pc
     ELSE pc' = [pc EXCEPT ![t] = "idle"] /\ UNCHANGED panicked
  /\ UNCHANGED <<channelVars, is_ata, request, got, driveVars, irq, spurious>>

Release(t) ==
  /\ Goto(t, "release", "idle")
  /\ lock' = NoThread
  /\ UNCHANGED <<expecting_interrupt, completion_wait, is_ata, request, got, driveVars,
                 irq, spurious, panicked>>

\* interrupt_handler(): an interrupt nobody expects is only reported.
interrupt_handler ==
  /\ ~panicked /\ irq /\ irq' = FALSE
  /\ completion_wait' = IF expecting_interrupt THEN completion_wait + 1 ELSE completion_wait
  /\ UNCHANGED <<lock, expecting_interrupt, is_ata, pc, request, got, driveVars, spurious,
                 panicked>>

-----------------------------------------------------------------------------
\* The drive is ready for the transfer: with an interrupt if it is a read.
DriveReady ==
  /\ ~panicked /\ drive = "busy" /\ data = Idle
  /\ drive' = "drq"
  /\ data' \in IF command.op = "read" THEN {disk[command.sector]} ELSE {Idle}
  /\ irq' = (irq \/ command.op # "write")
  /\ UNCHANGED <<channelVars, is_ata, pc, request, got, command, disk, spurious, panicked>>

\* The drive has an error: it is idle, and says so with an interrupt.  What it
\* has received of a write is lost.
DriveFails ==
  /\ ~panicked /\ drive = "busy"
  /\ drive' = "idle" /\ command' = Idle /\ data' = Idle /\ irq' = TRUE
  /\ UNCHANGED <<channelVars, is_ata, pc, request, got, disk, spurious, panicked>>

\* The drive has written the sector, and acknowledges.
DriveWritten ==
  /\ ~panicked /\ drive = "busy" /\ data # Idle
  /\ disk' = [disk EXCEPT ![command.sector] = data]
  /\ drive' = "idle" /\ command' = Idle /\ data' = Idle /\ irq' = TRUE
  /\ UNCHANGED <<channelVars, is_ata, pc, request, got, spurious, panicked>>

Spurious ==
  /\ ~panicked /\ spurious < MaxSpurious /\ spurious' = spurious + 1
  /\ irq' = TRUE
  /\ UNCHANGED <<channelVars, is_ata, pc, request, got, driveVars, panicked>>

Step(t) ==
  \/ identify_ata_device(t) \/ Acquire(t) \/ select_sector(t) \/ issue_pio_command(t)
  \/ SemaDown(t) \/ Identified(t) \/ input_sector(t) \/ output_sector(t) \/ Failed(t) \/ Release(t)
Drive == DriveReady \/ DriveFails \/ DriveWritten

Next ==
  \/ \E t \in Threads : Step(t) \/ \E r \in Disk!Requests : Call(t, r)
  \/ interrupt_handler \/ Drive \/ Spurious

Spec == Init /\ [][Next]_vars

\* The drive answers, its interrupts are delivered, and threads run.
Fairness ==
  /\ WF_vars(Drive) /\ WF_vars(interrupt_handler)
  /\ \A t \in Threads : WF_vars(Step(t))
FairSpec == Spec /\ Fairness

-----------------------------------------------------------------------------
\* Reads and writes of the channel are atomic and in order, whatever interrupts
\* come and however slow the drive is.  A write that has returned can still be
\* lost, because ide_write() looks at no status after the acknowledgement and
\* the next command goes to a drive that may be busy with it; but only as long as
\* nothing else has been read or written, so no one ever reads it and then not.
ImplementsDisk == Disk!Spec

\* Without spurious interrupts every completion is for the command that waits
\* for it: none is left over when the channel's lock is free.
CompletionsPaired ==
  spurious = 0 /\ is_ata /\ lock = NoThread =>
    completion_wait = 0 /\ ~irq /\ drive = "idle"

\* A thread that has the channel's lock, or has asked for identification, gets done: no
\* interrupt it waits for is lost, also when the command went to a busy drive.
CommandCompletes ==
  \A t \in Threads :
    pc[t] \notin {"identify", "idle", "acquire"} ~> pc[t] = "idle" \/ panicked

\* ide_write() "Returns after the disk has acknowledged receiving the data".
WriteIsAcknowledged ==
  \A t \in Threads : pc[t] = "release" => ~Received
=============================================================================
