------------------------------- MODULE Serial -------------------------------
(***************************************************************************)
(* Console input and output: the interrupt queues (devices/intq.c), the    *)
(* input buffer that keyboard and serial port fill (devices/input.c), and  *)
(* the serial port's transmit queue (devices/serial.c, in QUEUE mode).     *)
(*                                                                         *)
(* Everything here runs with interrupts off, so a step extends from one    *)
(* point where a thread may lose the CPU (lock_acquire(), thread_block(),  *)
(* lock_release(), which yields) to the next.                              *)
(***************************************************************************)
EXTENDS Integers, Sequences

CONSTANTS
  Readers,      \* threads that call input_getc()
  Writers,      \* threads that call serial_putc()
  Bytes, NoByte,
  INTQ_BUFSIZE

NoThread == "NULL"
Queues == {"input", "txq"}
Threads == Readers \cup Writers

ASSUME SerialAssumption ==
  INTQ_BUFSIZE \in Nat \ {0, 1} /\ NoByte \notin Bytes /\ Readers \cap Writers = {}

VARIABLES
  buf, head, tail,   \* the two queues
  lock,              \* holder of each queue's lock
  waiter,            \* not_empty of "input", not_full of "txq"
  pc,     \* "idle", "loop" (tests the queue), "lock" (in lock_acquire()),
          \* "sleep" (in thread_block()), "woken"
  byte,   \* the byte a writer sends
  ier,    \* the interrupts enabled in the port: subset of {"RECV", "XMIT"}
  rbr, thre,  \* the port: byte received or NoByte, ready to take a byte
  panicked    \* an assertion has failed

queueVars == <<buf, head, tail>>
vars == <<buf, head, tail, lock, waiter, pc, byte, ier, rbr, thre, panicked>>

TypeOK ==
  /\ buf \in [Queues -> [0 .. INTQ_BUFSIZE - 1 -> Bytes \cup {NoByte}]]
  /\ head \in [Queues -> 0 .. INTQ_BUFSIZE - 1]
  /\ tail \in [Queues -> 0 .. INTQ_BUFSIZE - 1]
  /\ lock \in [Queues -> Threads \cup {NoThread}]
  /\ waiter \in [Queues -> Threads \cup {NoThread}]
  /\ pc \in [Threads -> {"idle", "loop", "lock", "sleep", "woken"}]
  /\ byte \in [Writers -> Bytes \cup {NoByte}]
  /\ ier \subseteq {"RECV", "XMIT"}
  /\ rbr \in Bytes \cup {NoByte} /\ thre \in BOOLEAN /\ panicked \in BOOLEAN

-----------------------------------------------------------------------------
\* Mutant: no wrap-around.
nextNoWrap(pos) == pos + 1

\* The position after pos in a ring, and the tests of a ring.
next(pos) == (pos + 1) % INTQ_BUFSIZE
intq_empty(q) == head[q] = tail[q]
\* Mutant: the test does not wrap around.
intq_fullNoWrap(q) == head[q] + 1 = tail[q]

intq_full(q) == next(head[q]) = tail[q]

\* What write_ier() puts into the port, from the queues after the step.
write_ier ==
  ier' = (IF head'["txq"] # tail'["txq"] THEN {"XMIT"} ELSE {})
         \cup (IF next(head'["input"]) # tail'["input"] THEN {"RECV"} ELSE {})

Init ==
  /\ buf = [q \in Queues |-> [k \in 0 .. INTQ_BUFSIZE - 1 |-> NoByte]]
  /\ head = [q \in Queues |-> 0] /\ tail = [q \in Queues |-> 0]
  /\ lock = [q \in Queues |-> NoThread] /\ waiter = [q \in Queues |-> NoThread]
  /\ pc = [t \in Threads |-> "idle"] /\ byte = [t \in Writers |-> NoByte]
  /\ ier = {"RECV"} /\ rbr = NoByte /\ thre = TRUE /\ panicked = FALSE

Queue(t) == IF t \in Readers THEN "input" ELSE "txq"
MustWait(q) == IF q = "input" THEN intq_empty(q) ELSE intq_full(q)

\* A call of input_getc() or serial_putc() with interrupts on.
Call(t, b) ==
  /\ ~panicked /\ pc[t] = "idle"
  /\ pc' = [pc EXCEPT ![t] = "loop"]
  /\ byte' = IF t \in Writers THEN [byte EXCEPT ![t] = b] ELSE byte
  /\ UNCHANGED <<queueVars, lock, waiter, ier, rbr, thre, panicked>>

\* wait(): its assertion, and thread_block() until a signal.
Wait(t) ==
  LET q == Queue(t)
  IN  /\ lock' = [lock EXCEPT ![q] = t]
      /\ IF MustWait(q)
         THEN /\ waiter' = [waiter EXCEPT ![q] = t]
              /\ pc' = [pc EXCEPT ![t] = "sleep"]
              /\ UNCHANGED panicked
         ELSE panicked' = TRUE /\ UNCHANGED <<waiter, pc>>

\* The while loop of intq_getc() and intq_putc() when the queue is empty, or
\* full: lock_acquire(), with or without blocking, and wait().
MustLock(t) ==
  /\ ~panicked /\ pc[t] = "loop" /\ MustWait(Queue(t))
  /\ IF lock[Queue(t)] = NoThread
     THEN Wait(t)
     ELSE pc' = [pc EXCEPT ![t] = "lock"] /\ UNCHANGED <<lock, waiter, panicked>>
  /\ UNCHANGED <<queueVars, byte, ier, rbr, thre>>

Locked(t) ==
  /\ ~panicked /\ pc[t] = "lock" /\ lock[Queue(t)] = NoThread
  /\ Wait(t)
  /\ UNCHANGED <<queueVars, byte, ier, rbr, thre>>

\* lock_release() after the wait; it yields, and the loop tests again.
Woken(t) ==
  /\ ~panicked /\ pc[t] = "woken"
  /\ pc' = [pc EXCEPT ![t] = "loop"]
  /\ lock' = [lock EXCEPT ![Queue(t)] = NoThread]
  /\ UNCHANGED <<queueVars, waiter, byte, ier, rbr, thre, panicked>>

\* Mutant: the waiter is not reset.
SignalKeepsWaiter(S) ==
  /\ pc' = [t \in Threads |-> IF \E q \in S : waiter[q] = t THEN "woken" ELSE pc[t]]
  /\ UNCHANGED waiter

\* signal() on the queues in S: the waiter, if any, is unblocked and reset.
Signal(S) ==
  /\ waiter' = [q \in Queues |-> IF q \in S THEN NoThread ELSE waiter[q]]
  /\ pc' = [t \in Threads |-> IF \E q \in S : waiter[q] = t THEN "woken" ELSE pc[t]]

-----------------------------------------------------------------------------
\* Mutant: no serial_notify().
input_getcNoNotify(t) ==
  /\ ~panicked /\ t \in Readers /\ pc[t] = "loop" /\ ~intq_empty("input")
  /\ tail' = [tail EXCEPT !["input"] = next(@)]
  /\ pc' = [pc EXCEPT ![t] = "idle"]
  /\ UNCHANGED <<buf, head, waiter, lock, byte, ier, rbr, thre, panicked>>

\* input_getc() with a byte there: intq_getc() and serial_notify().  Only
\* interrupts fill the input buffer, so nobody waits for it to have room.
input_getc(t) ==
  /\ ~panicked /\ t \in Readers /\ pc[t] = "loop" /\ ~intq_empty("input")
  /\ tail' = [tail EXCEPT !["input"] = next(@)]
  /\ pc' = [pc EXCEPT ![t] = "idle"]
  /\ UNCHANGED <<buf, head, waiter, lock, byte, rbr, thre, panicked>>
  /\ write_ier

\* Mutant: no write_ier().
serial_putcNoIer(t) ==
  /\ ~panicked /\ t \in Writers /\ pc[t] = "loop" /\ ~intq_full("txq")
  /\ buf' = [buf EXCEPT !["txq"][head["txq"]] = byte[t]]
  /\ head' = [head EXCEPT !["txq"] = next(@)]
  /\ byte' = [byte EXCEPT ![t] = NoByte]
  /\ pc' = [pc EXCEPT ![t] = "idle"]
  /\ UNCHANGED <<tail, lock, waiter, ier, rbr, thre, panicked>>

\* The end of serial_putc() with room in the queue.
serial_putc(t) ==
  /\ ~panicked /\ t \in Writers /\ pc[t] = "loop" /\ ~intq_full("txq")
  /\ buf' = [buf EXCEPT !["txq"][head["txq"]] = byte[t]]
  /\ head' = [head EXCEPT !["txq"] = next(@)]
  /\ byte' = [byte EXCEPT ![t] = NoByte]
  /\ pc' = [pc EXCEPT ![t] = "idle"]
  /\ UNCHANGED <<tail, lock, waiter, rbr, thre, panicked>>
  /\ write_ier

\* serial_putc() called with interrupts off: if the queue is full a byte is
\* sent by polling first.  putc_poll() waits for the port.
SerialPutcOff(b) ==
  /\ ~panicked
  /\ IF intq_full("txq")
     THEN /\ tail' = [tail EXCEPT !["txq"] = next(@)]
          /\ thre' = FALSE
          /\ Signal({"txq"})
     ELSE UNCHANGED <<tail, thre, waiter, pc>>
  /\ buf' = [buf EXCEPT !["txq"][head["txq"]] = b]
  /\ head' = [head EXCEPT !["txq"] = next(@)]
  /\ UNCHANGED <<lock, byte, rbr, panicked>>
  /\ write_ier

\* keyboard_interrupt(): the key is dropped if the buffer is full.
keyboard_interrupt(b) ==
  /\ ~panicked /\ ~intq_full("input")
  /\ buf' = [buf EXCEPT !["input"][head["input"]] = b]
  /\ head' = [head EXCEPT !["input"] = next(@)]
  /\ Signal({"input"})
  /\ UNCHANGED <<tail, lock, byte, rbr, thre, panicked>>
  /\ write_ier

\* serial_interrupt(): receive if there is room, transmit if there is a byte.
\* The port has no FIFO, so each of its loops runs at most once.
serial_interrupt ==
  LET receive == rbr # NoByte /\ ~intq_full("input")
      send == thre /\ ~intq_empty("txq")
  IN  /\ ~panicked
      /\ \/ "RECV" \in ier /\ rbr # NoByte
         \/ "XMIT" \in ier /\ thre
      /\ buf' = IF receive THEN [buf EXCEPT !["input"][head["input"]] = rbr] ELSE buf
      /\ head' = IF receive THEN [head EXCEPT !["input"] = next(@)] ELSE head
      /\ rbr' = IF receive THEN NoByte ELSE rbr
      /\ tail' = IF send THEN [tail EXCEPT !["txq"] = next(@)] ELSE tail
      /\ thre' = (thre /\ ~send)
      /\ Signal({q \in Queues : IF q = "input" THEN receive ELSE send})
      /\ UNCHANGED <<lock, byte, panicked>>
      /\ write_ier

\* The port: a byte arrives, a byte has gone out.
LineReceives(b) ==
  /\ ~panicked /\ rbr = NoByte /\ rbr' = b
  /\ UNCHANGED <<queueVars, lock, waiter, pc, byte, ier, thre, panicked>>
LineSent ==
  /\ ~panicked /\ ~thre /\ thre' = TRUE
  /\ UNCHANGED <<queueVars, lock, waiter, pc, byte, ier, rbr, panicked>>

ThreadStep(t) ==
  MustLock(t) \/ Locked(t) \/ Woken(t) \/ input_getc(t) \/ serial_putc(t)

Next ==
  \/ \E t \in Threads : ThreadStep(t)
  \/ \E b \in Bytes : \/ \E t \in Threads : Call(t, b)
                      \/ SerialPutcOff(b) \/ keyboard_interrupt(b) \/ LineReceives(b)
  \/ serial_interrupt \/ LineSent

Spec == Init /\ [][Next]_vars

\* The port sends what it was given, raises the interrupts that are enabled,
\* and threads run.
Fairness ==
  /\ WF_vars(serial_interrupt) /\ WF_vars(LineSent)
  /\ \A t \in Threads : WF_vars(ThreadStep(t))
FairSpec == Spec /\ Fairness

-----------------------------------------------------------------------------
\* A thread sleeps in wait() only while its condition lasts and the queue knows
\* it: a byte that arrives, or leaves, wakes it.
SleeperIsKnown ==
  /\ \A q \in Queues : waiter[q] # NoThread =>
       MustWait(q) /\ pc[waiter[q]] = "sleep" /\ lock[q] = waiter[q]
  /\ \A t \in Threads : pc[t] = "sleep" => waiter[Queue(t)] = t

\* The port interrupts exactly when there is something to send or room to
\* receive: no byte is left in the transmit queue with its interrupt off, and
\* none is received without room.
InterruptsMatchQueues ==
  /\ "XMIT" \in ier <=> ~intq_empty("txq")
  /\ "RECV" \in ier <=> ~intq_full("input")

\* The bytes in a ring, oldest first.
Ring(q) ==
  [k \in 1 .. (head[q] - tail[q]) % INTQ_BUFSIZE |->
     buf[q][(tail[q] + k - 1) % INTQ_BUFSIZE]]
Input == INSTANCE IntqSpec WITH queue <- Ring("input"), Capacity <- INTQ_BUFSIZE - 1
Txq == INSTANCE IntqSpec WITH queue <- Ring("txq"), Capacity <- INTQ_BUFSIZE - 1

\* Both rings are queues: nothing is lost, duplicated, reordered or overwritten
\* when head and tail wrap around.
RingsAreQueues == Input!Spec /\ Txq!Spec

\* A writer asleep on a full transmit queue is woken.
WriterWakes == \A t \in Writers : pc[t] = "sleep" ~> pc[t] # "sleep" \/ panicked

\* The assertion of wait(): its caller's test of the queue still holds.
WaitAssertion == ~panicked
=============================================================================
