------------------------------ MODULE DiskSpec ------------------------------
(***************************************************************************)
(* What a block device promises (devices/block.c: "Internally synchronizes *)
(* accesses to block devices, so external per-block device locking is      *)
(* unneeded"): every read and write of a sector takes effect at one moment *)
(* between its call and its return.  The device may lose the last write,   *)
(* even one that has returned, until it takes the next request: whether it *)
(* does is settled before anything else is performed.                      *)
(***************************************************************************)
CONSTANTS Threads, Sectors, Values, Idle

VARIABLES
  contents,  \* of each sector
  unsettled, \* the write that can still be lost: its sector and the value it replaced
  request,   \* what each thread has asked for and is not done, or Idle
  got        \* what its last block_read() returned

vars == <<contents, unsettled, request, got>>

Requests ==
  [op : {"read"}, sector : Sectors] \cup [op : {"write"}, sector : Sectors, value : Values]

Init ==
  /\ contents \in [Sectors -> Values] /\ unsettled = Idle
  /\ request = [t \in Threads |-> Idle]
  /\ got = [t \in Threads |-> Idle]

Invoke(t, r) ==
  /\ request[t] = Idle
  /\ request' = [request EXCEPT ![t] = r]
  /\ got' = [got EXCEPT ![t] = Idle]
  /\ UNCHANGED <<contents, unsettled>>

Perform(t) ==
  LET r == request[t]
  IN  /\ r # Idle /\ unsettled = Idle
      /\ request' = [request EXCEPT ![t] = Idle]
      /\ \/ /\ r.op = "write"
            /\ contents' = [contents EXCEPT ![r.sector] = r.value]
            /\ unsettled' = [sector |-> r.sector, old |-> contents[r.sector]]
            /\ UNCHANGED got
         \/ /\ r.op = "read"
            /\ got' = [got EXCEPT ![t] = contents[r.sector]]
            /\ UNCHANGED <<contents, unsettled>>

\* The last write is kept, or lost.
Settle ==
  /\ unsettled # Idle /\ unsettled' = Idle
  /\ contents' \in {contents, [contents EXCEPT ![unsettled.sector] = unsettled.old]}
  /\ UNCHANGED <<request, got>>

Next == Settle \/ \E t \in Threads : Perform(t) \/ \E r \in Requests : Invoke(t, r)

Spec == Init /\ [][Next]_vars
=============================================================================
