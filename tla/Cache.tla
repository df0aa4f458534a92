------------------------------- MODULE Cache -------------------------------
(***************************************************************************)
(* The buffer cache of the file system (filesys/cache.c): clients that     *)
(* read and write sectors through the blocks, the clock that evicts, and   *)
(* the two daemons.                                                        *)
(*                                                                         *)
(* The rw_locks are the abstract ones that RWLock implements (RWLockSpec). *)
(* writer_try_acquire() may fail although nobody has the lock, because     *)
(* another thread is just passing no_waiting.  A section that runs under a *)
(* lock and touches nothing else is one step.                              *)
(***************************************************************************)
EXTENDS Integers, FiniteSets

CONSTANTS
  Clients,   \* threads that call cached_read() and cached_write()
  Flusher,   \* write_back_daemon, or the thread in filesys_done()
  Fetcher,   \* async_fetch_daemon
  FetchSectors, \* the sectors it is asked to fetch (nobody calls async_fetch() now)
  Sectors, Offsets, Values, Spans,  \* as in CacheSpec
  Blank, Junk, \* bytes on the disk at first, and of memory never written
  Idle,      \* no request
  IntBits    \* bits of an int; there are 2 * IntBits blocks (32 and 64)

NoThread == "none"
NoBlock == -1
CACHE_BLOCKS == 2 * IntBits
Blocks == 0 .. CACHE_BLOCKS - 1
Threads == Clients \cup {Flusher, Fetcher}

ASSUME CacheAssumption ==
  /\ IntBits \in Nat \ {0}
  /\ Flusher \notin Clients /\ Fetcher \notin Clients \cup {Flusher}
  /\ Spans \subseteq (SUBSET Offsets) \ {{}} /\ {Blank, Junk} \subseteq Values

VARIABLES
  disk,                 \* fs_device
  sector, state, accessed, data,   \* of each cached_block
  block_writer, block_readers,     \* its rw_lock
  sector_writer, sector_readers,   \* sector_lock
  evict_lock, fs_cache_arm,        \* holder of fs_evict_lock, the clock arm
  pc, cb,               \* where a thread is, the block it works on
  request, got,         \* a client's call, and what it last read
  fetching,             \* the sector the fetch daemon works on
  i, wrote_back,        \* write_back_all()
  halted                \* filesys_done() has run

blockVars == <<sector, state, accessed, data>>
lockVars == <<block_writer, block_readers>>
sectorLock == <<sector_writer, sector_readers>>
evictVars == <<evict_lock, fs_cache_arm>>
flushVars == <<i, wrote_back, halted>>
\* what only clients and only the daemons change
clientVars == <<request, got>>
daemonVars == <<fetching, flushVars>>
vars == <<disk, blockVars, lockVars, sectorLock, evictVars, pc, cb, request, got,
          fetching, flushVars>>

\* The bytes a sector has for the callers: those of the block that caches it,
\* except while they are still being read from the disk.
Contents ==
  [s \in Sectors |->
     LET at == {b \in Blocks :
                  /\ sector[b] = s /\ state[b] # "UNOCCUPIED"
                  /\ state[b] = "IN_IO" => pc[block_writer[b]] = "wrote"}
     IN  IF at = {} THEN disk[s] ELSE data[CHOOSE b \in at : TRUE]]

Abstract == INSTANCE CacheSpec WITH contents <- Contents
Requests == Abstract!Requests
Store(bytes, r) == Abstract!Store(bytes, r)
Fetch(bytes, r) == Abstract!Fetch(bytes, r)

Pcs == {"idle", "find", "acquire", "use", "retry", "get_free", "evict",
        "wrote", "have", "upgrade", "read", "flush"}

TypeOK ==
  /\ disk \in [Sectors -> [Offsets -> Values]]
  /\ sector \in [Blocks -> Sectors]
  /\ state \in [Blocks -> {"UNOCCUPIED", "IN_IO", "CLEAN", "DIRTY"}]
  /\ accessed \in [Blocks -> BOOLEAN]
  /\ data \in [Blocks -> [Offsets -> Values]]
  /\ block_writer \in [Blocks -> Threads \cup {NoThread}]
  /\ block_readers \in [Blocks -> SUBSET Clients]
  /\ sector_writer \in Threads \cup {NoThread} /\ sector_readers \in SUBSET Clients
  /\ evict_lock \in Threads \cup {NoThread} /\ fs_cache_arm \in Blocks
  /\ pc \in [Threads -> Pcs] /\ cb \in [Threads -> Blocks \cup {NoBlock}]
  /\ request \in [Clients -> Requests \cup {Idle}] /\ fetching \in Sectors \cup {Idle}
  /\ i \in 0 .. CACHE_BLOCKS /\ wrote_back \in SUBSET Blocks /\ halted \in BOOLEAN

\* init_fs_cache().  The sector and the data of a block are uninitialized.
Init ==
  /\ disk = [s \in Sectors |-> [o \in Offsets |-> Blank]]
  /\ sector \in [Blocks -> Sectors]
  /\ state = [b \in Blocks |-> "UNOCCUPIED"]
  /\ accessed = [b \in Blocks |-> FALSE]
  /\ data = [b \in Blocks |-> [o \in Offsets |-> Junk]]
  /\ block_writer = [b \in Blocks |-> NoThread]
  /\ block_readers = [b \in Blocks |-> {}]
  /\ sector_writer = NoThread /\ sector_readers = {}
  /\ evict_lock = NoThread /\ fs_cache_arm = 0
  /\ pc = [t \in Threads |-> "idle"] /\ cb = [t \in Threads |-> NoBlock]
  /\ request = [c \in Clients |-> Idle] /\ fetching = Idle
  /\ got = [c \in Clients |-> <<>>]
  /\ i = 0 /\ wrote_back = {} /\ halted = FALSE

-----------------------------------------------------------------------------
Goto(t, from, to) == pc[t] = from /\ pc' = [pc EXCEPT ![t] = to]
BlockFree(b) == block_writer[b] = NoThread /\ block_readers[b] = {}
SectorLockFree == sector_writer = NoThread /\ sector_readers = {}

\* find_cached_sector(): the blocks it can return for sector s.
find_cached_sector(s) == {b \in Blocks : sector[b] = s /\ state[b] # "UNOCCUPIED"}

\* cached_read() or cached_write() is called.
Call(c, r) ==
  /\ ~halted
  /\ Goto(c, "idle", "find")
  /\ request' = [request EXCEPT ![c] = r]
  /\ got' = [got EXCEPT ![c] = <<>>]
  /\ UNCHANGED <<disk, blockVars, lockVars, sectorLock, evictVars, cb, daemonVars>>

\* cached_read_write(): look the sector up with sector_lock held for reading;
\* it is released if the sector was found and kept through get_free_block().
Find(c) ==
  /\ pc[c] = "find"
  /\ sector_writer = NoThread
  /\ \/ \E b \in find_cached_sector(request[c].sector) :
          /\ pc' = [pc EXCEPT ![c] = "acquire"]
          /\ cb' = [cb EXCEPT ![c] = b]
          /\ UNCHANGED sector_readers
     \/ /\ find_cached_sector(request[c].sector) = {}
        /\ pc' = [pc EXCEPT ![c] = "get_free"]
        /\ sector_readers' = sector_readers \cup {c}
        /\ UNCHANGED cb
  /\ UNCHANGED <<disk, blockVars, lockVars, sector_writer, evictVars, clientVars, daemonVars>>

\* rw_acquire() of the block, and the test whether it still has the sector.
Acquire(c) ==
  LET b == cb[c]
      r == request[c]
      hit == sector[b] = r.sector /\ state[b] \in {"CLEAN", "DIRTY"}
  IN  /\ Goto(c, "acquire", IF hit THEN "use" ELSE "retry")
      /\ block_writer[b] = NoThread
      /\ IF r.write
         THEN /\ block_readers[b] = {}
              /\ block_writer' = [block_writer EXCEPT ![b] = c]
              /\ UNCHANGED block_readers
         ELSE /\ block_readers' = [block_readers EXCEPT ![b] = @ \cup {c}]
              /\ UNCHANGED block_writer
      /\ UNCHANGED <<disk, blockVars, sectorLock, evictVars, cb, clientVars, daemonVars>>

\* rw_release().
ReleaseBlock(c) ==
  /\ block_writer' = [block_writer EXCEPT ![cb[c]] = IF @ = c THEN NoThread ELSE @]
  /\ block_readers' = [block_readers EXCEPT ![cb[c]] = @ \ {c}]
  /\ cb' = [cb EXCEPT ![c] = NoBlock]

\* The sector changed before the block was locked: try again.
Retry(c) ==
  /\ Goto(c, "retry", "find")
  /\ ReleaseBlock(c)
  /\ UNCHANGED <<disk, blockVars, sectorLock, evictVars, clientVars, daemonVars>>

\* The copy to or from the cached bytes; the call returns.
Transfer(c, bytes) ==
  LET r == request[c]
  IN  /\ data' = [data EXCEPT ![cb[c]] = IF r.write THEN Store(bytes, r) ELSE bytes]
      /\ got' = IF r.write THEN got ELSE [got EXCEPT ![c] = Fetch(bytes, r)]
      /\ accessed' = [accessed EXCEPT ![cb[c]] = TRUE]
      /\ request' = [request EXCEPT ![c] = Idle]
      /\ ReleaseBlock(c)

\* Mutant: a write to a cached block does not make it dirty.
UseLeavesClean(c) ==
  /\ Goto(c, "use", "idle")
  /\ Transfer(c, data[cb[c]])
  /\ UNCHANGED state
  /\ UNCHANGED <<disk, sector, sectorLock, evictVars, daemonVars>>

Use(c) ==
  /\ Goto(c, "use", "idle")
  /\ Transfer(c, data[cb[c]])
  /\ state' = IF request[c].write THEN [state EXCEPT ![cb[c]] = "DIRTY"] ELSE state
  /\ UNCHANGED <<disk, sector, sectorLock, evictVars, daemonVars>>

-----------------------------------------------------------------------------
\* get_free_block(): take fs_evict_lock.
GetFree(t) ==
  /\ Goto(t, "get_free", "evict")
  /\ evict_lock = NoThread
  /\ evict_lock' = t
  /\ UNCHANGED <<disk, blockVars, lockVars, sectorLock, fs_cache_arm, cb, clientVars,
                 daemonVars>>

\* Mutant: the block is not written.
write_back_skips(b) == b \in Blocks /\ UNCHANGED state

\* write_back(): the block b is IN_IO while it is written, if it is dirty.
write_back(b) == state' = [state EXCEPT ![b] = IF @ = "DIRTY" THEN "IN_IO" ELSE @]

\* Mutant: the clock arm runs past the last block.
EvictNoWrap(t) ==
  LET b == fs_cache_arm
  IN  /\ pc[t] = "evict"
      /\ fs_cache_arm' = b + 1
      /\ \/ UNCHANGED <<pc, cb, block_writer, state, accessed, evict_lock>>
         \/ /\ BlockFree(b) /\ state[b] # "UNOCCUPIED" /\ accessed[b]
            /\ accessed' = [accessed EXCEPT ![b] = FALSE]
            /\ UNCHANGED <<pc, cb, block_writer, state, evict_lock>>
         \/ /\ BlockFree(b) /\ (state[b] = "UNOCCUPIED" \/ ~accessed[b])
            /\ pc' = [pc EXCEPT ![t] = IF state[b] = "UNOCCUPIED" THEN "have" ELSE "wrote"]
            /\ cb' = [cb EXCEPT ![t] = b]
            /\ block_writer' = [block_writer EXCEPT ![b] = t]
            /\ write_back(b)
            /\ evict_lock' = NoThread
            /\ UNCHANGED accessed
      /\ UNCHANGED <<disk, sector, data, block_readers, sectorLock, clientVars, daemonVars>>

\* One turn of the clock: a block that cannot be locked, or was accessed, is
\* passed over; the first other one is locked, and written back if dirty.
Evict(t) ==
  LET b == fs_cache_arm
  IN  /\ pc[t] = "evict"
      /\ fs_cache_arm' = (b + 1) % CACHE_BLOCKS
      /\ \/ UNCHANGED <<pc, cb, block_writer, state, accessed, evict_lock>>
         \/ /\ BlockFree(b) /\ state[b] # "UNOCCUPIED" /\ accessed[b]
            /\ accessed' = [accessed EXCEPT ![b] = FALSE]
            /\ UNCHANGED <<pc, cb, block_writer, state, evict_lock>>
         \/ /\ BlockFree(b) /\ (state[b] = "UNOCCUPIED" \/ ~accessed[b])
            /\ pc' = [pc EXCEPT ![t] = IF state[b] = "UNOCCUPIED" THEN "have" ELSE "wrote"]
            /\ cb' = [cb EXCEPT ![t] = b]
            /\ block_writer' = [block_writer EXCEPT ![b] = t]
            /\ write_back(b)
            /\ evict_lock' = NoThread
            /\ UNCHANGED accessed
      /\ UNCHANGED <<disk, sector, data, block_readers, sectorLock, clientVars, daemonVars>>

\* block_write() puts the bytes on the disk.
WriteDone(b) ==
  disk' = IF state[b] = "IN_IO" THEN [disk EXCEPT ![sector[b]] = data[b]] ELSE disk

\* The write of an eviction is done: the block is free.
Evicted(t) ==
  /\ t # Flusher
  /\ Goto(t, "wrote", "have")
  /\ WriteDone(cb[t])
  /\ state' = [state EXCEPT ![cb[t]] = "UNOCCUPIED"]
  /\ UNCHANGED <<sector, accessed, data, lockVars, sectorLock, evictVars, cb, clientVars,
                 daemonVars>>

\* Mutant: sector_lock is acquired for writing while it is held for reading.
HaveKeepsSectorLock(c) ==
  /\ c # Fetcher
  /\ Goto(c, "have", "upgrade")
  /\ UNCHANGED sector_readers
  /\ UNCHANGED <<disk, blockVars, lockVars, sector_writer, evictVars, cb, clientVars, daemonVars>>

\* reader_release (&sector_lock), before it is acquired for writing.
Have(c) ==
  /\ c # Fetcher
  /\ Goto(c, "have", "upgrade")
  /\ sector_readers' = sector_readers \ {c}
  /\ UNCHANGED <<disk, blockVars, lockVars, sector_writer, evictVars, cb, clientVars, daemonVars>>

\* Mutant: no second look-up under sector_lock.
UpgradeNoTest(c) ==
  /\ pc[c] = "upgrade"
  /\ SectorLockFree
  /\ IF TRUE
     THEN /\ pc' = [pc EXCEPT ![c] = "read"]
          /\ sector' = [sector EXCEPT ![cb[c]] = request[c].sector]
          /\ state' = [state EXCEPT ![cb[c]] = "IN_IO"]
          /\ UNCHANGED <<cb, lockVars>>
     ELSE /\ pc' = [pc EXCEPT ![c] = "find"]
          /\ ReleaseBlock(c)
          /\ UNCHANGED <<sector, state>>
  /\ UNCHANGED <<disk, accessed, data, sectorLock, evictVars, clientVars, daemonVars>>

\* The section under sector_lock that gives the block its sector, unless
\* another thread brought the sector in meanwhile.
Upgrade(c) ==
  /\ pc[c] = "upgrade"
  /\ SectorLockFree
  /\ IF find_cached_sector(request[c].sector) = {}
     THEN /\ pc' = [pc EXCEPT ![c] = "read"]
          /\ sector' = [sector EXCEPT ![cb[c]] = request[c].sector]
          /\ state' = [state EXCEPT ![cb[c]] = "IN_IO"]
          /\ UNCHANGED <<cb, lockVars>>
     ELSE /\ pc' = [pc EXCEPT ![c] = "find"]
          /\ ReleaseBlock(c)
          /\ UNCHANGED <<sector, state>>
  /\ UNCHANGED <<disk, accessed, data, sectorLock, evictVars, clientVars, daemonVars>>

\* block_read(), and the transfer.
Read(c) ==
  /\ c \in Clients
  /\ Goto(c, "read", "idle")
  /\ Transfer(c, disk[sector[cb[c]]])
  /\ state' = [state EXCEPT ![cb[c]] = IF request[c].write THEN "DIRTY" ELSE "CLEAN"]
  /\ UNCHANGED <<disk, sector, sectorLock, evictVars, daemonVars>>

-----------------------------------------------------------------------------
\* async_fetch_daemon() takes a sector from its list, and sector_lock; if the
\* sector is not there the lock is kept through get_free_block().
FetchFind(s) ==
  /\ ~halted
  /\ SectorLockFree
  /\ find_cached_sector(s) = {}
  /\ Goto(Fetcher, "idle", "get_free")
  /\ sector_writer' = Fetcher
  /\ fetching' = s
  /\ UNCHANGED <<disk, blockVars, lockVars, sector_readers, evictVars, cb, clientVars, flushVars>>

FetchHave ==
  /\ Goto(Fetcher, "have", "read")
  /\ sector' = [sector EXCEPT ![cb[Fetcher]] = fetching]
  /\ state' = [state EXCEPT ![cb[Fetcher]] = "IN_IO"]
  /\ sector_writer' = NoThread
  /\ UNCHANGED <<disk, accessed, data, lockVars, sector_readers, evictVars, cb,
                 clientVars, daemonVars>>

FetchRead ==
  /\ Goto(Fetcher, "read", "idle")
  /\ data' = [data EXCEPT ![cb[Fetcher]] = disk[sector[cb[Fetcher]]]]
  /\ accessed' = [accessed EXCEPT ![cb[Fetcher]] = FALSE]
  /\ state' = [state EXCEPT ![cb[Fetcher]] = "CLEAN"]
  /\ ReleaseBlock(Fetcher)
  /\ fetching' = Idle
  /\ UNCHANGED <<disk, sector, sectorLock, evictVars, clientVars, flushVars>>

-----------------------------------------------------------------------------
\* The bits of 1 << k, an int, once converted to the 64 bits of wrote_back: the
\* shift count is taken modulo the int's width and the top bit is a sign.
Bit(k) ==
  IF k % IntBits = IntBits - 1 THEN IntBits - 1 .. CACHE_BLOCKS - 1 ELSE {k % IntBits}

\* write_back_all() is called: by the daemon every second.
FlushStart ==
  /\ ~halted
  /\ Goto(Flusher, "idle", "flush")
  /\ i' = 0 /\ wrote_back' = {}
  /\ UNCHANGED <<disk, blockVars, lockVars, sectorLock, evictVars, cb, clientVars,
                 fetching, halted>>

\* A turn of the for loop: the block is done already, or writer_try_acquire()
\* fails, or the block is locked and written back.
FlushBlock ==
  /\ pc[Flusher] = "flush"
  /\ i < CACHE_BLOCKS
  /\ \/ /\ wrote_back \cap Bit(i) # {} \/ ~BlockFree(i) \/ ~halted
        /\ i' = i + 1
        /\ UNCHANGED <<pc, cb, block_writer, state>>
     \/ /\ wrote_back \cap Bit(i) = {} /\ BlockFree(i)
        /\ pc' = [pc EXCEPT ![Flusher] = "wrote"]
        /\ write_back(i)
        /\ cb' = [cb EXCEPT ![Flusher] = i]
        /\ block_writer' = [block_writer EXCEPT ![i] = Flusher]
        /\ UNCHANGED i
  /\ UNCHANGED <<disk, sector, accessed, data, block_readers, sectorLock, evictVars,
                 clientVars, fetching, wrote_back, halted>>

Flushed ==
  /\ Goto(Flusher, "wrote", "flush")
  /\ WriteDone(i)
  /\ state' = [state EXCEPT ![i] = IF @ = "IN_IO" THEN "CLEAN" ELSE @]
  /\ wrote_back' = wrote_back \cup Bit(i)
  /\ i' = i + 1
  /\ ReleaseBlock(Flusher)
  /\ UNCHANGED <<sector, accessed, data, sectorLock, evictVars, clientVars, fetching, halted>>

\* The while loop: once more through the blocks, or return.
FlushAgain ==
  /\ i = CACHE_BLOCKS
  /\ Goto(Flusher, "flush", IF wrote_back = Blocks THEN "idle" ELSE "flush")
  /\ i' = 0
  /\ wrote_back' = IF wrote_back = Blocks THEN {} ELSE wrote_back
  /\ UNCHANGED <<disk, blockVars, lockVars, sectorLock, evictVars, cb, clientVars,
                 fetching, halted>>

\* filesys_done() calls write_back_all() when everything else has stopped, and
\* the machine is shut down.
FilesysDone ==
  /\ \A t \in Threads : pc[t] = "idle"
  /\ ~halted /\ halted' = TRUE
  /\ pc' = [pc EXCEPT ![Flusher] = "flush"]
  /\ i' = 0 /\ wrote_back' = {}
  /\ UNCHANGED <<disk, blockVars, lockVars, sectorLock, evictVars, cb, clientVars, fetching>>

-----------------------------------------------------------------------------
GetFreeBlock(t) == GetFree(t) \/ Evict(t) \/ Evicted(t)
ClientStep(c) ==
  Find(c) \/ Acquire(c) \/ Retry(c) \/ Use(c) \/ Have(c) \/ Upgrade(c) \/ Read(c)
FetchStep == FetchHave \/ FetchRead
FlushStep == FlushBlock \/ Flushed \/ FlushAgain

Next ==
  \/ \E c \in Clients : ClientStep(c) \/ \E r \in Requests : Call(c, r)
  \/ \E t \in Threads : GetFreeBlock(t)
  \/ FetchStep \/ \E s \in FetchSectors : FetchFind(s)
  \/ FlushStart \/ FlushStep \/ FilesysDone

Spec == Init /\ [][Next]_vars

-----------------------------------------------------------------------------
\* "FS cache contains all unique cache blocks, (no repetitions)": no sector is in
\* two blocks, although a client decides that it is absent, drops sector_lock,
\* and takes it again to bring it in.
NoRepetitions ==
  \A b1, b2 \in Blocks :
    /\ state[b1] # "UNOCCUPIED" /\ state[b2] # "UNOCCUPIED"
    /\ sector[b1] = sector[b2]
    => b1 = b2

\* A block that says it is clean has what the disk has: no eviction or
\* write-back drops a write.
CleanIsOnDisk ==
  \A b \in Blocks : state[b] = "CLEAN" => data[b] = disk[sector[b]]

\* Threads between finding no block with their sector and giving one to it.
Missing ==
  {t \in Threads \ {Flusher} : pc[t] \in {"get_free", "evict", "wrote", "have", "upgrade"}}

\* Threads inside the cache.  Turns of write_back_all() that write nothing get
\* nobody further.
Busy == {t \in Threads : pc[t] \notin {"idle", "flush"}}

\* The lock the thread acquires is taken; for the clock, the lock of every block.
Blocked(t) ==
  \/ pc[t] = "find" /\ sector_writer # NoThread
  \/ /\ pc[t] = "acquire"
     /\ \/ block_writer[cb[t]] # NoThread
        \/ request[t].write /\ block_readers[cb[t]] # {}
  \/ pc[t] = "get_free" /\ evict_lock # NoThread
  \/ pc[t] = "evict" /\ ~ \E b \in Blocks : BlockFree(b)
  \/ pc[t] = "upgrade" /\ ~SectorLockFree

\* Threads that use the cache never all wait for one another, although a client
\* takes fs_evict_lock and a block with sector_lock held and sector_lock again
\* with the block held, and get_free_block() loops for a block with sector_lock
\* held.  Needs a block for every thread that misses at once: one more, and each
\* block can be held by a thread that waits for sector_lock.
NobodyWaitsForever ==
  Busy # {} /\ Cardinality(Missing) <= CACHE_BLOCKS => \E t \in Busy : ~Blocked(t)

\* Reads and writes are atomic on the sectors, whatever is evicted, fetched or
\* written back meanwhile.
ImplementsDisk == Abstract!Spec

\* filesys_done(): "Shuts down the file system module, writing any unwritten data
\* to disk."
DoneIsOnDisk == halted /\ pc[Flusher] = "idle" => disk = Contents
=============================================================================
