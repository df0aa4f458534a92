----------------------------- MODULE CacheSpec -----------------------------
(***************************************************************************)
(* What the buffer cache promises its callers (filesys/cache.c: "All       *)
(* syncronization is done internally"): every cached_read() and            *)
(* cached_write() takes effect at one moment between its call and its      *)
(* return, on a disk that no cache, eviction or write-back shows through.  *)
(***************************************************************************)
CONSTANTS
  Clients, Sectors, Values, Idle,
  Offsets, \* the bytes of a sector
  Spans    \* the ranges of bytes, from to to, that callers read and write

VARIABLES
  contents, \* the bytes of each sector
  request,  \* what each client has asked for, or Idle
  got       \* what its last call read

vars == <<contents, request, got>>

Requests ==
  [sector : Sectors, span : Spans, write : {TRUE}, value : Values]
  \cup [sector : Sectors, span : Spans, write : {FALSE}]

\* memcpy() of a request's bytes into and out of a sector.
Store(bytes, r) == [o \in Offsets |-> IF o \in r.span THEN r.value ELSE bytes[o]]
Fetch(bytes, r) == [o \in r.span |-> bytes[o]]

Init ==
  /\ contents \in [Sectors -> [Offsets -> Values]]
  /\ request = [c \in Clients |-> Idle]
  /\ got = [c \in Clients |-> <<>>]

Invoke(c, r) ==
  /\ request[c] = Idle
  /\ request' = [request EXCEPT ![c] = r]
  /\ got' = [got EXCEPT ![c] = <<>>]
  /\ UNCHANGED contents

Perform(c) ==
  LET r == request[c]
  IN  /\ r # Idle
      /\ request' = [request EXCEPT ![c] = Idle]
      /\ IF r.write
         THEN /\ contents' = [contents EXCEPT ![r.sector] = Store(@, r)]
              /\ UNCHANGED got
         ELSE /\ got' = [got EXCEPT ![c] = Fetch(contents[r.sector], r)]
              /\ UNCHANGED contents

Next == \E c \in Clients : Perform(c) \/ \E r \in Requests : Invoke(c, r)

Spec == Init /\ [][Next]_vars
=============================================================================
