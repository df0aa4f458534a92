------------------------------ MODULE MCCache ------------------------------
EXTENDS Cache, TLC

CONSTANTS c1, c2, flusher, fetcher, s1, s2

\* Bound: a behaviour has the calls of all clients and no daemon ("clients"), or
\* reads of all clients and the fetch daemon, one more than there are blocks
\* ("misses"), or the calls of one client (team is that client) and the two
\* daemons.
VARIABLE team

MCInit == Init /\ team \in {"clients", "misses"} \cup Clients
MCNext ==
  /\ Next
  /\ team = "clients" => fetching' = Idle
  /\ team = "misses" => \A c \in {d \in Clients : request'[d] # Idle} : ~request'[c].write
  /\ IF team \in Clients THEN \A c \in Clients \ {team} : request'[c] = Idle
     ELSE pc'[Flusher] = "idle"
  /\ UNCHANGED team
MCSpec == MCInit /\ [][MCNext]_<<vars, team>>

\* Requests touch the first byte of a sector.
MCSpan == {{0}}
\* Clients are interchangeable, and so are sectors.
Symmetry == Permutations(Clients) \cup Permutations(Sectors)
=============================================================================
