------------------------------ MODULE MCSerial ------------------------------
EXTENDS Serial

CONSTANTS r1, r2, w1, w2, b1, b2

\* Bound: a behaviour has two readers and a writer, or a reader and two writers,
\* and one value of bytes, or two threads in one direction, in or out, and two
\* values (which tell the bytes of a queue apart).
VARIABLE team

MCInit == Init /\ team \in {"readers", "writers", "in", "out"}
MCNext ==
  /\ Next
  /\ team \in {"readers", "writers"} =>
       /\ b2 \notin {rbr'} \cup {byte'[w] : w \in Writers}
       /\ \A q \in Queues : \A k \in DOMAIN buf'[q] : buf'[q][k] # b2
  /\ team = "readers" => pc'[w2] = "idle"
  /\ team = "writers" => pc'[r2] = "idle"
  /\ team = "in" => head'["txq"] = head["txq"] /\ \A w \in Writers : pc'[w] = "idle"
  /\ team = "out" => /\ head'["input"] = head["input"] /\ rbr' = NoByte
                     /\ \A r \in Readers : pc'[r] = "idle"
  /\ UNCHANGED team
MCSpec == MCInit /\ [][MCNext]_<<vars, team>>
MCFairSpec == MCSpec /\ Fairness
=============================================================================
