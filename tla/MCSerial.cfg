SPECIFICATION MCFairSpec
CONSTANTS
  r1 = r1
  r2 = r2
  w1 = w1
  w2 = w2
  b1 = b1
  b2 = b2
  Readers = {r1, r2}
  Writers = {w1, w2}
  Bytes = {b1, b2}
  NoByte = NoByte
  INTQ_BUFSIZE = 3
INVARIANTS TypeOK SleeperIsKnown InterruptsMatchQueues
PROPERTIES RingsAreQueues WriterWakes
CHECK_DEADLOCK FALSE
