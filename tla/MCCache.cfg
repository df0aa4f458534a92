SPECIFICATION MCSpec
CONSTANTS
  c1 = c1
  c2 = c2
  flusher = flusher
  fetcher = fetcher
  s1 = s1
  s2 = s2
  Clients = {c1, c2}
  Flusher = flusher
  Idle = Idle
  Fetcher = fetcher
  Sectors = {s1, s2}
  FetchSectors = {s1, s2}
  Offsets = {0, 1}
  Values = {0, 1}
  Spans <- MCSpan
  Blank = 0
  Junk = 1
  IntBits = 1
INVARIANTS TypeOK NoRepetitions CleanIsOnDisk NobodyWaitsForever
PROPERTY ImplementsDisk
SYMMETRY Symmetry
CHECK_DEADLOCK FALSE
