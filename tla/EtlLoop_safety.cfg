\* Two machines with one thread each, one block made into another.
CONSTANTS
  t1 = t1  t2 = t2  m1 = m1  m2 = m2
  raw = raw  job = job  text = text  empty = empty  garbage = garbage
  Sink = Sink  NoOne = NoOne
  Threads = {t1, t2}
  Kind <- MCKind
  MinAttempts = 0
  GiveUpAfter = 0
  Machines = {m1, m2}
  On <- Apart
  Ids = {1, 2, 3, 4, 5, 6, 7}
  Blocks = {raw, job}
  Roots = {raw}
  Workers <- ToJobAndSink
  KeepUnknown = FALSE
  WaitForever = TRUE
  MaxFaults = 1
SPECIFICATION Spec
SYMMETRY Swap
INVARIANTS
  TypeOK
  NoBlockLost
  OutputAnnounced
  AttemptsAreBounded
PROPERTIES
  LoopIsWorkQueue
CHECK_DEADLOCK FALSE
