\* One thread that stops when the queue is empty, messages that are not work,
\* and a block without workers that is kept.
CONSTANTS
  t1 = t1  t2 = t2  m1 = m1  m2 = m2
  raw = raw  job = job  text = text  empty = empty  garbage = garbage
  Sink = Sink  NoOne = NoOne
  Threads = {t1}
  Kind <- MCKind
  MinAttempts = 0
  GiveUpAfter = 0
  Machines = {m1}
  On <- Together
  Ids = {1, 2, 3, 4, 5, 6, 7, 8, 9}
  Blocks = {raw, text, empty, garbage}
  Roots = {raw, text, empty, garbage}
  Workers <- ToNothing
  KeepUnknown = TRUE
  WaitForever = FALSE
  MaxFaults = 1
SPECIFICATION Spec
INVARIANTS
  NoBlockLost
CHECK_DEADLOCK FALSE
