\* The claim of docs/CodeCoverage Testing.md:37.
CONSTANTS
  t1 = t1  t2 = t2  m1 = m1  m2 = m2
  raw = raw  job = job  text = text  empty = empty  garbage = garbage
  Sink = Sink  NoOne = NoOne
  Threads = {t1, t2}
  Kind <- MCKind
  MinAttempts = 0
  GiveUpAfter = 0
  Machines = {m1, m2}
  On <- Apart
  Ids = {1, 2, 3, 4, 5, 6, 7}
  Blocks = {raw}
  Roots = {raw}
  Workers <- ToSink
  KeepUnknown = FALSE
  WaitForever = TRUE
  MaxFaults = 1
SPECIFICATION Spec
INVARIANT WorkIsReturned
CHECK_DEADLOCK FALSE
