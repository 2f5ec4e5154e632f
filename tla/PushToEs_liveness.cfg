\* An index with fewer hopeless rows than are reported, one with a row that does not encode; fair.
CONSTANTS
  m1 = m1  m2 = m2  m3 = m3  m4 = m4  m5 = m5 x1 = x1  x2 = x2
  a = a  b = b  c = c  d = d  e = e  f = f
  Messages = {m1, m2}
  Rows = {a, b, c, d}
  Indexes = {x1, x2}
  Files <- Fair
  Unknown = {}
  Garbage = {}
  Date <- MCDate
  Verdict <- FairVerdict
  MaxPending = 1
  MaxQueue = 2
  BatchSize = 2
  Reported = 3
  MaxFaults = 1
SPECIFICATION FairSpec
PROPERTIES
  EveryRowIndexed
  StopEndsProcess
CHECK_DEADLOCK FALSE
