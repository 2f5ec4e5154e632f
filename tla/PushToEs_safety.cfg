\* Messages and rows of every kind.
CONSTANTS
  m1 = m1  m2 = m2  m3 = m3  m4 = m4  m5 = m5 x1 = x1  x2 = x2
  a = a  b = b  c = c  d = d  e = e  f = f
  Messages = {m1, m2, m3, m4, m5}
  Rows = {a, b, c, d, e, f}
  Indexes = {x1, x2}
  Files <- Mixed
  Unknown = {m4}
  Garbage = {m5}
  Date <- MCDate
  Verdict <- MCVerdict
  MaxPending = 1
  MaxQueue = 2
  BatchSize = 2
  Reported = 1
  MaxFaults = 1
SPECIFICATION Spec
INVARIANTS
  TypeOK
  DeletedIsIndexed
  DropsAreExplained
CHECK_DEADLOCK FALSE
