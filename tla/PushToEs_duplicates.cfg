\* One message with a file for each of two indexes: the doubles of rollover_index.py:218.
CONSTANTS
  m1 = m1  m2 = m2  m3 = m3  m4 = m4  m5 = m5 x1 = x1  x2 = x2
  a = a  b = b  c = c  d = d  e = e  f = f
  Messages = {m1}
  Rows = {b, d}
  Indexes = {x1, x2}
  Files <- Two
  Unknown = {}
  Garbage = {}
  Date <- MCDate
  Verdict <- MCVerdict
  MaxPending = 1
  MaxQueue = 2
  BatchSize = 2
  Reported = 1
  MaxFaults = 1
SPECIFICATION Spec
INVARIANT NoDuplicates
CHECK_DEADLOCK FALSE
