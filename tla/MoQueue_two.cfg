\* Two producers: what queues.py:184 says of pop().
CONSTANTS
  Producers = {p1, p2}
  Consumers = {c1}
  Load = 2
  Limit = 1
  Silent = FALSE
  HasTill = TRUE
  Stop = Stop
SPECIFICATION Spec
PROPERTY NoneMeansEmpty
CHECK_DEADLOCK FALSE
