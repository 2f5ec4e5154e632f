\* What buildbot_json_logs.py:126 says of block 0.
CONSTANTS
  Last = 1
  Slots = 20
  ForceSettings = {FALSE}
  MaxFaults = 0
SPECIFICATION Spec
INVARIANT FirstBlockLast
CHECK_DEADLOCK FALSE
