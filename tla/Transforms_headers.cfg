\* What transforms/__init__.py:212 says of EtlHeadGenerator.
CONSTANTS
  Workers = {"perfherder"}
  MaxLines = 2
  MaxRecords = 2
  MaxTries = 2
  SourceIds = {0, 1}
SPECIFICATION Spec
INVARIANT HeadersAreUnique
CHECK_DEADLOCK FALSE
