\* Every service on its small instance.
CONSTANTS
  Services = {"day", "queue", "sink", "copier", "logger"}
  Last = 4
  Slots = 1
  ForceSettings = {TRUE, FALSE}
  MaxFaults = 1
  Producers = {p1}
  Consumers = {c1, c2, c3, c4}
  Load = 3
  Limit = 2
  Silent = FALSE
  HasTill = TRUE
  Stop = Stop
  Writers = {w1, w2}
  DocIds = {1, 2}
  MaxExtends = 3
  Mail = {m1, m2}
  MaxCopiers = 2
  MaxCopies = 2
  LogFiles = {f1, f2}
  MaxVersion = 2
  MaxKills = 1
  Nobody = Nobody
SPECIFICATION ServicesSpec
INVARIANTS
  ServicesTypeOK
  NobodySleeps
  UploadsAreBounded
  ExtendKeeps
  CopiedBeforeDeleted
  CopiesAreRight
PROPERTIES
  QueueIsChannel
  NoneMeansEmpty
  EveryItemPopped
  ToldAfterStored
  DayGetsMarked
CHECK_DEADLOCK FALSE
