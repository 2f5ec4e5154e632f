\* Every program on its small instance.
CONSTANTS
  Programs = {"task", "build", "test", "block", "mapper", "coverage", "tuid", "fill", "auto", "oom", "fleet", "perf", "cluster"}
  Prefixed = {"taskcluster", "task"}
  Mozharness = "mozharness"
  HarnessSteps = {"h", "i"}
  Stamps = {1, 2, 3}
  MaxHead = 1
  MaxLines = 4
  BuilderSteps = {"b"}
  OldHarnessSteps = {"h"}
  LineTimes = {95, 96, 99}
  StartTime = 96
  Hour = 4
  Day = 96
  BuilderError = 1
  HarnessError = 1
  MaxRead = 5
  Unset = Unset
  Tests = {"a", "b"}
  SuiteCrash = "crash"
  Subtests = {"s", "t"}
  Workers = {"pulse2es", "joblogs", "buildbot", "perfherder", "tcPerfherder", "testResults", "tcTestResult", "firefoxFiles", "coverage"}
  BlockLines = 2
  MaxRecords = 2
  MaxTries = 2
  SourceIds = {0, 1}
  Files <- Tree
  Asked <- Questions
  Refused <- NotFound
  Excluded = {"m"}
  SuiteWords = {"d"}
  MaxFinds = 2
  Sources = {"f", "g"}
  Firefox = {"f"}
  CodeLines = {1, 2}
  LineLimit = 1
  BatchLimit = 2
  MaxInput = 3
  MaxArtifacts = 1
  Callers = {"u", "v"}
  TuidFiles = {"f", "g"}
  MaxBadRequests = 2
  Recorded = TRUE
  MaxLookups = 3
  Base = 2
  Numbers = {2, 7, 8, 9, 12, 22}
  MaxDigits = 5
  Low = 7
  Limit = 4
  Window = 12
  RoundedDown = {4}
  ObjectIds = {1, 11, 12, 20}
  MaxLength = 2
  BadKeys = {12}
  Retired = {20}
  MaxSize = 2
  PageSize = 2
  MaxBad = 0
  MaxRuns = 2
  Nodes = {"n"}
  NumRestarts = 2
  MaxTime = 4
  MaxLog = 3
  OldGit = TRUE
  MaxRelease = 2
  MaxVisits = 3
  EtlThreads = {"t", "u"}
  Reader = "t"
  NoName = NoName
  ChunkSize = 2
  MaxPerfLines = 3
  MaxBlocks = 2
  TcTasks = {"x"}
  TcKinds = {"started", "resolved"}
  Readers = {"r", "s"}
  TcLines = 2
  MaxChanges = 1
  MaxReads = 2
SPECIFICATION BatchSpec
INVARIANTS
  BatchTypeOK
  OrderedLogsAreTaken
  NoTimeLost
  ClocksAreRight
  TestRowsAreTrue
  BlocksEndRight
  RecordsKeepApart
  SourceIsFound
  
  BackfillIsComplete
  HolesAreFilledOnce
  OneRestartPerOom
  LeftAloneIsCurrent
  SuitesStayTheSame
  TaskRecordsAgree
PROPERTY CutsEnd
CHECK_DEADLOCK FALSE
