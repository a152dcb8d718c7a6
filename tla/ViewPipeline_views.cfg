SPECIFICATION PipelineSpec
CONSTANTS
  d1 = d1
  d2 = d2
  w1 = w1
  w2 = w2
  a1 = a1
  rollup = rollup
  Dests = {d1, d2}
  Writers = {w1, w2}
  Askers = {a1}
  Rollup = rollup
  Null = Null
  None = None
  Chatter = Chatter
  PasswordKeys = {"password", "passwords", "new_password"}
  PasswordTexts = {"password=s1"}
  Passwords = {"s1", "s2", "password=s1"}
  MaxLoggedBody = 7
  MaxDepth = 3
  MaxMapEntries = 6
  MaxLines = 2
  ChunkSize = 1
  CacheTTL = 1
  MaxTime = 2
  MaxFaults = 1
  Requests <- MCRequests
  Detail <- MCDetail
  Document <- MCDocument
  Subject <- MCSubject
  Tracked <- MCEntries
  Lines <- MCLines
  Ranges <- MCRanges
  Duration <- MCDuration
  Workloads <- MCWorkloads
INVARIANTS PipelineTypeOK ClosedForGood NoDuplicates RangesNested NeverOvercounted PasswordsStayOut
PROPERTIES WriteReturns Reconnects CountedInTheEnd
CHECK_DEADLOCK FALSE
