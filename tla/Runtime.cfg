SPECIFICATION RuntimeSpec
CONSTANTS
  j1 = j1  j2 = j2  g1 = g1  g2 = g2  w1 = w1
  Null = Null
  Job = {j1, j2}
  Goal = {g1, g2}
  Worker = {w1}
  WaitId = {"submission", "w"}
  Descriptors <- MCDescriptors
  MaxTime = 2
  JobType = {"main", "resume"}
  TaskType = {"fetch"}
  Ordinal = {1}
  Request = {}
  CrashConcernThreshold = 2
  LeaseSeconds = 2
  MaxLeases = 2
  Selector <- MCSelector
  Preparations = {}
  Submissions <- MCSubmissions
  Reschedules <- MCReschedules
  Completions = {"success"}
  Cancellable = {j1}
  Deletions = {{j1}}
  CandidateRequests = {}
  FailRequests = {}
  Limits = {2}
  Followed = {j1}
  RuntimeJobs = {j1}
  Duration <- MCDuration
  Millisecond = 2
  MaxInt64 = 9
INVARIANTS
  LostIsLost
  AnswerHolds
PROPERTIES
  DroppedLeaseRunsOut
