SPECIFICATION Spec
CONSTANTS
  j1 = j1  g1 = g1  w1 = w1  w2 = w2
  Null = Null
  Job <- MCJob
  Goal <- MCGoal
  Worker <- MCWorker
  WaitId = {"submission"}
  Descriptors = {}
  MaxTime = 3
  JobType = {"main", "resume"}
  TaskType = {"fetch"}
  Ordinal = {1}
  Request = {}
  CrashConcernThreshold = 1
  LeaseSeconds = 2
  MaxLeases = 2
  Selector <- MCSelector
  Preparations = {}
  Submissions <- MCSubmissions
  Reschedules <- MCReschedules
  Completions = {"success"}
  Cancellable = {j1}
  Deletions = {{j1}}
  CandidateRequests = {}
  FailRequests = {}
INVARIANTS
  TypeOK
  RoutesValid
PROPERTIES
  LeaseNeverRevives
  LeaseExclusive
  RescheduleFenced
