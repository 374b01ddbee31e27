SPECIFICATION FairSpec
CONSTANTS
  a = a  b = b  ga = ga  gb = gb  w1 = w1  w2 = w2
  Null = Null
  Job <- MCJob
  Goal <- MCGoal
  Worker <- MCWorker
  WaitId = {"submission", "w"}
  Descriptors <- MCDescriptors
  MaxTime = 1
  JobType = {"main", "other"}
  TaskType = {}
  Ordinal = {}
  Request = {}
  CrashConcernThreshold = 2
  LeaseSeconds = 1
  MaxLeases = 2
  Selector <- MCSelector
  Preparations = {}
  Submissions <- MCSubmissions
  Reschedules <- MCReschedules
  Completions = {}
  Cancellable = {}
  Deletions = {}
  CandidateRequests = {}
  FailRequests = {}
PROPERTIES
  TimedWaitEnds
  ReadyIsLeased
