SPECIFICATION Spec
CONSTANTS
  a = a  b = b  c = c  ga = ga  gb = gb  w1 = w1  r1 = r1
  Null = Null
  Job <- MCJob
  Goal <- MCGoal
  Worker <- MCWorker
  WaitId = {"submission"}
  Descriptors = {}
  MaxTime = 1
  JobType = {"main"}
  TaskType = {}
  Ordinal = {}
  Request = {r1}
  CrashConcernThreshold = 2
  LeaseSeconds = 1
  MaxLeases = 1
  Selector <- MCSelector
  Preparations <- MCPreparations
  Submissions <- MCSubmissions
  Reschedules <- MCReschedules
  Completions = {"success", "failed_app"}
  Cancellable = {c}
  Deletions = {{a}, {a, b}}
  CandidateRequests <- MCCandidates
  FailRequests = {gb}
INVARIANTS
  OneHome
  NothingWaitsForFinished
  PreparationBinding
PROPERTIES
  ImplementsJobGoals
