SPECIFICATION DiscoverySpec
CONSTANTS
  a = a  b = b  ga = ga  gb = gb  w1 = w1
  Null = Null
  Job <- MCJob
  Goal <- MCGoal
  Worker <- MCWorker
  WaitId = {"submission", "w"}
  Descriptors <- MCDescriptors
  MaxTime = 1
  JobType = {"main"}
  TaskType = {"fetch"}
  Ordinal = {1}
  Request = {}
  CrashConcernThreshold = 1
  LeaseSeconds = 1
  MaxLeases = 1
  Selector <- MCSelector
  Preparations = {}
  Submissions <- MCSubmissions
  Reschedules <- MCReschedules
  Completions = {"success"}
  Cancellable = {b}
  Deletions = {}
  CandidateRequests <- MCCandidates
  FailRequests = {}
  Rank <- MCRank
  GoalQueries <- MCGoalQueries
  WaitQueries <- MCWaitQueries
  PageSize = 1
INVARIANTS
  BlockersFound
  BlockingAgrees
  CountsAddUp
  AvailableIsAcquirable
  DiscoveryExact
PROPERTIES
  TooLate
