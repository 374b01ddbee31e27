SPECIFICATION Spec
CONSTANTS
  a = a  b = b  c = c  ga = ga  gb = gb  w1 = w1
  Null = Null
  Job <- MCJob
  Goal <- MCGoal
  Worker <- MCWorker
  WaitId = {"submission", "w", "x"}
  Descriptors <- MCDescriptors
  MaxTime = 1
  JobType = {"main"}
  TaskType = {}
  Ordinal = {}
  Request = {}
  CrashConcernThreshold = 2
  LeaseSeconds = 1
  MaxLeases = 0
  Selector <- MCSelector
  Preparations <- MCPreparations
  Submissions <- MCSubmissions
  Reschedules <- MCReschedules
  Completions = {"success"}
  Cancellable = {b}
  Deletions = {{a, b}}
  CandidateRequests <- MCCandidates
  FailRequests = {gb}
INVARIANTS
  TargetsExact
  NoLostWakeup
  Acyclic
  GoalOutcomeJustified
  PendingWaitCurrent
  WaitOutcomeJustified
PROPERTIES
  OutcomesFinal
