SPECIFICATION Spec
CONSTANTS
  g1 = g1
  Null = Null
  JobKey <- MCJobKey
  Goal = {g1}
  ScheduledAt <- MCScheduledAt
  Occurrence <- MCOccurrence
  JobOptions <- MCJobOptions
  RunOptions <- MCRunOptions
  StatusChanges <- MCStatusChanges
  MaxTime = 1
INVARIANTS
  TypeOK
  ListingExact
  OneJobPerOccurrence
