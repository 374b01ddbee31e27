SPECIFICATION Spec
CONSTANTS
  c1 = c1
  Null = Null
  NumSchedules = 2
  Client = {c1}
  ScheduleSpec = {"daily", "hourly"}
  Upserts <- MCUpserts
  Changes <- MCChanges
  Filter = {"ACTIVE", "PAUSED"}
  PageSize = 1
  MaxGeneration = 3
  MaxTime = 1
INVARIANTS
  TypeOK
  ReplacesWhatWasRead
  ListingExact
PROPERTIES
  ArchivedForGood
