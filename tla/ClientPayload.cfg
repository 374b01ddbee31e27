SPECIFICATION Spec
CONSTANTS
  w1 = w1  w2 = w2
  Null = Null
  Worker = {w1, w2}
  Key = {"a", "b"}
  Documents <- MCDocuments
  Size <- MCSize
  Merge <- MCMerge
  Initial <- MCInitial
  Updates <- MCUpdates
  MaxSize = 6
  MaxRevision = 3
  MaxLeases = 3
INVARIANTS
  TypeOK
  UpdateReplacesWhatWasRead
  PatchExact
CHECK_DEADLOCK FALSE
