SPECIFICATION FairSpec
CONSTANTS
  Tasks = {1, 2}
  MaxIter = 1
  MaxPolls = 1
INVARIANT TypeOK
INVARIANT PromiseKept
INVARIANT CancelReaches
INVARIANT CompleteMeansAnswered
INVARIANT AbandonedNeverCompletes
PROPERTY NoStageAfterCancel
PROPERTY RunEnds
CHECK_DEADLOCK FALSE
