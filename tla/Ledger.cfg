SPECIFICATION FairSpec
CONSTANTS
  Events = {charged, captured}
  NoEvent = NoEvent
  Workers = {w1, w2, w3}
  MaxSends = 3
  Impatient = TRUE
  Faults = {"code", "database", "crash"}
INVARIANT TypeOK
INVARIANT Owned
INVARIANT NothingForgotten
INVARIANT HalfDoneIsRedone
PROPERTY AppliesOnce
PROPERTY RetriesWork
CHECK_DEADLOCK FALSE
