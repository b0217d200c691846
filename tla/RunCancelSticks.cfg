SPECIFICATION Spec
CONSTANTS
  Tasks = {1, 2}
  MaxIter = 1
  MaxPolls = 2
CHECK_DEADLOCK FALSE
PROPERTY CancelSticks
