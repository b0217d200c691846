SPECIFICATION Spec
CONSTANTS
  MaxGen = 4
  History <- MCHistory
PROPERTY StopReaches
