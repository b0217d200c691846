SPECIFICATION FairSpec
CONSTANTS
  MaxGen = 4
  History <- MCHistory
INVARIANTS
  TypeOK
  StopIsCurrent
  NoOrphan
  BusyIsLive
PROPERTIES
  SupersededSilent
  
