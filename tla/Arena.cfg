SPECIFICATION FairSpec
CONSTANTS
  MaxRounds = 2
  OldChats <- MCOldChats
  Remembered <- MCRemembered
  Picks <- MCPicks
INVARIANTS
  TypeOK
  SpinnerIsLive
  NoLeakedTimer
  OneChat
PROPERTIES
  NoLateAnswer
  RoundEnds
