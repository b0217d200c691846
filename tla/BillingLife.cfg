SPECIFICATION FairSpec
CONSTANTS
  plus = plus
  pro = pro
  annual = annual
  addon = addon
  spare = spare
  Subs = {pro}
  Plan <- OnePlan
  NoSub = NoSub
  RewardAt = 2
  Period = 1
  Hold = 2
  MaxNow = 6
  MaxPaid = 3
  MaxMail = 3
  Prompt = TRUE
  Faults = {"outage", "api", "database"}
PROPERTY PaidTierKept
PROPERTY EndedThenFree
PROPERTY PauseEnds
CHECK_DEADLOCK FALSE
