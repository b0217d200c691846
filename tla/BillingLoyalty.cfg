SPECIFICATION Spec
CONSTANTS
  plus = plus
  pro = pro
  annual = annual
  addon = addon
  spare = spare
  Subs = {pro}
  Plan <- OnePlan
  NoSub = NoSub
  RewardAt = 2
  Period = 1
  Hold = 1
  MaxNow = 3
  MaxPaid = 3
  MaxMail = 2
  Prompt = FALSE
  Faults = {"again", "lost", "api", "outage", "database", "replay"}
INVARIANT Consistent
INVARIANT RewardEarned
PROPERTY NoChargeAfterCancel
PROPERTY AccruesPerCharge
CHECK_DEADLOCK FALSE
