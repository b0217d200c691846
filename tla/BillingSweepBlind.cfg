SPECIFICATION Spec
CONSTANTS
  plus = plus
  pro = pro
  annual = annual
  addon = addon
  spare = spare
  Subs = {plus, pro}
  Plan <- TwoPlans
  NoSub = NoSub
  RewardAt = 2
  Period = 1
  Hold = 1
  MaxNow = 3
  MaxPaid = 2
  MaxMail = 2
  Prompt = TRUE
  Faults = {}
INVARIANT SweepCovers
CHECK_DEADLOCK FALSE
