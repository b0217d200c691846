SPECIFICATION Spec
CONSTANTS
  plus = plus
  pro = pro
  annual = annual
  addon = addon
  spare = spare
  Subs = {plus, annual, addon}
  Plan <- ThreePlans
  NoSub = NoSub
  RewardAt = 1
  Period = 1
  Hold = 1
  MaxNow = 2
  MaxPaid = 1
  MaxMail = 0
  Prompt = FALSE
  Faults = {"again", "api"}
INVARIANT TierBacked
INVARIANT AddonBacked
INVARIANT NoOrphanAddon
CHECK_DEADLOCK FALSE
