CONSTANTS
  t1 = t1
  t2 = t2
  a1 = a1
  a2 = a2
  b1 = b1
  Tabs = {t1, t2}
  Calls = {a1, a2, b1}
  TabOf <- MCTabOf
  Uses <- MCUses
  MaxPairs = 3
SPECIFICATION Spec
INVARIANTS TypeOK NoStrandedSession
PROPERTIES NeverReplays WaitersWake
