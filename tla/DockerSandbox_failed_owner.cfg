SPECIFICATION Spec
CONSTANTS
  None = None
  Session = {s1, s2}
  NoBoot = {}
  Kills = FALSE
  SettleTimesOut = FALSE
INVARIANT ServingSandboxIntact
CHECK_DEADLOCK FALSE
