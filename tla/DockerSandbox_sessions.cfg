\* Two sessions that start, boot, attach, fail, end and are killed; liveness,
\* so no symmetry.
SPECIFICATION FairSpec
CONSTANTS
  None = None
  Session = {s1, s2}
  NoBoot = {}
  Kills = TRUE
  SettleTimesOut = FALSE
INVARIANT SandboxIsClean
PROPERTY EverySessionSettles
CHECK_DEADLOCK FALSE
