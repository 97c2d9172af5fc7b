SPECIFICATION HostSpec
CONSTANTS
  Proc = {p1, p2, p3}
  Reader = {}
  MaxFiles = 2
  MaxLines = 2
  MaxRecords = 8
  MaxTorn = 1
  Inode = {1, 2, 3, 4, 5, 6, 7}
  Stalls = {}
  Stalling = {s1, s2}
  Verifier = {"r1"}
  Roomy = 9
  StallRecords = 4
  StallTorn = 1
  StallsAt = {"head", "head1", "rotate", "assert"}
  Session = {s1, s2, s3}
  NoBoot = {s3}
  Kills = TRUE
  SettleTimesOut = FALSE
  App = {"a", "b"}
  Name = {"FLAG", "API_KEY", "MODE"}
  LooksSecret = {"API_KEY"}
  Manifests <- MCManifests
  Boots <- MCBoots
  MaxCommands = 4
  Dir = {"notes", "copy"}
  Repo <- MCRepo
  Workspace <- MCWorkspace
  Sources = {1, 2}
  MaxBuilds <- MCMaxBuilds
  Kernel = {"full", "older"}
  KernelRelease <- MCKernelRelease
  ContainerRuntime = {"runc"}
  Answer <- MCAnswer
  Governed = {"notes"}
  NetworkApp = {"notes"}
  Booting = {s1, s2}
  MaxStarts = 4
  Version = {1, 2, 3}
  Broken = {3}
  Runtime = "python"
  KeepShares = 1
  MaxEdits = 2
  MaxKills = 1
  None = None
  Off = Off
SYMMETRY Symmetric
INVARIANTS
  
  OneCleanVm
  BootIsClean
  BuildsAreKept
  EvidenceIsMeasured
  
PROPERTY IsOneTrail
CHECK_DEADLOCK FALSE
