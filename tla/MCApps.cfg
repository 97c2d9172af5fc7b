SPECIFICATION AppsSpec
CONSTANTS
  Req = {"r1", "r2"}
  Asks <- MCAsks
  Policies <- MCPolicies
  Port = {"80", "443", "5432"}
  Literal <- MCLiteral
  Address <- MCAddress
  Asking = {"r1"}
  Paths <- MCPaths
  Grants <- MCGrants
  Dialer = {TRUE, FALSE}
  MaxChunks = 4
  App = {"a", "b"}
  Dir <- MCDir
  Package <- MCPackage
  Linked <- MCLinked
  Target <- MCTarget
  HasPackageJson <- MCHasPackageJson
  HasBerthYml <- MCHasBerthYml
  HasWorkspaceYaml <- MCHasWorkspaceYaml
  Declarations <- MCDeclarations
  Environment <- MCEnvironment
  Proc = {"p1", "p2", "p3"}
  Host <- MCWhere
  MaxUpdates = 3
  MaxDeaths = 2
  Call = {"c1", "c2"}
  MaxLines = 1
  MaxPane = 9
  MaxEnds = 1
  Request = {"r1", "r2"}
  Url <- MCUrl
  Pattern <- MCPattern
  Loopback = {"localhost"}
  HasHeaders = {"api", "localhost"}
  Proxied = TRUE
  MaxRedirects = 2
  MaxBytes = 2
  MaxChars = 1
  Chunk = {1, 2}
  RemoteHost = {"github", "gitlab", "other"}
  Declared = {"github", "gitlab"}
  MaxCommits = 2
  Cmd = {1, 2, 3}
  Instance = {1, 2}
  MaxCount = 2
  Together = FALSE
  Publishing = {"r1", "r2", "r3"}
  Publisher = {"p", "q"}
  Version = {"v1", "v2"}
  Container = {"c", "d"}
  Name = {"m", "n"}
  MaxSeq = 4
  None = None
  Off = Off
INVARIANTS
  OnlyDeclaredIsReached
  StreamsKeepOrder
  AppsKeptApart
  NoNoteLost
  
  
  NamesKeepTheirMeaning
PROPERTY StepsDoWhatTheySay
CHECK_DEADLOCK FALSE
