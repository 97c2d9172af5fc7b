SPECIFICATION ServicesFairSpec
CONSTANTS
  Conn = {c1, c2}
  Topic = {t1}
  Handler = {h1, h2}
  Ack = Ack
  Capacity = 1
  WireSize = 1
  MaxRequests = 3
  Call = {"c1", "c2"}
  MaxConns <- MCMaxConns
  Kinds <- MCKinds
  LongLines = TRUE
  App = {"g", "a"}
  Governor = "g"
  Exempt = {}
  Callers <- MCCallers
  TcpPort <- MCTcpPort
  HttpApps = {"a"}
  HttpPort = 8080
  Asking = {"r1"}
  Claims = {"host"}
  PoolConn = {1}
  Req = {"r1"}
  Asks <- MCAsks
  Policies <- MCPolicies
  ProxyPort = {"80", "443"}
  Literal <- MCLiteral
  Address <- MCAddress
  None = None
  Off = Off
INVARIANTS
  NoSenderLeft
  NoEcho
  BusDelivers
  EveryCallAccounted
  WireAgreesWithRecord
  RuntimeIsJudged
  
PROPERTIES
  NothingAfterSettling
  
CHECK_DEADLOCK FALSE
