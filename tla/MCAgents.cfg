SPECIFICATION AgentsFairSpec
CONSTANTS
  Options <- MCOptions
  MaxTurns = 2
  MaxRepairs = 1
  KeepRecent = 2
  Reserve = 1
  MaxCalls = 2
  Parts = {"run", "computer", "crew", "server"}
  Call = {"c1"}
  Computers <- MCComputers
  MaxAttempts = 2
  Shapes <- MCShapes
  CrewRepairs = 2
  MaxLives = 3
  Turns = 2
  NameOf <- MCNameOf
  Request <- MCRequest
  KindOf <- MCKindOf
  MaxDeltas = 2
  Off = Off
INVARIANTS
  RunIsSound
  NothingUnjudged
  
  ServerKeepsWhole
PROPERTIES
  RecordedNeverRerun
  RunsAndCallsEnd
CHECK_DEADLOCK FALSE
