SPECIFICATION VmFairSpec
CONSTANTS
  Shares <- MCShares
  Configs <- MCConfigs
  Reader = {r1}
  MaxLines <- MCMaxLines
  Installer = {"a", "b"}
  Release = {1, 2}
  CliOf <- MCCliOf
  KrunVersion <- MCKrunVersion
  Size = 2
  Attempts = 2
  Found <- MCFound
  Command <- MCCommand
  MaxKills = 1
  NoFile = NoFile
  Unused = Unused
INVARIANT GuestIsFaithful
PROPERTIES
  NothingUnverified
  
CHECK_DEADLOCK FALSE
