SPECIFICATION LightClientsSpec
CONSTANTS
  Clients = {"m", "p", "s"}
  Multiv = {"m"}
  Proxied = {"p"}
  TrustingPeriod = 2
  UpgradeHeight = 2
  MaxTime = 5
  None = None
INVARIANTS
  LightClientsTypeOK
  LatestUsable
PROPERTIES
  ConsensusImmutable
  HaltedVouchesNothingNew
  WrapperKept
CHECK_DEADLOCK FALSE
