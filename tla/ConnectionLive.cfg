SPECIFICATION RestartSpec
CONSTANTS
  Counterparties = {"A", "B"}
  ProxyChain = "P"
  ClientIds = {"toB", "sound", "u1"}
  UpstreamClients = {"u1"}
  Tracks <- AllTrackA
  MultiV = {}
  Depth <- NoBranches
  ConnectionIds = {"c0", "c1"}
  PortIds = {}
  ChannelIds = {}
  Versions = {{"ORDERED", "UNORDERED"}, {"UNORDERED"}}
  Payloads = {}
  Acks = {}
  Prefixes = {"ibc", "proxy", "other"}
  IBCPrefix = "ibc"
  ProxyPrefix = "proxy"
  MaxHeight = 4
  MaxBlocks = 2
  MaxRestarts = 1
  MaxSequence = 0
  Absent = Absent
  Producers = {"A", "B"}
  OwnConnectionIds <- OnlyAOpens
  OwnChannelIds = {}
  PeerClientIds = {"sound"}
  NewClients = {}
  ServicedClients = {}
  HistoricalEntries = 10
  InitLedger <- BegunLedger
INVARIANTS
  OpenedStaysLost
PROPERTIES
  ConnectionConfirmed
  ConnectionRecovered
