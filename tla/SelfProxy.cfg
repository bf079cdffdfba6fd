SPECIFICATION Spec
CONSTANTS
  Counterparties = {"A", "B"}
  ProxyChain = "P"
  ClientIds = {"viaP", "toB", "sound", "u1", "w"}
  UpstreamClients = {"u1", "w"}
  Tracks <- SelfTracks
  MultiV = {}
  Depth <- NoBranches
  ConnectionIds = {"c0"}
  PortIds = {}
  ChannelIds = {}
  Versions = {{"UNORDERED"}}
  Payloads = {}
  Acks = {}
  Prefixes = {"ibc", "proxy", "other"}
  IBCPrefix = "ibc"
  ProxyPrefix = "proxy"
  MaxHeight = 4
  MaxBlocks = 2
  MaxSequence = 0
  Absent = Absent
  Producers = {"A"}
  OwnConnectionIds <- OnlyAOpens
  OwnChannelIds = {}
  PeerClientIds = {"sound", "viaP"}
  NewClients <- LaterClient
  ServicedClients = {"toB"}
  HistoricalEntries = 10
  InitLedger <- SelfLedger
INVARIANTS
  MutualTracking
