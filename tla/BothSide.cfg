SPECIFICATION Spec
CONSTANTS
  Counterparties = {"A", "B", "D", "E"}
  ProxyChain = "P"
  ClientIds = {"viaD", "viaE", "dB", "dE", "eB", "sound", "other", "u1", "u2"}
  UpstreamClients = {"u1", "u2"}
  Tracks <- AllTrackA
  MultiV = {"u1", "u2"}
  Depth <- OneBranch
  ConnectionIds = {"c0"}
  PortIds = {}
  ChannelIds = {}
  Versions = {{"UNORDERED"}}
  Payloads = {}
  Acks = {}
  Prefixes = {"ibc", "proxy", "other"}
  IBCPrefix = "ibc"
  ProxyPrefix = "proxy"
  MaxHeight = 3
  MaxBlocks = 1
  MaxSequence = 0
  Absent = Absent
  Producers = {"A"}
  OwnConnectionIds <- OnlyAOpens
  OwnChannelIds = {}
  PeerClientIds = {"sound", "other"}
  NewClients = {}
  ServicedClients = {"viaD"}
  HistoricalEntries = 10
  InitLedger <- BothSideLedger
INVARIANTS
  MirrorSound
  MutualTracking
PROPERTIES
  ClientMirrorStable
