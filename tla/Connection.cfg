SPECIFICATION Spec
CONSTANTS
  Counterparties = {"A", "B"}
  ProxyChain = "P"
  ClientIds = {"toB", "sound", "foreign", "u1", "u2"}
  UpstreamClients = {"u1", "u2"}
  Tracks <- AllTrackA
  MultiV = {}
  Depth <- NoBranches
  ConnectionIds = {"c0", "c1"}
  PortIds = {}
  ChannelIds = {}
  Versions = {{"UNORDERED"}}
  Payloads = {}
  Acks = {}
  Prefixes = {"ibc", "proxy", "other"}
  IBCPrefix = "ibc"
  ProxyPrefix = "proxy"
  MaxHeight = 4
  MaxBlocks = 2
  MaxSequence = 0
  Absent = Absent
  Producers = {"A"}
  OwnConnectionIds <- OnlyAOpens
  OwnChannelIds = {}
  PeerClientIds = {"sound", "foreign"}
  NewClients = {}
  ServicedClients = {}
  HistoricalEntries = 2
  InitLedger <- OneSideLedger
INVARIANTS
  TypeOK
  MirrorSound
  MutualTracking
PROPERTIES
  ConnectionForwardOnly
