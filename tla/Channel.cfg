SPECIFICATION Spec
CONSTANTS
  Counterparties = {"A", "B"}
  ProxyChain = "P"
  ClientIds = {"toB", "sound", "u1"}
  UpstreamClients = {"u1"}
  Tracks <- AllTrackA
  MultiV = {}
  Depth <- NoBranches
  ConnectionIds = {"c0", "c1"}
  PortIds = {"transfer"}
  ChannelIds = {"ch0", "ch1"}
  Versions = {{"UNORDERED"}}
  Payloads = {}
  Acks = {}
  Prefixes = {"ibc", "proxy"}
  IBCPrefix = "ibc"
  ProxyPrefix = "proxy"
  MaxHeight = 6
  MaxBlocks = 2
  MaxSequence = 0
  Absent = Absent
  Producers = {"A"}
  OwnConnectionIds <- NoneOpens
  OwnChannelIds = {"ch0"}
  PeerClientIds = {}
  NewClients = {}
  ServicedClients = {}
  HistoricalEntries = 10
  InitLedger <- OpenedLedger
INVARIANTS
  ChannelBehindConnection
  OpenEndsAgree
PROPERTIES
  ImplementsMirror
