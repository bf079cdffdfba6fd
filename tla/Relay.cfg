SPECIFICATION RelaySpec
CONSTANTS
  Counterparties = {"A", "B"}
  ProxyChain = "P"
  ClientIds = {"toB", "toP", "u1"}
  UpstreamClients = {"u1"}
  Tracks <- TracksA
  MultiV = {}
  Depth <- NoBranches
  ConnectionIds = {"c0", "c1"}
  PortIds = {"transfer"}
  ChannelIds = {"ch0", "ch1"}
  Versions = {{"UNORDERED"}}
  pa = pa
  pb = pb
  Payloads = {pa, pb}
  Acks = {ok}
  Prefixes = {"ibc", "proxy"}
  IBCPrefix = "ibc"
  ProxyPrefix = "proxy"
  MaxHeight = 5
  MaxBlocks = 3
  MaxSequence = 1
  Absent = Absent
  Producers = {"A", "B"}
  OwnConnectionIds <- NoneOpens
  OwnChannelIds = {}
  PeerClientIds = {}
  NewClients = {}
  ServicedClients = {}
  HistoricalEntries = 10
  InitLedger <- OpenLedger
  UpstreamChain = "A"
  DownstreamChain = "B"
  Timeout <- ForwardTimeout
  SenderPayloads <- Sends
  MaxPackets = 2
  InitMirror <- OpenMirror
CHECK_DEADLOCK FALSE
PROPERTIES
  ForwardDelivery
  BackwardDelivery
