----------------------------- MODULE ProxyTypes -----------------------------
(***************************************************************************)
(* Identifiers, commitment paths and stored values shared by the modules   *)
(* of the IBC proxy.  An IBC store is a function from commitment paths to  *)
(* values; a path that holds nothing holds Absent.                         *)
(*                                                                         *)
(* Data is abstracted: identifiers are members of small sets, a packet's   *)
(* payload is a model value, a connection version is the set of channel    *)
(* orderings it supports, and the commitment prefix of a chain (one per    *)
(* chain in every deployment of src/) is folded into the chain.            *)
(***************************************************************************)
EXTENDS Integers, Sequences

CONSTANTS
  Counterparties,   \* the chains other than the proxy: upstream, downstream, other proxies
  ProxyChain,       \* the chain the proxy keeper runs on
  ClientIds,        \* light client identifiers
  UpstreamClients,  \* the identifiers of the proxy chain's own clients (upstreamClientID)
  Tracks,           \* the chain each upstream client verifies
  MultiV,           \* the upstream clients of type xx-multiv
  Depth,            \* the depth of each of them: 0 or 1 further proxies to follow
  ConnectionIds,
  PortIds,
  ChannelIds,
  Versions,         \* the connection versions in use, as sets of orderings
  Payloads,         \* packet contents covered by a packet commitment
  Acks,             \* acknowledgement bytes
  Prefixes,         \* commitment prefixes a proxy client can be created with
  IBCPrefix,        \* the IBC commitment prefix of every chain
  ProxyPrefix,      \* the proxy commitment prefix of the proxy chain
  MaxHeight,        \* bound on the height of every chain
  MaxBlocks,        \* bound on the height of the proxy chain
  MaxSequence,      \* bound on packet sequences
  Absent            \* no value

ASSUME ConstantsAssumption ==
  /\ ProxyChain \notin Counterparties
  /\ UpstreamClients \subseteq ClientIds
  /\ Tracks \in [UpstreamClients -> Counterparties]
  /\ MultiV \subseteq UpstreamClients
  /\ Depth \in [MultiV -> {0, 1}]
  /\ "" \notin ConnectionIds /\ "" \notin ChannelIds
  /\ IBCPrefix \in Prefixes /\ ProxyPrefix \in Prefixes
  /\ MaxHeight \in Nat /\ MaxBlocks \in 1..MaxHeight /\ MaxSequence \in Nat

Orders == {"ORDERED", "UNORDERED"}

ASSUME VersionsAssumption == Versions \subseteq (SUBSET Orders)

Height == 1..MaxHeight
Sequence == 1..MaxSequence

-----------------------------------------------------------------------------
(* Commitment paths (24-host), without the prefixes under which a chain    *)
(* (IBC prefix) or the proxy (proxy prefix, upstream client) keeps them.   *)

ClientPath(id) == <<"clientState", id>>
ConsensusPath(id, h) == <<"consensusState", <<id, h>>>>
ConnectionPath(id) == <<"connection", id>>
ChannelPath(port, chan) == <<"channel", <<port, chan>>>>
CommitmentPath(port, chan, seq) == <<"commitment", <<port, chan, seq>>>>
AckPath(port, chan, seq) == <<"ack", <<port, chan, seq>>>>
ReceiptPath(port, chan, seq) == <<"receipt", <<port, chan, seq>>>>

ClientPaths == {ClientPath(id) : id \in ClientIds}
ConsensusPaths == {ConsensusPath(id, h) : id \in ClientIds, h \in Height}
ConnectionPaths == {ConnectionPath(id) : id \in ConnectionIds}
ChannelPaths == {ChannelPath(port, chan) : port \in PortIds, chan \in ChannelIds}
CommitmentPaths ==
  {CommitmentPath(port, chan, seq) :
      port \in PortIds, chan \in ChannelIds, seq \in Sequence}
AckPaths ==
  {AckPath(port, chan, seq) :
      port \in PortIds, chan \in ChannelIds, seq \in Sequence}
ReceiptPaths ==
  {ReceiptPath(port, chan, seq) :
      port \in PortIds, chan \in ChannelIds, seq \in Sequence}

Path == ClientPaths \cup ConsensusPaths \cup ConnectionPaths
          \cup ChannelPaths \cup CommitmentPaths \cup AckPaths \cup ReceiptPaths

-----------------------------------------------------------------------------
(* Stored values.                                                          *)

\* A Tendermint client of a chain, possibly inside an xx-multiv wrapper.
TMClient ==
  [kind: {"tm"}, multiv: BOOLEAN, chain: Counterparties, latest: Height]

\* An xx-proxy client: a client of the proxy `chain` that verifies what that
\* proxy stores for its client upstreamClientId.
ProxyClient ==
  [kind: {"proxy"}, multiv: BOOLEAN, chain: Counterparties \cup {ProxyChain},
   latest: Height, upstreamClientId: ClientIds,
   ibcPrefix: Prefixes, proxyPrefix: Prefixes]

ClientState == TMClient \cup ProxyClient

\* The sentinel root that an upgrade leaves is the root of no block.
NoBlock == 0

\* The root of block `height` of `chain`, in the encoding of the client kind.
ConsensusState ==
  [kind: {"tm", "proxy"}, chain: Counterparties \cup {ProxyChain},
   height: Height \cup {NoBlock}]

ConnectionEnd ==
  [state: {"INIT", "TRYOPEN", "OPEN"}, clientId: ClientIds,
   counterparty: [clientId: ClientIds, connectionId: ConnectionIds \cup {""}],
   versions: SUBSET Versions]

Channel ==
  [state: {"INIT", "TRYOPEN", "OPEN", "CLOSED"}, ordering: Orders,
   counterparty: [portId: PortIds, channelId: ChannelIds \cup {""}],
   hop: ConnectionIds]

\* channeltypes.CommitPacket covers the data and the timeouts of a packet, not
\* its source and destination.
CommitPacket(packet) == packet.payload

\* channeltypes.CommitAcknowledgement is a hash: never the acknowledgement itself.
CommitAcknowledgement(ack) == [hash |-> ack]

AckCommitments == {CommitAcknowledgement(ack) : ack \in Acks}

\* The receipt of a packet is a single byte.
Receipt == [byte |-> 1]

\* The values that a path can hold.
ValueAt(p) ==
  CASE p[1] = "clientState"    -> ClientState \cup {Absent}
    [] p[1] = "consensusState" -> ConsensusState \cup {Absent}
    [] p[1] = "connection"     -> ConnectionEnd \cup {Absent}
    [] p[1] = "channel"        -> Channel \cup {Absent}
    [] p[1] = "commitment"     -> Payloads \cup {Absent}
    [] p[1] = "ack"            -> AckCommitments \cup {Absent}
    [] p[1] = "receipt"        -> {Receipt, Absent}

Value == ClientState \cup ConsensusState \cup ConnectionEnd \cup Channel
           \cup Payloads \cup AckCommitments \cup {Receipt, Absent}

Store == {s \in [Path -> Value] : \A p \in Path : s[p] \in ValueAt(p)}

EmptyStore == [p \in Path |-> Absent]

ASSUME AbsentAssumption ==
  /\ Absent \notin ClientState /\ Absent \notin ConsensusState
  /\ Absent \notin ConnectionEnd /\ Absent \notin Channel
  /\ Absent \notin Payloads /\ Absent \notin AckCommitments /\ Absent # Receipt
=============================================================================
