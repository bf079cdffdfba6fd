-------------------------------- MODULE Relay -------------------------------
(***************************************************************************)
(* Packets end to end: an upstream, the proxy and a downstream on an open  *)
(* channel, in the asymmetric configuration of the README.  The upstream   *)
(* verifies the downstream directly; the downstream verifies the upstream  *)
(* with a proxy client, which reads what the proxy keeper mirrored.        *)
(*                                                                         *)
(* Unlike in Chains, the packet handlers of ibc-go (external to src/)      *)
(* demand their proofs, from the chain's own light client.  Every chain    *)
(* has one channel end, and packets are unordered.                         *)
(***************************************************************************)
EXTENDS ProxyKeeper, FiniteSets

CONSTANTS
  UpstreamChain,   \* verified by the proxy
  DownstreamChain, \* verifies the proxy
  Timeout,        \* payload -> the height at which a packet times out, 0 for never
  SenderPayloads, \* chain -> the payloads it sends
  MaxPackets,     \* bound on the packets sent by all chains together
  InitMirror      \* the mirror of the open connection and channel

VARIABLES
  sent,        \* chain -> sequence -> the payload it sent
  delivered,   \* chain -> sequence -> the payload its application was given
  resolved     \* chain -> sequence -> what its application was told of its packet

appVars == <<sent, delivered, resolved>>
relayVars == <<vars, appVars>>

ASSUME RelayAssumption ==
  /\ Producers = {UpstreamChain, DownstreamChain}
  /\ Timeout \in [Payloads -> Nat]
  /\ SenderPayloads \in [Producers -> SUBSET Payloads]
  /\ MaxPackets \in Nat
  /\ InitMirror \in [UpstreamClients -> Store]

\* The chain at the other end of chain c's channel.
Peer(c) == IF c = UpstreamChain THEN DownstreamChain ELSE UpstreamChain

\* The block of chain c with which the histories begin.
Opening(c) == InitLedger[c][1]

\* Chain c has a channel end with these identifiers.
IsEnd(c, port, chan) == Opening(c)[ChannelPath(port, chan)] # Absent

\* The client cs of chain c verifies what c is connected to: the upstream's client reads
\* the downstream's own store, the downstream's the mirror of the upstream on the proxy.
FollowsPeer(c, cs) ==
  /\ cs # Absent
  /\ c = UpstreamChain => cs.kind = "tm" /\ cs.chain = DownstreamChain
  /\ c = DownstreamChain =>
       /\ cs.kind = "proxy" /\ cs.chain = ProxyChain
       /\ cs.upstreamClientId \in UpstreamClients
       /\ Tracks[cs.upstreamClientId] = UpstreamChain

\* The handshakes are over and no packet was sent: each of the two chains has one channel
\* end, which is open and names the other's, over a connection whose client follows the
\* other chain; every consensus state is stored under the height it is of, which its chain
\* has reached, and no client was substituted; the proxy mirrors this block.
ASSUME OpeningAssumption ==
  /\ UpstreamChain # DownstreamChain
  /\ \A c \in Counterparties : Len(InitLedger[c]) = 1
  /\ \A c \in Producers, port, x \in PortIds, chan, y \in ChannelIds :
       IsEnd(c, port, chan) /\ IsEnd(c, x, y) => port = x /\ chan = y
  /\ \A c \in Producers, port \in PortIds, chan \in ChannelIds :
       LET end == Opening(c)[ChannelPath(port, chan)]
           conn == Opening(c)[ConnectionPath(end.hop)] IN
       IsEnd(c, port, chan) =>
         /\ end.state = "OPEN"
         /\ end.counterparty.channelId \in ChannelIds
         /\ IsEnd(Peer(c), end.counterparty.portId, end.counterparty.channelId)
         /\ conn # Absent
         /\ FollowsPeer(c, Opening(c)[ClientPath(conn.clientId)])
  /\ \A c \in Producers, id \in ClientIds, h \in Height :
       LET cons == Opening(c)[ConsensusPath(id, h)] IN
       cons # Absent =>
         h = 1 /\ cons.height = 1 /\ cons.kind = Opening(c)[ClientPath(id)].kind
  /\ \A c \in Producers, port \in PortIds, chan \in ChannelIds, seq \in Sequence :
       /\ Opening(c)[CommitmentPath(port, chan, seq)] = Absent
       /\ Opening(c)[AckPath(port, chan, seq)] = Absent
       /\ Opening(c)[ReceiptPath(port, chan, seq)] = Absent
  /\ \A u \in UpstreamClients, p \in ChannelPaths \cup CommitmentPaths \cup AckPaths :
       InitMirror[u][p] \in {Absent, Opening(Tracks[u])[p]}

-----------------------------------------------------------------------------
(* The light clients of the two chains.                                    *)

\* What client id of chain c reads at path p and height h: the counterparty's own store,
\* or, for a proxy client, the mirror below its upstream client in a block of the proxy.
ClientReads(c, id, h, p) ==
  DownstreamValue(Latest(c)[ClientPath(id)], Latest(c)[ConsensusPath(id, h)], p)

Knows(c, id, h) == Latest(c)[ConsensusPath(id, h)] # Absent

VerifyPresence(c, id, h, p, v) == Knows(c, id, h) /\ v # Absent /\ ClientReads(c, id, h, p) = v

\* VerifyPacketReceiptAbsence.
VerifyAbsence(c, id, h, p) == Knows(c, id, h) /\ ClientReads(c, id, h, p) = Absent

-----------------------------------------------------------------------------
(* The packet handlers of the two chains.                                  *)

EndOf(c, port, chan) == Latest(c)[ChannelPath(port, chan)]
ClientOf(c, end) == Latest(c)[ConnectionPath(end.hop)].clientId

\* A block of chain c that leaves the given store.
ChainBlock(c, store) ==
  /\ c \in Producers
  /\ Len(ledger[c]) < MaxHeight
  /\ ledger' = [ledger EXCEPT ![c] = Append(@, store)]
  /\ UNCHANGED <<blocks, consensus, proxy, headers>>

PacketsSent ==
  Cardinality({packet \in Producers \X Sequence : sent[packet[1]][packet[2]] # Absent})

\* SendPacket: refused when the client already knows a height at which the packet would
\* have timed out.
SendPacket(c, port, chan, seq, payload) ==
  LET end == EndOf(c, port, chan) IN
  /\ end # Absent
  /\ end.state # "CLOSED"
  /\ PacketsSent < MaxPackets
  /\ \A s \in Sequence : (s < seq) <=> (sent[c][s] # Absent)
  /\ \/ Timeout[payload] = 0
     \/ Latest(c)[ClientPath(ClientOf(c, end))].latest < Timeout[payload]
  /\ ChainBlock(c, [Latest(c) EXCEPT ![CommitmentPath(port, chan, seq)] = payload])
  /\ sent' = [sent EXCEPT ![c][seq] = payload]
  /\ UNCHANGED <<delivered, resolved>>

\* RecvPacket, with an application that acknowledges at once: the block must be below
\* the packet's timeout, and the packet not yet received.
ChainRecvPacket(c, port, chan, seq, payload, h) ==
  LET end == EndOf(c, port, chan) IN
  /\ end # Absent
  /\ end.state = "OPEN"
  /\ Timeout[payload] = 0 \/ Len(ledger[c]) + 1 < Timeout[payload]
  /\ VerifyPresence(c, ClientOf(c, end), h,
       CommitmentPath(end.counterparty.portId, end.counterparty.channelId, seq), payload)
  /\ Latest(c)[ReceiptPath(port, chan, seq)] = Absent
  /\ \E ack \in Acks :
       ChainBlock(c, [Latest(c) EXCEPT
         ![ReceiptPath(port, chan, seq)] = Receipt,
         ![AckPath(port, chan, seq)] = CommitAcknowledgement(ack)])
  /\ delivered' = [delivered EXCEPT ![c][seq] = payload]
  /\ UNCHANGED <<sent, resolved>>

\* The sender deletes its commitment and tells its application.
Resolve(c, port, chan, seq, result) ==
  /\ ChainBlock(c, [Latest(c) EXCEPT ![CommitmentPath(port, chan, seq)] = Absent])
  /\ resolved' = [resolved EXCEPT ![c][seq] = result]
  /\ UNCHANGED <<sent, delivered>>

\* AcknowledgePacket.
ChainAcknowledgePacket(c, port, chan, seq, ack, h) ==
  LET end == EndOf(c, port, chan) IN
  /\ end # Absent
  /\ end.state = "OPEN"
  /\ Latest(c)[CommitmentPath(port, chan, seq)] # Absent
  /\ VerifyPresence(c, ClientOf(c, end), h,
       AckPath(end.counterparty.portId, end.counterparty.channelId, seq),
       CommitAcknowledgement(ack))
  /\ Resolve(c, port, chan, seq, "acknowledged")

\* TimeoutPacket: the height of the proof has reached the timeout, and the receipt is
\* absent there.
ChainTimeoutPacket(c, port, chan, seq, h) ==
  LET end == EndOf(c, port, chan)
      payload == Latest(c)[CommitmentPath(port, chan, seq)] IN
  /\ end # Absent
  /\ payload # Absent
  /\ Timeout[payload] # 0 /\ h >= Timeout[payload]
  /\ VerifyAbsence(c, ClientOf(c, end), h,
       ReceiptPath(end.counterparty.portId, end.counterparty.channelId, seq))
  /\ Resolve(c, port, chan, seq, "timedOut")

\* TimeoutOnClose: the counterparty's end is closed, and the receipt is absent.
ChainTimeoutOnClose(c, port, chan, seq, h) ==
  LET end == EndOf(c, port, chan)
      cp == end.counterparty IN
  /\ end # Absent
  /\ Latest(c)[CommitmentPath(port, chan, seq)] # Absent
  /\ VerifyPresence(c, ClientOf(c, end), h, ChannelPath(cp.portId, cp.channelId),
       [state |-> "CLOSED", ordering |-> end.ordering,
        hop |-> Latest(c)[ConnectionPath(end.hop)].counterparty.connectionId,
        counterparty |-> [portId |-> port, channelId |-> chan]])
  /\ VerifyAbsence(c, ClientOf(c, end), h, ReceiptPath(cp.portId, cp.channelId, seq))
  /\ Resolve(c, port, chan, seq, "timedOut")

\* ChanCloseInit.
ChainClose(c, port, chan) ==
  LET end == EndOf(c, port, chan) IN
  /\ end # Absent
  /\ end.state = "OPEN"
  /\ ChainBlock(c, [Latest(c) EXCEPT ![ChannelPath(port, chan)].state = "CLOSED"])
  /\ UNCHANGED appVars

-----------------------------------------------------------------------------
(* The composition.                                                        *)

ChainPacket(c) ==
  \E port \in PortIds, chan \in ChannelIds, seq \in Sequence :
    \/ \E payload \in SenderPayloads[c] : SendPacket(c, port, chan, seq, payload)
    \/ \E payload \in Payloads, h \in Height :
         ChainRecvPacket(c, port, chan, seq, payload, h)
    \/ \E ack \in Acks, h \in Height :
         ChainAcknowledgePacket(c, port, chan, seq, ack, h)
    \/ \E h \in Height : ChainTimeoutPacket(c, port, chan, seq, h)
    \/ \E h \in Height : ChainTimeoutOnClose(c, port, chan, seq, h)

RelayInit ==
  /\ ledger = InitLedger
  /\ consensus = [u \in UpstreamClients |-> {1}]
  /\ proxy = InitMirror
  /\ blocks = <<proxy>>
  /\ headers = TrackHistoricalInfo({1}, 1)
  /\ sent = [c \in Producers |-> [s \in Sequence |-> Absent]]
  /\ delivered = [c \in Producers |-> [s \in Sequence |-> Absent]]
  /\ resolved = [c \in Producers |-> [s \in Sequence |-> "pending"]]

\* A relayer gives client id of chain c the latest header of the chain it follows.
ChainHeader(c, id) ==
  LET cs == Latest(c)[ClientPath(id)] IN
  /\ cs # Absent
  /\ ChainUpdateClient(c, id, HeightOf(cs.chain))
  /\ UNCHANGED <<blocks, consensus, proxy, headers>>

\* The histories begin with connection and channel open, so no block of the upstream
\* proves an earlier handshake state, and the handshake messages are disabled; packets
\* do not read the mirror of the upstream's client.
ProxyStep(u) ==
  \/ UpdateClient(u, Len(ledger[Tracks[u]]))
  \/ \E h \in Height : PacketMsg(u, h) /\ UNCHANGED <<ledger, blocks, consensus, headers>>

RelayNext ==
  \/ \E c \in Producers : ChainPacket(c)
  \/ \E c \in Producers, port \in PortIds, chan \in ChannelIds : ChainClose(c, port, chan)
  \/ /\ \/ \E c \in Producers, id \in ClientIds : ChainHeader(c, id)
        \/ \E u \in UpstreamClients : ProxyStep(u)
        \/ Commit
     /\ UNCHANGED appVars

RelaySpec == RelayInit /\ [][RelayNext]_relayVars

-----------------------------------------------------------------------------
(* Properties.                                                             *)

Forward == INSTANCE PacketDelivery WITH
  Sequences <- Sequence, Contents <- Payloads, None <- Absent,
  sent <- sent[UpstreamChain], delivered <- delivered[DownstreamChain],
  resolved <- resolved[UpstreamChain]

Backward == INSTANCE PacketDelivery WITH
  Sequences <- Sequence, Contents <- Payloads, None <- Absent,
  sent <- sent[DownstreamChain], delivered <- delivered[UpstreamChain],
  resolved <- resolved[DownstreamChain]

\* Packets from the upstream reach the downstream through the proxy at most once and
\* unchanged, are acknowledged only when delivered, and are not delivered once they
\* timed out.  It holds although the mirror keeps a commitment for ever: RecvPacket's
\* copy outlives the upstream's own, the timeout of the packet and the upstream's end of
\* the channel.
ForwardDelivery == Forward!Spec

\* The same for packets from the downstream, whose acknowledgements come back through
\* the proxy (AcknowledgePacket), also when the upstream closes its end of the channel
\* and the mirrored end stays open.  The packets carry no timeout.
BackwardDelivery == Backward!Spec

\* What the README says of the downstream, that it "uses a `Proxy Client` to verifies the
\* commitment instead of verifying the `upstream` chain's directly", for a packet with a
\* timeout: the downstream does not time out a packet that the upstream has received.
TimedOutNotReceived ==
  \A seq \in Sequence :
    ~ /\ resolved[DownstreamChain][seq] = "timedOut"
      /\ delivered[UpstreamChain][seq] # Absent
=============================================================================
