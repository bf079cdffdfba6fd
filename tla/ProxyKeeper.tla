---------------------------- MODULE ProxyKeeper -----------------------------
(***************************************************************************)
(* The keeper of the proxy module: the eleven message handlers that verify *)
(* a commitment of an upstream chain with the proxy chain's own light      *)
(* client and store it again under the proxy's prefix, so that a           *)
(* downstream chain can verify it with a client of the proxy only.         *)
(*                                                                         *)
(* A handler that returns an error leaves no trace (the SDK discards the   *)
(* writes of a failed transaction), so an action is enabled exactly when   *)
(* the handler succeeds.  Cryptography is perfect: a proof of value v at   *)
(* path p and height h verifies iff the chain committed v there at h.  An  *)
(* argument that a handler only compares with a committed value is written *)
(* as that value.                                                          *)
(***************************************************************************)
EXTENDS Chains

CONSTANT HistoricalEntries   \* how many own headers the staking module keeps

ASSUME HistoricalEntriesAssumption == HistoricalEntries \in Nat

VARIABLES
  consensus,  \* upstream client -> heights whose consensus state it holds;
              \* empty: the client does not exist
  proxy,      \* upstream client -> the proxy store below it
  headers     \* the heights of this chain whose header the staking module keeps

vars == <<ledger, blocks, consensus, proxy, headers>>

-----------------------------------------------------------------------------
(* Light client verification (clients of the proxy chain).                 *)

\* The value for which a proof at height h of the upstream's path p verifies.
Proven(u, h, p) ==
  IF h \in consensus[u] THEN ledger[Tracks[u]][h][p] ELSE Absent

VerifyMembership(u, h, p, v) == v # Absent /\ Proven(u, h, p) = v

\* A place in an IBC store where a client is looked up.
Site(chain, height, clientId) ==
  [chain |-> chain, height |-> height, clientId |-> clientId]

\* One step of xx-multiv's verifyProxyState, for the head and for each branch alike: the
\* chain of site s holds a proxy client and its consensus state at some height; the
\* lookup goes on in the IBC store of that proxy, at the block of the consensus state
\* and under the client's upstream client.
Follow(s) ==
  LET head == ledger[s.chain][s.height][ClientPath(s.clientId)] IN
  IF head = Absent \/ head.kind # "proxy" \/ head.multiv \/ head.ibcPrefix # IBCPrefix
    THEN {}
    ELSE {Site(cons.chain, cons.height, head.upstreamClientId) :
            cons \in {c \in {ledger[s.chain][s.height][ConsensusPath(s.clientId, hc)] :
                              hc \in Height} :
                        /\ c # Absent
                        /\ c.kind = "proxy"
                        /\ c.chain \in Counterparties
                        /\ c.height \in 1..Len(ledger[c.chain])}}

\* verifyProxyState: the head, and as many branches as the client's depth.
VerifyProxyState(u, start) ==
  IF Depth[u] = 0 THEN Follow(start) ELSE UNION {Follow(s) : s \in Follow(start)}

\* Where the verification of client id of the upstream ends.
ClientSites(u, h, id) ==
  LET start == Site(Tracks[u], h, id) IN
  IF h \notin consensus[u] THEN {}
  ELSE IF u \in MultiV THEN VerifyProxyState(u, start)
  ELSE {start}

\* The client states for which VerifyClientState succeeds.
ProvableClientStates(u, h, id) ==
  {ledger[s.chain][s.height][ClientPath(s.clientId)] : s \in ClientSites(u, h, id)}
    \ {Absent}

\* The consensus states for which VerifyClientConsensusState at consensus height hc
\* succeeds.
ProvableConsensusStates(u, h, id, hc) ==
  {ledger[s.chain][s.height][ConsensusPath(s.clientId, hc)] : s \in ClientSites(u, h, id)}
    \ {Absent}

-----------------------------------------------------------------------------
(* The proxy store.                                                        *)

GetProxyConnection(u, id) == proxy[u][ConnectionPath(id)]
GetProxyChannel(u, port, chan) == proxy[u][ChannelPath(port, chan)]

SetProxyConnection(u, id, conn) ==
  proxy' = [proxy EXCEPT ![u] = [@ EXCEPT ![ConnectionPath(id)] = conn]]
SetProxyChannel(u, port, chan, channel) ==
  proxy' = [proxy EXCEPT ![u] = [@ EXCEPT ![ChannelPath(port, chan)] = channel]]
\* Mutant: every packet of a channel is stored under the same sequence.
SetProxyPacketCommitmentOneKey(u, port, chan, seq, commitment) ==
  proxy' = [proxy EXCEPT ![u] = [@ EXCEPT ![CommitmentPath(port, chan, 1)] = commitment]]

SetProxyPacketCommitment(u, port, chan, seq, commitment) ==
  proxy' = [proxy EXCEPT ![u] = [@ EXCEPT ![CommitmentPath(port, chan, seq)] = commitment]]
\* Mutant: the acknowledgement is stored instead of its hash.
SetProxyPacketAcknowledgementRaw(u, port, chan, seq, ack) ==
  proxy' = [proxy EXCEPT ![u] = [@ EXCEPT ![AckPath(port, chan, seq)] = ack]]

SetProxyPacketAcknowledgement(u, port, chan, seq, ack) ==
  proxy' = [proxy EXCEPT ![u] =
             [@ EXCEPT ![AckPath(port, chan, seq)] = CommitAcknowledgement(ack)]]

VerifyAndProxyConnectionState(u, h, id, conn) ==
  /\ VerifyMembership(u, h, ConnectionPath(id), conn)
  /\ SetProxyConnection(u, id, conn)
VerifyAndProxyChannelState(u, h, port, chan, channel) ==
  /\ VerifyMembership(u, h, ChannelPath(port, chan), channel)
  /\ SetProxyChannel(u, port, chan, channel)
\* Mutant: the commitment is stored without a proof.
VerifyAndProxyPacketCommitmentUnverified(u, h, port, chan, seq, commitment) ==
  SetProxyPacketCommitment(u, port, chan, seq, commitment)

VerifyAndProxyPacketCommitment(u, h, port, chan, seq, commitment) ==
  /\ VerifyMembership(u, h, CommitmentPath(port, chan, seq), commitment)
  /\ SetProxyPacketCommitment(u, port, chan, seq, commitment)
\* Mutant: the proof is checked for the acknowledgement instead of its hash.
VerifyAndProxyPacketAcknowledgementRaw(u, h, port, chan, seq, ack) ==
  /\ VerifyMembership(u, h, AckPath(port, chan, seq), ack)
  /\ SetProxyPacketAcknowledgement(u, port, chan, seq, ack)

\* Mutant: the acknowledgement is stored without a proof.
VerifyAndProxyPacketAcknowledgementUnverified(u, h, port, chan, seq, ack) ==
  SetProxyPacketAcknowledgement(u, port, chan, seq, ack)

VerifyAndProxyPacketAcknowledgement(u, h, port, chan, seq, ack) ==
  /\ VerifyMembership(u, h, AckPath(port, chan, seq), CommitAcknowledgement(ack))
  /\ SetProxyPacketAcknowledgement(u, port, chan, seq, ack)

-----------------------------------------------------------------------------
(* ProxyClientState.                                                       *)

\* Mutant: the upstream's own client state is stored also for a multiv client.
ProxyClientStateHead(u, id, h, hc) ==
  \E cons \in ProvableConsensusStates(u, h, id, hc) :
    proxy' = [proxy EXCEPT ![u] = [@ EXCEPT
                ![ClientPath(id)] = Proven(u, h, ClientPath(id)),
                ![ConsensusPath(id, hc)] = cons]]

ProxyClientState(u, id, h, hc) ==
  \E cs \in ProvableClientStates(u, h, id),
     cons \in ProvableConsensusStates(u, h, id, hc) :
       proxy' = [proxy EXCEPT ![u] = [@ EXCEPT ![ClientPath(id)] = cs,
                                               ![ConsensusPath(id, hc)] = cons]]

-----------------------------------------------------------------------------
(* Connection handshake.                                                   *)

\* GetSelfConsensusState succeeds for the heights that the staking module's
\* TrackHistoricalInfo keeps: it runs at the beginning of every block, here of the one
\* after block n.
TrackHistoricalInfo(heights, n) == {h \in heights : h + HistoricalEntries > n + 1}

\* Mutant: the proxy client must be behind this chain.
ValidateSelfClientBehind(pcs) == pcs.chain = ProxyChain /\ pcs.latest < Len(blocks)

\* ibc-go's ValidateSelfClient, for the client inside a proxy client.
ValidateSelfClient(pcs) == pcs.chain = ProxyChain /\ pcs.latest <= Len(blocks)

\* Mutant: the upstream client of the proxy client is not compared with the message's.
ProduceVerificationArgsAnyUpstream(pcs, u, hp) ==
  /\ pcs # Absent
  /\ pcs.kind = "proxy"
  /\ ~ pcs.multiv
  /\ pcs.ibcPrefix = IBCPrefix
  /\ pcs.proxyPrefix = ProxyPrefix
  /\ ValidateSelfClient(pcs)
  /\ hp \in headers

\* Mutant: the chain's own consensus state is not looked up.
ProduceVerificationArgsAnyHeight(pcs, u, hp) ==
  /\ pcs # Absent
  /\ pcs.kind = "proxy"
  /\ ~ pcs.multiv
  /\ pcs.ibcPrefix = IBCPrefix
  /\ pcs.proxyPrefix = ProxyPrefix
  /\ ValidateSelfClient(pcs)
  /\ pcs.upstreamClientId = u

\* produceVerificationArgs: pcs is a proxy client of this chain that follows upstream
\* client u, and hp is a height whose consensus state this chain can still produce
\* (getSelfConsensusState).
ProduceVerificationArgs(pcs, u, hp) ==
  /\ pcs # Absent
  /\ pcs.kind = "proxy"
  /\ ~ pcs.multiv
  /\ pcs.ibcPrefix = IBCPrefix
  /\ pcs.proxyPrefix = ProxyPrefix
  /\ ValidateSelfClient(pcs)
  /\ hp \in headers
  /\ pcs.upstreamClientId = u

SelfConsensusState(hp) == [kind |-> "proxy", chain |-> ProxyChain, height |-> hp]

\* The value for which a proof of path p verifies against downstream consensus state
\* cons.  The client cs, out of its multiv wrapper, is a client of the downstream
\* itself, or a proxy client that reads this proxy's mirror of the downstream.
DownstreamValue(cs, cons, p) ==
  IF cs.kind = "tm"
    THEN IF cons.kind = "tm" /\ cons.chain \in Counterparties
              /\ cons.height \in 1..Len(ledger[cons.chain])
           THEN ledger[cons.chain][cons.height][p] ELSE Absent
    ELSE IF /\ cons.kind = "proxy" /\ cons.chain = ProxyChain
            /\ cs.proxyPrefix = ProxyPrefix
            /\ cons.height \in 1..Len(blocks)
            /\ cs.upstreamClientId \in UpstreamClients
           THEN blocks[cons.height][cs.upstreamClientId][p] ELSE Absent

\* Mutant: an existing connection is overwritten.
ProxyNewConnectionOverwrite(u, id, state, h, hc, hp) ==
  LET conn == Proven(u, h, ConnectionPath(id)) IN
  /\ conn # Absent
  /\ conn.state = state
  /\ \E cs \in ProvableClientStates(u, h, conn.clientId),
        cons \in ProvableConsensusStates(u, h, conn.clientId, hc) :
       LET cp == conn.counterparty.clientId IN
       /\ ProduceVerificationArgs(DownstreamValue(cs, cons, ClientPath(cp)), u, hp)
       /\ DownstreamValue(cs, cons, ConsensusPath(cp, hp)) = SelfConsensusState(hp)
       /\ proxy' = [proxy EXCEPT ![u] = [@ EXCEPT
                      ![ClientPath(conn.clientId)] = cs,
                      ![ConsensusPath(conn.clientId, hc)] = cons,
                      ![ConnectionPath(id)] = conn]]

\* Mutant: the downstream is not asked whether it follows this proxy.
ProxyNewConnectionOneWay(u, id, state, h, hc, hp) ==
  LET conn == Proven(u, h, ConnectionPath(id)) IN
  /\ GetProxyConnection(u, id) = Absent
  /\ conn # Absent
  /\ conn.state = state
  /\ \E cs \in ProvableClientStates(u, h, conn.clientId),
        cons \in ProvableConsensusStates(u, h, conn.clientId, hc) :
       proxy' = [proxy EXCEPT ![u] = [@ EXCEPT
                   ![ClientPath(conn.clientId)] = cs,
                   ![ConsensusPath(conn.clientId, hc)] = cons,
                   ![ConnectionPath(id)] = conn]]

\* The common part of ConnOpenTry and ConnOpenAck: the upstream stores connection end
\* conn in the given state, with client state cs and consensus state cons of the
\* downstream; the downstream stores, under the client that conn names, a proxy client
\* of this chain for u and this chain's consensus state of height hp.
ProxyNewConnection(u, id, state, h, hc, hp) ==
  LET conn == Proven(u, h, ConnectionPath(id)) IN
  /\ GetProxyConnection(u, id) = Absent
  /\ conn # Absent
  /\ conn.state = state
  /\ \E cs \in ProvableClientStates(u, h, conn.clientId),
        cons \in ProvableConsensusStates(u, h, conn.clientId, hc) :
       LET cp == conn.counterparty.clientId IN
       /\ ProduceVerificationArgs(DownstreamValue(cs, cons, ClientPath(cp)), u, hp)
       /\ DownstreamValue(cs, cons, ConsensusPath(cp, hp)) = SelfConsensusState(hp)
       /\ proxy' = [proxy EXCEPT ![u] = [@ EXCEPT
                      ![ClientPath(conn.clientId)] = cs,
                      ![ConsensusPath(conn.clientId, hc)] = cons,
                      ![ConnectionPath(id)] = conn]]

ConnOpenTry(u, id, h, hc, hp) == ProxyNewConnection(u, id, "INIT", h, hc, hp)

ConnOpenAck(u, id, h, hc, hp) == ProxyNewConnection(u, id, "TRYOPEN", h, hc, hp)

\* Mutant: the opened end is stored without a proof.
ConnOpenConfirmUnverified(u, id, cpConn, h) ==
  LET conn == GetProxyConnection(u, id) IN
  /\ conn # Absent
  /\ conn.state = "INIT"
  /\ SetProxyConnection(u, id,
       [conn EXCEPT !.state = "OPEN", !.counterparty.connectionId = cpConn])

\* Mutant: the counterparty's connection is not filled in.
ConnOpenConfirmNoCounterparty(u, id, cpConn, h) ==
  LET conn == GetProxyConnection(u, id) IN
  /\ conn # Absent
  /\ conn.state = "INIT"
  /\ VerifyAndProxyConnectionState(u, h, id, [conn EXCEPT !.state = "OPEN"])

ConnOpenConfirm(u, id, cpConn, h) ==
  LET conn == GetProxyConnection(u, id) IN
  /\ conn # Absent
  /\ conn.state = "INIT"
  /\ VerifyAndProxyConnectionState(u, h, id,
       [conn EXCEPT !.state = "OPEN", !.counterparty.connectionId = cpConn])

ConnOpenFinalize(u, id, h) ==
  LET conn == GetProxyConnection(u, id) IN
  /\ conn # Absent
  /\ conn.state = "TRYOPEN"
  /\ VerifyAndProxyConnectionState(u, h, id, [conn EXCEPT !.state = "OPEN"])

-----------------------------------------------------------------------------
(* Channel handshake.                                                      *)

ValidateChannelOrder(order, conn) == SupportsOrder(conn, order)

\* Mutant: the connection need only exist.
ConnectionFound(conn) == conn # Absent

ConnectionOpen(conn) == conn # Absent /\ conn.state = "OPEN"

ChanOpenTry(u, port, chan, order, cpPort, hop, h) ==
  LET conn == GetProxyConnection(u, hop) IN
  /\ conn # Absent
  /\ ValidateChannelOrder(order, conn)
  /\ VerifyAndProxyChannelState(u, h, port, chan,
       [state |-> "INIT", ordering |-> order, hop |-> hop,
        counterparty |-> [portId |-> cpPort, channelId |-> ""]])

ChanOpenAck(u, port, chan, order, cpPort, cpChan, hop, h) ==
  LET conn == GetProxyConnection(u, hop) IN
  /\ ConnectionOpen(conn)
  /\ ValidateChannelOrder(order, conn)
  /\ VerifyAndProxyChannelState(u, h, port, chan,
       [state |-> "TRYOPEN", ordering |-> order, hop |-> hop,
        counterparty |-> [portId |-> cpPort, channelId |-> cpChan]])

\* Mutant: the opened end is stored without a proof.
ChanOpenConfirmUnverified(u, port, chan, cpChan, h) ==
  LET channel == GetProxyChannel(u, port, chan) IN
  /\ channel # Absent
  /\ channel.counterparty.channelId = ""
  /\ channel.state = "INIT"
  /\ ConnectionOpen(GetProxyConnection(u, channel.hop))
  /\ SetProxyChannel(u, port, chan,
       [channel EXCEPT !.state = "OPEN", !.counterparty.channelId = cpChan])

\* Mutant: the counterparty's channel is not filled in.
ChanOpenConfirmNoCounterparty(u, port, chan, cpChan, h) ==
  LET channel == GetProxyChannel(u, port, chan) IN
  /\ channel # Absent
  /\ channel.counterparty.channelId = ""
  /\ channel.state = "INIT"
  /\ ConnectionOpen(GetProxyConnection(u, channel.hop))
  /\ VerifyAndProxyChannelState(u, h, port, chan, [channel EXCEPT !.state = "OPEN"])

ChanOpenConfirm(u, port, chan, cpChan, h) ==
  LET channel == GetProxyChannel(u, port, chan) IN
  /\ channel # Absent
  /\ channel.counterparty.channelId = ""
  /\ channel.state = "INIT"
  /\ ConnectionOpen(GetProxyConnection(u, channel.hop))
  /\ VerifyAndProxyChannelState(u, h, port, chan,
       [channel EXCEPT !.state = "OPEN", !.counterparty.channelId = cpChan])

ChanOpenFinalize(u, port, chan, h) ==
  LET channel == GetProxyChannel(u, port, chan) IN
  /\ channel # Absent
  /\ channel.state = "TRYOPEN"
  /\ ConnectionOpen(GetProxyConnection(u, channel.hop))
  /\ VerifyAndProxyChannelState(u, h, port, chan, [channel EXCEPT !.state = "OPEN"])

-----------------------------------------------------------------------------
(* Packets.                                                                *)

Packet ==
  [sourcePort: PortIds, sourceChannel: ChannelIds, destPort: PortIds,
   destChannel: ChannelIds \cup {""}, sequence: Sequence, payload: Payloads]

\* Mutant: the destination is compared with the channel's own identifier.
RecvPacketSwapped(u, packet, h) ==
  LET channel == GetProxyChannel(u, packet.sourcePort, packet.sourceChannel) IN
  /\ channel # Absent
  /\ packet.destPort = channel.counterparty.portId
  /\ packet.destChannel = packet.sourceChannel
  /\ GetProxyConnection(u, channel.hop) # Absent
  /\ VerifyAndProxyPacketCommitment(u, h, packet.sourcePort, packet.sourceChannel,
       packet.sequence, CommitPacket(packet))

RecvPacket(u, packet, h) ==
  LET channel == GetProxyChannel(u, packet.sourcePort, packet.sourceChannel) IN
  /\ channel # Absent
  /\ packet.destPort = channel.counterparty.portId
  /\ packet.destChannel = channel.counterparty.channelId
  /\ GetProxyConnection(u, channel.hop) # Absent
  /\ VerifyAndProxyPacketCommitment(u, h, packet.sourcePort, packet.sourceChannel,
       packet.sequence, CommitPacket(packet))

\* Mutant: the channel is not looked up.
AcknowledgePacketNoChannel(u, port, chan, seq, ack, h) ==
  VerifyAndProxyPacketAcknowledgement(u, h, port, chan, seq, ack)

\* The upstream is the destination of the packet.
AcknowledgePacket(u, port, chan, seq, ack, h) ==
  LET channel == GetProxyChannel(u, port, chan) IN
  /\ channel # Absent
  /\ GetProxyConnection(u, channel.hop) # Absent
  /\ VerifyAndProxyPacketAcknowledgement(u, h, port, chan, seq, ack)

-----------------------------------------------------------------------------
(* The specification.                                                      *)

\* Mutant: a header that the upstream has not produced is accepted.
UpdateClientAhead(u, h) ==
  /\ h \notin consensus[u]
  /\ consensus' = [consensus EXCEPT ![u] = @ \cup {h}]
  /\ UNCHANGED <<ledger, blocks, proxy, headers>>

\* MsgCreateClient or MsgUpdateClient on the proxy chain: upstream client u learns the
\* header of height h.  Expired heights, which the update prunes, are kept here: that
\* only leaves more proofs to whoever sends messages.
UpdateClient(u, h) ==
  /\ h \in 1..Len(ledger[Tracks[u]])
  /\ h \notin consensus[u]
  /\ consensus' = [consensus EXCEPT ![u] = @ \cup {h}]
  /\ UNCHANGED <<ledger, blocks, proxy, headers>>

\* The proxy chain commits a block.
Commit ==
  /\ Len(blocks) < MaxBlocks
  /\ blocks' = Append(blocks, proxy)
  /\ headers' = TrackHistoricalInfo(headers \cup {Len(blocks')}, Len(blocks'))
  /\ UNCHANGED <<ledger, consensus, proxy>>

\* A message of the proxy module for upstream client u, with proofs at height h.
ClientMsg(u, h) ==
  \E id \in ClientIds, hc \in Height : ProxyClientState(u, id, h, hc)

ConnectionMsg(u, h) ==
  \E id \in ConnectionIds :
    \/ \E hc, hp \in Height : ConnOpenTry(u, id, h, hc, hp)
    \/ \E hc, hp \in Height : ConnOpenAck(u, id, h, hc, hp)
    \/ \E cpConn \in ConnectionIds : ConnOpenConfirm(u, id, cpConn, h)
    \/ ConnOpenFinalize(u, id, h)

ChannelMsg(u, h) ==
  \E port \in PortIds, chan \in ChannelIds :
    \/ \E order \in Orders, cpPort \in PortIds, hop \in ConnectionIds :
         ChanOpenTry(u, port, chan, order, cpPort, hop, h)
    \/ \E order \in Orders, cpPort \in PortIds, cpChan \in ChannelIds,
          hop \in ConnectionIds :
         ChanOpenAck(u, port, chan, order, cpPort, cpChan, hop, h)
    \/ \E cpChan \in ChannelIds : ChanOpenConfirm(u, port, chan, cpChan, h)
    \/ ChanOpenFinalize(u, port, chan, h)

PacketMsg(u, h) ==
  \/ \E packet \in Packet : RecvPacket(u, packet, h)
  \/ \E port \in PortIds, chan \in ChannelIds, seq \in Sequence, ack \in Acks :
       AcknowledgePacket(u, port, chan, seq, ack, h)

Msg(u, h) ==
  /\ ClientMsg(u, h) \/ ConnectionMsg(u, h) \/ ChannelMsg(u, h) \/ PacketMsg(u, h)
  /\ UNCHANGED <<ledger, blocks, consensus, headers>>

Init ==
  /\ ledger = InitLedger
  /\ consensus = [u \in UpstreamClients |-> {}]
  /\ proxy = [u \in UpstreamClients |-> EmptyStore]
  /\ blocks = <<proxy>>
  /\ headers = TrackHistoricalInfo({1}, 1)

Next ==
  \/ \E c \in Counterparties : ChainStep(c) /\ UNCHANGED <<consensus, proxy, headers>>
  \/ \E u \in UpstreamClients, h \in Height : UpdateClient(u, h) \/ Msg(u, h)
  \/ Commit

Spec == Init /\ [][Next]_vars

-----------------------------------------------------------------------------
(* Properties.                                                             *)

\* Type correctness of the histories, of the clients and of the proxy store.
TypeOK ==
  /\ ledger \in [Counterparties -> Seq(Store)]
  /\ \A c \in Counterparties : Len(ledger[c]) \in Height
  /\ consensus \in [UpstreamClients -> SUBSET Height]
  /\ \A u \in UpstreamClients : consensus[u] \subseteq 1..Len(ledger[Tracks[u]])
  /\ proxy \in [UpstreamClients -> Store]
  /\ blocks \in Seq([UpstreamClients -> Store])
  /\ Len(blocks) \in 1..MaxBlocks
  /\ headers \subseteq 1..Len(blocks)

\* The values that the light client of u vouches for at path p and height h.
Attested(u, h, p) ==
  CASE p[1] = "clientState"    -> ProvableClientStates(u, h, p[2])
    [] p[1] = "consensusState" -> ProvableConsensusStates(u, h, p[2][1], p[2][2])
    [] OTHER                   -> {Proven(u, h, p)}

SoundStore(u, store) ==
  \A p \in Path :
    store[p] # Absent => \E h \in consensus[u] : store[p] \in Attested(u, h, p)

\* Everything the proxy stores for an upstream, now and in every block it committed, is
\* what the proxy's own light client of that upstream verified at some height: also the
\* ends that ConnOpenConfirm, ConnOpenFinalize, ChanOpenConfirm and ChanOpenFinalize
\* build from earlier proxy state, and the client states that a multiv client resolves
\* through another proxy.
MirrorSound ==
  \A u \in UpstreamClients :
    /\ SoundStore(u, proxy[u])
    /\ \A i \in 1..Len(blocks) : SoundStore(u, blocks[i][u])

OwnProxyClient(cs, u) ==
  /\ cs # Absent
  /\ cs.kind = "proxy" /\ ~ cs.multiv
  /\ cs.chain = ProxyChain
  /\ cs.upstreamClientId = u
  /\ cs.ibcPrefix = IBCPrefix /\ cs.proxyPrefix = ProxyPrefix

\* What client state cs shows of client id of the chain it verifies: for a Tendermint
\* client what that chain committed, for a proxy client of this chain what the upstream
\* client that it follows verified.
SeenClients(cs, id) ==
  IF cs.kind = "tm"
    THEN {ledger[cs.chain][h][ClientPath(id)] : h \in 1..Len(ledger[cs.chain])}
  ELSE IF cs.chain = ProxyChain /\ cs.upstreamClientId \in UpstreamClients
    THEN UNION {ProvableClientStates(cs.upstreamClientId, h, id) :
                  h \in consensus[cs.upstreamClientId]}
  ELSE {}

\* A connection end is proxied below upstream client u only if the chain at the other
\* end, as the upstream's client mirrored here sees it, committed a proxy client of this
\* chain for exactly u under the identifier that the connection end names
\* (produceVerificationArgs and the two downstream proofs of ConnOpenTry and
\* ConnOpenAck; ConnOpenConfirm, ConnOpenFinalize and later client updates keep it so).
MutualTracking ==
  \A u \in UpstreamClients, id \in ConnectionIds :
    LET conn == GetProxyConnection(u, id)
        cs == proxy[u][ClientPath(conn.clientId)] IN
    conn # Absent =>
      /\ cs # Absent
      /\ \E seen \in SeenClients(cs, conn.counterparty.clientId) : OwnProxyClient(seen, u)

\* A connection end that was absent appears in INIT or TRYOPEN; one in INIT opens and
\* learns its counterparty's connection; one in TRYOPEN opens and changes nothing else.
Advances(old, new) ==
  \/ new = old
  \/ /\ old = Absent
     /\ new # Absent
     /\ new.state \in {"INIT", "TRYOPEN"}
  \/ /\ old # Absent
     /\ old.state = "INIT"
     /\ \E cpConn \in ConnectionIds :
          new = [old EXCEPT !.state = "OPEN", !.counterparty.connectionId = cpConn]
  \/ /\ old # Absent
     /\ old.state = "TRYOPEN"
     /\ new = [old EXCEPT !.state = "OPEN"]

\* A proxied connection end only moves forward and opens once, keeping its clients and
\* its versions.  No replayed or stale message takes it back, no message about another
\* connection, client, channel or packet touches it (the "already exists" checks and the
\* state checks of the four connection handlers).
ConnectionForwardOnly ==
  [][\A u \in UpstreamClients, id \in ConnectionIds :
       Advances(GetProxyConnection(u, id), GetProxyConnection(u, id)')]_vars

\* A channel end is proxied only over a connection that the same upstream client
\* proxies, whose single version supports the ordering, and past INIT only over an open
\* connection: the guards of the four channel handlers, which look at the connection
\* once, stay true whatever happens to it later.
ChannelBehindConnection ==
  \A u \in UpstreamClients, port \in PortIds, chan \in ChannelIds :
    LET channel == GetProxyChannel(u, port, chan)
        conn == GetProxyConnection(u, channel.hop) IN
    channel # Absent =>
      /\ conn # Absent
      /\ SupportsOrder(conn, channel.ordering)
      /\ channel.state # "INIT" => conn.state = "OPEN"

\* The stores that a downstream chain can read: the current one and the committed ones.
Views == {proxy} \cup {blocks[i] : i \in 1..Len(blocks)}

\* Whatever order handshake messages, stale replays and blocks come in, no two readers
\* of the proxy, in any two blocks and below any two clients of the same upstream, see
\* two different open ends of a connection or channel.
OpenEndsAgree ==
  \A v, w \in Views, t, u \in UpstreamClients, p \in ConnectionPaths \cup ChannelPaths :
    /\ Tracks[t] = Tracks[u]
    /\ v[t][p] # Absent /\ w[u][p] # Absent
    /\ v[t][p].state = "OPEN" /\ w[u][p].state = "OPEN"
    => v[t][p] = w[u][p]

\* A packet commitment or acknowledgement, once proxied, never changes and is never
\* removed, although the upstream deletes its own commitments and messages arrive in any
\* order and more than once.
PacketMirrorStable ==
  [][\A u \in UpstreamClients, p \in CommitmentPaths \cup AckPaths :
       proxy[u][p] # Absent => proxy'[u][p] = proxy[u][p]]_vars

\* A proxied client state is replaced only by another state of the same client, although
\* ClientState, ConnOpenTry and ConnOpenAck take it from any height, an older one too, and
\* with a multiv client from any walk through the blocks of other proxies: a connection
\* never comes to rest on a client of another chain.
ClientMirrorStable ==
  [][\A u \in UpstreamClients, id \in ClientIds :
       proxy[u][ClientPath(id)] # Absent =>
         SameClient(proxy[u][ClientPath(id)], proxy'[u][ClientPath(id)])]_vars

\* Packet state is proxied only below a channel end that is itself proxied, over a
\* proxied connection (RecvPacket and AcknowledgePacket), and stays so when the channel
\* end is rewritten by later handshake messages.
PacketBehindChannel ==
  \A u \in UpstreamClients, port \in PortIds, chan \in ChannelIds, seq \in Sequence :
    \/ proxy[u][CommitmentPath(port, chan, seq)] # Absent
    \/ proxy[u][AckPath(port, chan, seq)] # Absent
    => /\ GetProxyChannel(u, port, chan) # Absent
       /\ GetProxyConnection(u, GetProxyChannel(u, port, chan).hop) # Absent

\* What the comments of RecvPacket and AcknowledgePacket say: "to receive a packet,
\* connection and channel must both be open".
PacketOnlyWhenOpen ==
  [][\A u \in UpstreamClients, port \in PortIds, chan \in ChannelIds, seq \in Sequence :
       LET p == CommitmentPath(port, chan, seq)
           channel == GetProxyChannel(u, port, chan) IN
       proxy'[u][p] # proxy[u][p] =>
         /\ channel.state = "OPEN"
         /\ GetProxyConnection(u, channel.hop).state = "OPEN"]_vars
=============================================================================
