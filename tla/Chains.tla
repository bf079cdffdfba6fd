------------------------------- MODULE Chains -------------------------------
(***************************************************************************)
(* The chains around the proxy, as light clients see them: append-only     *)
(* histories of committed IBC stores, one block per transaction.  The      *)
(* transactions are the handlers of ibc-go (external to src/), restricted  *)
(* to their effect on the chain's own store: the proofs a handler demands  *)
(* of its counterparty are not modelled here, so every order of local      *)
(* handshake steps is explored.  Clients are created, updated, upgraded    *)
(* and substituted, without the conditions that LightClients models.       *)
(***************************************************************************)
EXTENDS ProxyTypes

CONSTANTS
  Producers,   \* the chains that go on producing blocks
  OwnConnectionIds,  \* chain -> the connections it opens; others only name a counterparty
  OwnChannelIds,     \* the channels that producers open
  PeerClientIds,     \* the counterparty clients that producers name in connections
  NewClients,        \* the clients (identifier and state) that producers create later
  ServicedClients,   \* the clients that are upgraded or substituted
  InitLedger   \* the blocks committed before the proxy is used

VARIABLES
  ledger,      \* chain -> sequence of committed IBC stores; the height is the index
  blocks       \* sequence of committed stores of the proxy chain's proxy module

ASSUME InitLedgerAssumption ==
  /\ Producers \subseteq Counterparties
  /\ OwnConnectionIds \in [Counterparties -> SUBSET ConnectionIds]
  /\ OwnChannelIds \subseteq ChannelIds
  /\ PeerClientIds \subseteq ClientIds
  /\ NewClients \subseteq ClientIds \X ClientState
  /\ ServicedClients \subseteq ClientIds
  /\ InitLedger \in [Counterparties -> Seq(Store)]
  /\ \A c \in Counterparties : Len(InitLedger[c]) \in Height

\* A connection or channel end that is open stays as it is until it is closed, and a
\* closed one stays closed.
Settled(old, new) ==
  old # Absent /\ old.state \in {"OPEN", "CLOSED"} =>
    new = old \/ (new # Absent /\ new.state = "CLOSED")

\* Two states of one client: updates and substitutions change the latest height only, an
\* upgrade also drops the multiv wrapper.
SameClient(a, b) ==
  /\ a # Absent /\ b # Absent
  /\ a.kind = b.kind /\ a.chain = b.chain
  /\ a.kind = "proxy" =>
       /\ a.upstreamClientId = b.upstreamClientId
       /\ a.ibcPrefix = b.ibcPrefix /\ a.proxyPrefix = b.proxyPrefix

\* What earlier blocks of a history leave for later ones: open ends, acknowledgements and
\* clients stay, and a packet sequence is used for one packet only.
Persistent(history) ==
  \A i, j \in 1..Len(history) : i <= j =>
    /\ \A p \in ConnectionPaths \cup ChannelPaths : Settled(history[i][p], history[j][p])
    /\ \A p \in AckPaths : history[i][p] # Absent => history[j][p] = history[i][p]
    /\ \A p \in CommitmentPaths :
         history[i][p] # Absent /\ history[j][p] # Absent => history[j][p] = history[i][p]
    /\ \A p \in ClientPaths :
         history[i][p] # Absent => SameClient(history[i][p], history[j][p])

\* A consensus state is stored with its client and is of the client's chain.  It is of
\* the client's kind, except that a substituted proxy client holds a bare Tendermint one.
Coherent(store) ==
  \A id \in ClientIds, h \in Height :
    LET cons == store[ConsensusPath(id, h)]
        cs == store[ClientPath(id)] IN
    cons # Absent => cs # Absent /\ cons.kind \in {"tm", cs.kind} /\ cons.chain = cs.chain

\* A history as the handlers of ibc-go leave it.
LegalHistory(history) ==
  Persistent(history) /\ \A i \in 1..Len(history) : Coherent(history[i])

ASSUME InitHistoryAssumption == \A c \in Counterparties : LegalHistory(InitLedger[c])

Latest(c) == ledger[c][Len(ledger[c])]

\* The height of a chain, the proxy chain included.
HeightOf(c) == IF c = ProxyChain THEN Len(blocks) ELSE Len(ledger[c])

\* One transaction of chain c, committed in a block of its own: path p becomes v.
Write(c, p, v) ==
  /\ c \in Producers
  /\ Len(ledger[c]) < MaxHeight
  /\ ledger' = [ledger EXCEPT ![c] = Append(@, [Latest(c) EXCEPT ![p] = v])]

-----------------------------------------------------------------------------
(* Clients.                                                                *)

\* Client id of chain c gets state cs, and consensus state cons at height h.
SetClient(c, id, cs, h, cons) ==
  /\ c \in Producers
  /\ Len(ledger[c]) < MaxHeight
  /\ ledger' = [ledger EXCEPT ![c] = Append(@,
       [Latest(c) EXCEPT ![ClientPath(id)] = cs, ![ConsensusPath(id, h)] = cons])]

\* MsgCreateClient, with a consensus state of the chain to be followed.
ChainCreateClient(c, id, cs) ==
  /\ <<id, cs>> \in NewClients
  /\ Latest(c)[ClientPath(id)] = Absent
  /\ cs.latest <= HeightOf(cs.chain)
  /\ SetClient(c, id, cs, cs.latest,
       [kind |-> cs.kind, chain |-> cs.chain, height |-> cs.latest])

\* MsgUpdateClient on chain c: client id learns the header of height h.  An older
\* header is accepted too and leaves the latest height alone.
ChainUpdateClient(c, id, h) ==
  LET cs == Latest(c)[ClientPath(id)] IN
  /\ cs # Absent
  /\ h \in 1..HeightOf(cs.chain)
  /\ Latest(c)[ConsensusPath(id, h)] = Absent
  /\ SetClient(c, id, [cs EXCEPT !.latest = IF h > @ THEN h ELSE @], h,
       [kind |-> cs.kind, chain |-> cs.chain, height |-> h])

\* MsgUpgradeClient: the upgraded Tendermint client comes without a multiv wrapper, and
\* the consensus state of its height is a sentinel.  An xx-proxy client cannot upgrade.
ChainUpgradeClient(c, id) ==
  LET cs == Latest(c)[ClientPath(id)] IN
  /\ id \in ServicedClients
  /\ cs # Absent
  /\ cs.kind = "tm"
  /\ cs.latest < MaxHeight
  /\ SetClient(c, id, [cs EXCEPT !.multiv = FALSE, !.latest = @ + 1], cs.latest + 1,
       [kind |-> "tm", chain |-> cs.chain, height |-> NoBlock])

\* Governance substitutes a client: it goes on from a newer height, and the Tendermint
\* consensus state of the substitute is copied as it is, below an xx-proxy client too.
ChainSubstituteClient(c, id, h) ==
  LET cs == Latest(c)[ClientPath(id)] IN
  /\ id \in ServicedClients
  /\ cs # Absent
  /\ h \in 1..HeightOf(cs.chain) /\ h > cs.latest
  /\ SetClient(c, id, [cs EXCEPT !.latest = h], h,
       [kind |-> "tm", chain |-> cs.chain, height |-> h])

-----------------------------------------------------------------------------
(* Connection handshake.                                                   *)

\* MsgConnectionOpenInit: the chain proposes one version or all it supports.
ChainConnOpenInit(c, id, client, cpClient, vs) ==
  /\ Latest(c)[ConnectionPath(id)] = Absent
  /\ Latest(c)[ClientPath(client)] # Absent
  /\ vs = Versions \/ \E v \in Versions : vs = {v}
  /\ Write(c, ConnectionPath(id),
       [state |-> "INIT", clientId |-> client, versions |-> vs,
        counterparty |-> [clientId |-> cpClient, connectionId |-> ""]])

\* MsgConnectionOpenTry, for a new end or for an end in INIT (crossing hellos).
ChainConnOpenTry(c, id, client, cpClient, cpConn, v) ==
  LET conn == Latest(c)[ConnectionPath(id)] IN
  /\ Latest(c)[ClientPath(client)] # Absent
  /\ \/ conn = Absent
     \/ /\ conn # Absent
        /\ conn.state = "INIT"
        /\ conn.clientId = client
        /\ conn.counterparty.clientId = cpClient
  /\ Write(c, ConnectionPath(id),
       [state |-> "TRYOPEN", clientId |-> client, versions |-> {v},
        counterparty |-> [clientId |-> cpClient, connectionId |-> cpConn]])

\* MsgConnectionOpenAck: the counterparty's version narrows a proposed one.
ChainConnOpenAck(c, id, cpConn, v) ==
  LET conn == Latest(c)[ConnectionPath(id)] IN
  /\ conn # Absent
  /\ \/ /\ conn.state = "INIT"
        /\ \E w \in conn.versions : v \subseteq w
     \/ /\ conn.state = "TRYOPEN"
        /\ conn.versions = {v}
        /\ conn.counterparty.connectionId = cpConn
  /\ Write(c, ConnectionPath(id),
       [conn EXCEPT !.state = "OPEN", !.versions = {v},
                    !.counterparty.connectionId = cpConn])

\* MsgConnectionOpenConfirm.
ChainConnOpenConfirm(c, id) ==
  LET conn == Latest(c)[ConnectionPath(id)] IN
  /\ conn # Absent
  /\ conn.state = "TRYOPEN"
  /\ Write(c, ConnectionPath(id), [conn EXCEPT !.state = "OPEN"])

-----------------------------------------------------------------------------
(* Channel handshake.                                                      *)

\* A single version is negotiated on the connection and supports the ordering.
SupportsOrder(conn, order) == \E v \in Versions : conn.versions = {v} /\ order \in v

\* MsgChannelOpenInit: allowed on a connection in any state.
ChainChanOpenInit(c, port, chan, order, cpPort, hop) ==
  LET conn == Latest(c)[ConnectionPath(hop)] IN
  /\ Latest(c)[ChannelPath(port, chan)] = Absent
  /\ conn # Absent
  /\ SupportsOrder(conn, order)
  /\ Write(c, ChannelPath(port, chan),
       [state |-> "INIT", ordering |-> order, hop |-> hop,
        counterparty |-> [portId |-> cpPort, channelId |-> ""]])

\* MsgChannelOpenTry, for a new end or for an end in INIT (crossing hellos).
ChainChanOpenTry(c, port, chan, order, cpPort, cpChan, hop) ==
  LET conn == Latest(c)[ConnectionPath(hop)]
      prev == Latest(c)[ChannelPath(port, chan)] IN
  /\ conn # Absent
  /\ conn.state = "OPEN"
  /\ SupportsOrder(conn, order)
  /\ \/ prev = Absent
     \/ prev = [state |-> "INIT", ordering |-> order, hop |-> hop,
                counterparty |-> [portId |-> cpPort, channelId |-> ""]]
  /\ Write(c, ChannelPath(port, chan),
       [state |-> "TRYOPEN", ordering |-> order, hop |-> hop,
        counterparty |-> [portId |-> cpPort, channelId |-> cpChan]])

\* MsgChannelOpenAck, or MsgChannelOpenConfirm for an end in TRYOPEN, which already
\* names its counterparty.
ChainChanOpen(c, port, chan, cpChan) ==
  LET end == Latest(c)[ChannelPath(port, chan)] IN
  /\ end # Absent
  /\ \/ end.state = "INIT"
     \/ end.state = "TRYOPEN" /\ end.counterparty.channelId = cpChan
  /\ Latest(c)[ConnectionPath(end.hop)].state = "OPEN"
  /\ Write(c, ChannelPath(port, chan),
       [end EXCEPT !.state = "OPEN", !.counterparty.channelId = cpChan])

\* MsgChannelCloseInit or MsgChannelCloseConfirm.
ChainChanClose(c, port, chan) ==
  LET end == Latest(c)[ChannelPath(port, chan)] IN
  /\ end # Absent
  /\ end.state # "CLOSED"
  /\ Latest(c)[ConnectionPath(end.hop)].state = "OPEN"
  /\ Write(c, ChannelPath(port, chan), [end EXCEPT !.state = "CLOSED"])

-----------------------------------------------------------------------------
(* Packets.                                                                *)

\* Sequence seq was used on the channel in some block.
Used(c, port, chan, seq) ==
  \E h \in 1..Len(ledger[c]) : ledger[c][h][CommitmentPath(port, chan, seq)] # Absent

\* SendPacket takes the next sequence.  The channel need only know its counterparty
\* and not be closed: packets may be sent before the handshake completes.
ChainSendPacket(c, port, chan, seq, payload) ==
  LET end == Latest(c)[ChannelPath(port, chan)] IN
  /\ end # Absent
  /\ end.state # "CLOSED"
  /\ end.counterparty.channelId # ""
  /\ ~ Used(c, port, chan, seq)
  /\ \A s \in 1..(seq - 1) : Used(c, port, chan, s)
  /\ Write(c, CommitmentPath(port, chan, seq), payload)

\* AcknowledgePacket or TimeoutPacket: the packet commitment is deleted.
ChainDeleteCommitment(c, port, chan, seq) ==
  /\ Latest(c)[CommitmentPath(port, chan, seq)] # Absent
  /\ Write(c, CommitmentPath(port, chan, seq), Absent)

\* WriteAcknowledgement, once per received packet.
ChainWriteAck(c, port, chan, seq, ack) ==
  LET end == Latest(c)[ChannelPath(port, chan)] IN
  /\ end # Absent
  /\ end.state = "OPEN"
  /\ Latest(c)[AckPath(port, chan, seq)] = Absent
  /\ Write(c, AckPath(port, chan, seq), CommitAcknowledgement(ack))

-----------------------------------------------------------------------------
ChainClientStep(c) ==
  \/ \E new \in NewClients : ChainCreateClient(c, new[1], new[2])
  \/ \E id \in ClientIds :
       \/ \E h \in Height : ChainUpdateClient(c, id, h)
       \/ ChainUpgradeClient(c, id)
       \/ \E h \in Height : ChainSubstituteClient(c, id, h)

ChainConnectionStep(c) ==
  \E id \in OwnConnectionIds[c] :
    \/ \E client \in ClientIds, cpClient \in PeerClientIds, vs \in SUBSET Versions :
         ChainConnOpenInit(c, id, client, cpClient, vs)
    \/ \E client \in ClientIds, cpClient \in PeerClientIds, cpConn \in ConnectionIds,
          v \in Versions :
         ChainConnOpenTry(c, id, client, cpClient, cpConn, v)
    \/ \E cpConn \in ConnectionIds, v \in Versions : ChainConnOpenAck(c, id, cpConn, v)
    \/ ChainConnOpenConfirm(c, id)

ChainChannelStep(c) ==
  \E port \in PortIds, chan \in OwnChannelIds :
    \/ \E order \in Orders, cpPort \in PortIds, hop \in ConnectionIds :
         ChainChanOpenInit(c, port, chan, order, cpPort, hop)
    \/ \E order \in Orders, cpPort \in PortIds, cpChan \in ChannelIds,
          hop \in ConnectionIds :
         ChainChanOpenTry(c, port, chan, order, cpPort, cpChan, hop)
    \/ \E cpChan \in ChannelIds : ChainChanOpen(c, port, chan, cpChan)
    \/ ChainChanClose(c, port, chan)

ChainPacketStep(c) ==
  \E port \in PortIds, chan \in OwnChannelIds, seq \in Sequence :
    \/ \E payload \in Payloads : ChainSendPacket(c, port, chan, seq, payload)
    \/ ChainDeleteCommitment(c, port, chan, seq)
    \/ \E ack \in Acks : ChainWriteAck(c, port, chan, seq, ack)

\* A transaction of chain c.
ChainStep(c) ==
  /\ \/ ChainClientStep(c)
     \/ ChainConnectionStep(c)
     \/ ChainChannelStep(c)
     \/ ChainPacketStep(c)
  /\ UNCHANGED blocks
=============================================================================
