------------------------- MODULE ProxyKeeperProofs --------------------------
(***************************************************************************)
(* Theorems of ProxyKeeper for every value of its constants.               *)
(***************************************************************************)
EXTENDS MirrorRefinement, TLAPS

-----------------------------------------------------------------------------
(* Paths and stores.                                                       *)

\* Every key the handlers use is a path, and the values it holds are those of its kind.
LEMMA PathsTyped ==
  /\ \A id \in ClientIds :
       ClientPath(id) \in Path /\ ValueAt(ClientPath(id)) = ClientState \cup {Absent}
  /\ \A id \in ClientIds, h \in Height :
       /\ ConsensusPath(id, h) \in Path
       /\ ValueAt(ConsensusPath(id, h)) = ConsensusState \cup {Absent}
  /\ \A id \in ConnectionIds :
       /\ ConnectionPath(id) \in Path
       /\ ValueAt(ConnectionPath(id)) = ConnectionEnd \cup {Absent}
  /\ \A port \in PortIds, chan \in ChannelIds :
       /\ ChannelPath(port, chan) \in Path
       /\ ValueAt(ChannelPath(port, chan)) = Channel \cup {Absent}
  /\ \A port \in PortIds, chan \in ChannelIds, seq \in Sequence :
       /\ CommitmentPath(port, chan, seq) \in Path
       /\ ValueAt(CommitmentPath(port, chan, seq)) = Payloads \cup {Absent}
       /\ AckPath(port, chan, seq) \in Path
       /\ ValueAt(AckPath(port, chan, seq)) = AckCommitments \cup {Absent}
       /\ ReceiptPath(port, chan, seq) \in Path
       /\ ValueAt(ReceiptPath(port, chan, seq)) = {Receipt, Absent}
<1>1. \A id \in ClientIds :
        ClientPath(id) \in Path /\ ValueAt(ClientPath(id)) = ClientState \cup {Absent}
  BY DEF ClientPath, ClientPaths, Path, ValueAt
<1>2. \A id \in ClientIds, h \in Height :
        /\ ConsensusPath(id, h) \in Path
        /\ ValueAt(ConsensusPath(id, h)) = ConsensusState \cup {Absent}
  BY DEF ConsensusPath, ConsensusPaths, Path, ValueAt
<1>3. \A id \in ConnectionIds :
        /\ ConnectionPath(id) \in Path
        /\ ValueAt(ConnectionPath(id)) = ConnectionEnd \cup {Absent}
  BY DEF ConnectionPath, ConnectionPaths, Path, ValueAt
<1>4. \A port \in PortIds, chan \in ChannelIds :
        /\ ChannelPath(port, chan) \in Path
        /\ ValueAt(ChannelPath(port, chan)) = Channel \cup {Absent}
  BY DEF ChannelPath, ChannelPaths, Path, ValueAt
<1>5. \A port \in PortIds, chan \in ChannelIds, seq \in Sequence :
        /\ CommitmentPath(port, chan, seq) \in Path
        /\ ValueAt(CommitmentPath(port, chan, seq)) = Payloads \cup {Absent}
  BY DEF CommitmentPath, CommitmentPaths, Path, ValueAt
<1>6. \A port \in PortIds, chan \in ChannelIds, seq \in Sequence :
        /\ AckPath(port, chan, seq) \in Path
        /\ ValueAt(AckPath(port, chan, seq)) = AckCommitments \cup {Absent}
  BY DEF AckPath, AckPaths, Path, ValueAt
<1>7. \A port \in PortIds, chan \in ChannelIds, seq \in Sequence :
        /\ ReceiptPath(port, chan, seq) \in Path
        /\ ValueAt(ReceiptPath(port, chan, seq)) = {Receipt, Absent}
  BY DEF ReceiptPath, ReceiptPaths, Path, ValueAt
<1> QED BY <1>1, <1>2, <1>3, <1>4, <1>5, <1>6, <1>7

\* Every path holds values of Value, and may hold nothing.
LEMMA ValueAtTyped ==
  ASSUME NEW p \in Path
  PROVE  ValueAt(p) \subseteq Value /\ Absent \in ValueAt(p)
<1>1. CASE p \in ClientPaths
  BY <1>1 DEF ClientPaths, ClientPath, ValueAt, Value
<1>2. CASE p \in ConsensusPaths
  BY <1>2 DEF ConsensusPaths, ConsensusPath, ValueAt, Value
<1>3. CASE p \in ConnectionPaths
  BY <1>3 DEF ConnectionPaths, ConnectionPath, ValueAt, Value
<1>4. CASE p \in ChannelPaths
  BY <1>4 DEF ChannelPaths, ChannelPath, ValueAt, Value
<1>5. CASE p \in CommitmentPaths
  BY <1>5 DEF CommitmentPaths, CommitmentPath, ValueAt, Value
<1>6. CASE p \in AckPaths
  BY <1>6 DEF AckPaths, AckPath, ValueAt, Value
<1>7. CASE p \in ReceiptPaths
  BY <1>7 DEF ReceiptPaths, ReceiptPath, ValueAt, Value
<1> QED BY <1>1, <1>2, <1>3, <1>4, <1>5, <1>6, <1>7 DEF Path

\* Reading a store gives a value of the path's kind, writing one keeps it a store.
LEMMA StoreRead ==
  ASSUME NEW s \in Store, NEW p \in Path
  PROVE  s[p] \in ValueAt(p)
BY DEF Store

\* Writing a value of the path's kind keeps a store a store (every Set of commitment.go).
LEMMA StoreWrite ==
  ASSUME NEW s \in Store, NEW p \in Path, NEW v \in ValueAt(p)
  PROVE  [s EXCEPT ![p] = v] \in Store
<1>1. v \in Value BY ValueAtTyped
<1>2. [s EXCEPT ![p] = v] \in [Path -> Value] BY <1>1 DEF Store
<1>3. \A q \in Path : [s EXCEPT ![p] = v][q] \in ValueAt(q) BY DEF Store
<1> QED BY <1>2, <1>3 DEF Store

\* A store that holds nothing is a store.
LEMMA EmptyStoreTyped == EmptyStore \in Store
<1>1. \A p \in Path : EmptyStore[p] = Absent BY DEF EmptyStore
<1>2. EmptyStore \in [Path -> Value] BY DEF EmptyStore, Value
<1> QED BY <1>1, <1>2, ValueAtTyped DEF Store

\* The bounds are numbers, and clients of the proxy chain track other chains.
LEMMA BoundsTyped ==
  /\ MaxHeight \in Nat /\ MaxBlocks \in Nat /\ 1 <= MaxBlocks
  /\ \A u \in UpstreamClients : Tracks[u] \in Counterparties
<1>1. MaxHeight \in Nat /\ MaxBlocks \in 1..MaxHeight
  BY ConstantsAssumption, Zenon
<1>2. \A u \in UpstreamClients : Tracks[u] \in Counterparties
  BY ConstantsAssumption
<1> QED BY <1>1, <1>2

-----------------------------------------------------------------------------
(* Transactions of the other chains.                                       *)

\* A committed block is a store.
LEMMA BlockTyped ==
  ASSUME TypeOK, NEW c \in Counterparties, NEW h \in 1..Len(ledger[c])
  PROVE  ledger[c][h] \in Store
BY DEF TypeOK

\* The latest block of a chain is a store.
LEMMA LatestTyped ==
  ASSUME TypeOK, NEW c \in Counterparties
  PROVE  Latest(c) \in Store
<1>1. Len(ledger[c]) \in 1..Len(ledger[c]) BY DEF TypeOK, Height
<1> QED BY <1>1, BlockTyped DEF Latest

\* A connection end keeps its type when a handler changes its state, its versions and its
\* counterparty's connection; likewise a channel end.
LEMMA ConnectionEndTyped ==
  ASSUME NEW conn \in ConnectionEnd, NEW st \in {"INIT", "TRYOPEN", "OPEN"},
         NEW vs \in SUBSET Versions, NEW id \in ConnectionIds \cup {""}
  PROVE  /\ [conn EXCEPT !.state = st] \in ConnectionEnd
         /\ [conn EXCEPT !.state = st, !.versions = vs, !.counterparty.connectionId = id]
              \in ConnectionEnd
<1>1. [conn EXCEPT !.state = st] \in ConnectionEnd BY DEF ConnectionEnd
<1>2. /\ conn.counterparty \in [clientId: ClientIds, connectionId: ConnectionIds \cup {""}]
      /\ [conn.counterparty EXCEPT !.connectionId = id]
           \in [clientId: ClientIds, connectionId: ConnectionIds \cup {""}]
  BY DEF ConnectionEnd
<1>3. [conn EXCEPT !.state = st, !.versions = vs, !.counterparty.connectionId = id]
        \in ConnectionEnd
  BY <1>2 DEF ConnectionEnd
<1> QED BY <1>1, <1>3

\* The channel ends that ChanOpenConfirm, ChanOpenFinalize and the upstream build.
LEMMA ChannelTyped ==
  ASSUME NEW chan \in Channel, NEW st \in {"INIT", "TRYOPEN", "OPEN", "CLOSED"},
         NEW id \in ChannelIds \cup {""}
  PROVE  /\ [chan EXCEPT !.state = st] \in Channel
         /\ [chan EXCEPT !.state = st, !.counterparty.channelId = id] \in Channel
<1>1. [chan EXCEPT !.state = st] \in Channel BY DEF Channel
<1>2. /\ chan.counterparty \in [portId: PortIds, channelId: ChannelIds \cup {""}]
      /\ [chan.counterparty EXCEPT !.channelId = id]
           \in [portId: PortIds, channelId: ChannelIds \cup {""}]
  BY DEF Channel
<1>3. [chan EXCEPT !.state = st, !.counterparty.channelId = id] \in Channel
  BY <1>2 DEF Channel
<1> QED BY <1>1, <1>3

\* The other chain appends one block, a store.
Appends(c) ==
  \E s \in Store :
    /\ Len(ledger[c]) < MaxHeight
    /\ ledger' = [ledger EXCEPT ![c] = Append(@, s)]

\* A single write of a value of the path's kind.
LEMMA WriteAppends ==
  ASSUME TypeOK, NEW c \in Counterparties, NEW p \in Path, NEW v \in ValueAt(p),
         Write(c, p, v)
  PROVE  Appends(c)
<1>1. [Latest(c) EXCEPT ![p] = v] \in Store BY LatestTyped, StoreWrite
<1> QED BY <1>1 DEF Write, Appends

\* A connection handshake transaction appends a store.
LEMMA ConnectionStepAppends ==
  ASSUME TypeOK, NEW c \in Counterparties, ChainConnectionStep(c)
  PROVE  Appends(c)
<1>1. PICK id \in OwnConnectionIds[c] :
        \/ \E client \in ClientIds, cpClient \in PeerClientIds, vs \in SUBSET Versions :
             ChainConnOpenInit(c, id, client, cpClient, vs)
        \/ \E client \in ClientIds, cpClient \in PeerClientIds, cpConn \in ConnectionIds,
              v \in Versions :
             ChainConnOpenTry(c, id, client, cpClient, cpConn, v)
        \/ \E cpConn \in ConnectionIds, v \in Versions : ChainConnOpenAck(c, id, cpConn, v)
        \/ ChainConnOpenConfirm(c, id)
  BY DEF ChainConnectionStep
<1>2. /\ id \in ConnectionIds
      /\ ConnectionPath(id) \in Path
      /\ ValueAt(ConnectionPath(id)) = ConnectionEnd \cup {Absent}
  BY PathsTyped, InitLedgerAssumption
<1>3. Latest(c)[ConnectionPath(id)] # Absent
        => Latest(c)[ConnectionPath(id)] \in ConnectionEnd
  BY <1>2, LatestTyped, StoreRead
<1>4. ASSUME NEW client \in ClientIds, NEW cpClient \in PeerClientIds,
             NEW vs \in SUBSET Versions,
             ChainConnOpenInit(c, id, client, cpClient, vs)
      PROVE  Appends(c)
  <2>1. [state |-> "INIT", clientId |-> client, versions |-> vs,
         counterparty |-> [clientId |-> cpClient, connectionId |-> ""]] \in ConnectionEnd
    BY InitLedgerAssumption DEF ConnectionEnd
  <2> QED BY <1>2, <1>4, <2>1, WriteAppends DEF ChainConnOpenInit
<1>5. ASSUME NEW client \in ClientIds, NEW cpClient \in PeerClientIds,
             NEW cpConn \in ConnectionIds, NEW v \in Versions,
             ChainConnOpenTry(c, id, client, cpClient, cpConn, v)
      PROVE  Appends(c)
  <2>1. [state |-> "TRYOPEN", clientId |-> client, versions |-> {v},
         counterparty |-> [clientId |-> cpClient, connectionId |-> cpConn]]
           \in ConnectionEnd
    BY InitLedgerAssumption DEF ConnectionEnd
  <2> QED BY <1>2, <1>5, <2>1, WriteAppends DEF ChainConnOpenTry
<1>6. ASSUME NEW cpConn \in ConnectionIds, NEW v \in Versions,
             ChainConnOpenAck(c, id, cpConn, v)
      PROVE  Appends(c)
  <2> DEFINE conn == Latest(c)[ConnectionPath(id)]
             new == [conn EXCEPT !.state = "OPEN", !.versions = {v},
                                 !.counterparty.connectionId = cpConn]
  <2>1. conn \in ConnectionEnd BY <1>3, <1>6 DEF ChainConnOpenAck
  <2>2. new \in ConnectionEnd
    <3> HIDE DEF conn
    <3> QED BY <2>1, ConnectionEndTyped
  <2>3. Write(c, ConnectionPath(id), new) BY <1>6 DEF ChainConnOpenAck
  <2> QED BY <1>2, <2>2, <2>3, WriteAppends
<1>7. ASSUME ChainConnOpenConfirm(c, id)
      PROVE  Appends(c)
  <2> DEFINE conn == Latest(c)[ConnectionPath(id)]
             new == [conn EXCEPT !.state = "OPEN"]
  <2>1. conn \in ConnectionEnd BY <1>3, <1>7 DEF ChainConnOpenConfirm
  <2>2. new \in ConnectionEnd
    <3> HIDE DEF conn
    <3> QED BY <2>1, ConnectionEndTyped
  <2>3. Write(c, ConnectionPath(id), new) BY <1>7 DEF ChainConnOpenConfirm
  <2> QED BY <1>2, <2>2, <2>3, WriteAppends
<1> QED BY <1>1, <1>4, <1>5, <1>6, <1>7

\* A channel handshake transaction appends a store.
LEMMA ChannelStepAppends ==
  ASSUME TypeOK, NEW c \in Counterparties, ChainChannelStep(c)
  PROVE  Appends(c)
<1>1. PICK port \in PortIds, chan \in OwnChannelIds :
        \/ \E order \in Orders, cpPort \in PortIds, hop \in ConnectionIds :
             ChainChanOpenInit(c, port, chan, order, cpPort, hop)
        \/ \E order \in Orders, cpPort \in PortIds, cpChan \in ChannelIds,
              hop \in ConnectionIds :
             ChainChanOpenTry(c, port, chan, order, cpPort, cpChan, hop)
        \/ \E cpChan \in ChannelIds : ChainChanOpen(c, port, chan, cpChan)
        \/ ChainChanClose(c, port, chan)
  BY DEF ChainChannelStep
<1>2. /\ ChannelPath(port, chan) \in Path
      /\ ValueAt(ChannelPath(port, chan)) = Channel \cup {Absent}
  BY PathsTyped, InitLedgerAssumption
<1>3. Latest(c)[ChannelPath(port, chan)] # Absent
        => Latest(c)[ChannelPath(port, chan)] \in Channel
  BY <1>2, LatestTyped, StoreRead
<1>4. ASSUME NEW order \in Orders, NEW cpPort \in PortIds, NEW hop \in ConnectionIds,
             ChainChanOpenInit(c, port, chan, order, cpPort, hop)
      PROVE  Appends(c)
  <2>1. [state |-> "INIT", ordering |-> order, hop |-> hop,
         counterparty |-> [portId |-> cpPort, channelId |-> ""]] \in Channel
    BY DEF Channel
  <2> QED BY <1>2, <1>4, <2>1, WriteAppends DEF ChainChanOpenInit
<1>5. ASSUME NEW order \in Orders, NEW cpPort \in PortIds, NEW cpChan \in ChannelIds,
             NEW hop \in ConnectionIds,
             ChainChanOpenTry(c, port, chan, order, cpPort, cpChan, hop)
      PROVE  Appends(c)
  <2>1. [state |-> "TRYOPEN", ordering |-> order, hop |-> hop,
         counterparty |-> [portId |-> cpPort, channelId |-> cpChan]] \in Channel
    BY DEF Channel
  <2> QED BY <1>2, <1>5, <2>1, WriteAppends DEF ChainChanOpenTry
<1>6. ASSUME NEW cpChan \in ChannelIds, ChainChanOpen(c, port, chan, cpChan)
      PROVE  Appends(c)
  <2> DEFINE end == Latest(c)[ChannelPath(port, chan)]
             new == [end EXCEPT !.state = "OPEN", !.counterparty.channelId = cpChan]
  <2>1. end \in Channel BY <1>3, <1>6 DEF ChainChanOpen
  <2>2. new \in Channel
    <3> HIDE DEF end
    <3> QED BY <2>1, ChannelTyped
  <2>3. Write(c, ChannelPath(port, chan), new) BY <1>6 DEF ChainChanOpen
  <2> QED BY <1>2, <2>2, <2>3, WriteAppends
<1>7. ASSUME ChainChanClose(c, port, chan)
      PROVE  Appends(c)
  <2> DEFINE end == Latest(c)[ChannelPath(port, chan)]
             new == [end EXCEPT !.state = "CLOSED"]
  <2>1. end \in Channel BY <1>3, <1>7 DEF ChainChanClose
  <2>2. new \in Channel
    <3> HIDE DEF end
    <3> QED BY <2>1, ChannelTyped
  <2>3. Write(c, ChannelPath(port, chan), new) BY <1>7 DEF ChainChanClose
  <2> QED BY <1>2, <2>2, <2>3, WriteAppends
<1> QED BY <1>1, <1>4, <1>5, <1>6, <1>7

\* A packet transaction appends a store.
LEMMA PacketStepAppends ==
  ASSUME TypeOK, NEW c \in Counterparties, ChainPacketStep(c)
  PROVE  Appends(c)
<1>1. PICK port \in PortIds, chan \in OwnChannelIds, seq \in Sequence :
        \/ \E payload \in Payloads : ChainSendPacket(c, port, chan, seq, payload)
        \/ ChainDeleteCommitment(c, port, chan, seq)
        \/ \E ack \in Acks : ChainWriteAck(c, port, chan, seq, ack)
  BY DEF ChainPacketStep
<1>2. /\ CommitmentPath(port, chan, seq) \in Path
      /\ ValueAt(CommitmentPath(port, chan, seq)) = Payloads \cup {Absent}
      /\ AckPath(port, chan, seq) \in Path
      /\ ValueAt(AckPath(port, chan, seq)) = AckCommitments \cup {Absent}
  BY PathsTyped, InitLedgerAssumption
<1>3. ASSUME NEW payload \in Payloads, ChainSendPacket(c, port, chan, seq, payload)
      PROVE  Appends(c)
  BY <1>2, <1>3, WriteAppends DEF ChainSendPacket
<1>4. ASSUME ChainDeleteCommitment(c, port, chan, seq)
      PROVE  Appends(c)
  BY <1>2, <1>4, WriteAppends DEF ChainDeleteCommitment
<1>5. ASSUME NEW ack \in Acks, ChainWriteAck(c, port, chan, seq, ack)
      PROVE  Appends(c)
  <2>1. CommitAcknowledgement(ack) \in AckCommitments BY DEF AckCommitments
  <2> QED BY <1>2, <1>5, <2>1, WriteAppends DEF ChainWriteAck
<1> QED BY <1>1, <1>3, <1>4, <1>5

\* Whatever happens to a client, it stays the same client, and its consensus state is one
\* of its chain.
SetsClient(c, id, h) ==
  \E new \in ClientState, cons \in ConsensusState :
    /\ SetClient(c, id, new, h, cons)
    /\ Latest(c)[ClientPath(id)] # Absent => SameClient(Latest(c)[ClientPath(id)], new)
    /\ cons.kind \in {"tm", new.kind} /\ cons.chain = new.chain

\* A state of a client with another latest height, and for a Tendermint client perhaps
\* without its wrapper, is a state of the same client.
LEMMA SameClientTyped ==
  ASSUME NEW cs \in ClientState, NEW h \in Height
  PROVE  /\ [cs EXCEPT !.latest = h] \in ClientState
         /\ [cs EXCEPT !.latest = h].kind = cs.kind
         /\ [cs EXCEPT !.latest = h].chain = cs.chain
         /\ cs # Absent => SameClient(cs, [cs EXCEPT !.latest = h])
         /\ cs.latest \in Height /\ cs.kind \in {"tm", "proxy"}
         /\ cs.chain \in Counterparties \cup {ProxyChain}
<1>1. CASE cs \in TMClient
  <2>1. [cs EXCEPT !.latest = h] \in TMClient BY <1>1 DEF TMClient
  <2>2. [cs EXCEPT !.latest = h] # Absent
    BY <2>1, AbsentAssumption DEF ClientState
  <2> QED BY <1>1, <2>1, <2>2 DEF TMClient, ClientState, SameClient
<1>2. CASE cs \in ProxyClient
  <2>1. [cs EXCEPT !.latest = h] \in ProxyClient BY <1>2 DEF ProxyClient
  <2>2. [cs EXCEPT !.latest = h] # Absent
    BY <2>1, AbsentAssumption DEF ClientState
  <2> QED BY <1>2, <2>1, <2>2 DEF ProxyClient, ClientState, SameClient
<1> QED BY <1>1, <1>2 DEF ClientState

\* A client that is created, updated, upgraded or substituted.
LEMMA ClientStepSets ==
  ASSUME TypeOK, NEW c \in Counterparties, ChainClientStep(c)
  PROVE  \E id \in ClientIds, h \in Height : SetsClient(c, id, h)
<1>1. ASSUME NEW new \in NewClients, ChainCreateClient(c, new[1], new[2])
      PROVE  \E id \in ClientIds, h \in Height : SetsClient(c, id, h)
  <2> DEFINE id == new[1]
             cs == new[2]
             cons == [kind |-> cs.kind, chain |-> cs.chain, height |-> cs.latest]
  <2>1. id \in ClientIds /\ cs \in ClientState BY InitLedgerAssumption
  <2>2. /\ SetClient(c, id, cs, cs.latest, cons)
        /\ Latest(c)[ClientPath(id)] = Absent
    BY <1>1 DEF ChainCreateClient
  <2> HIDE DEF id, cs
  <2>3. cs.latest \in Height /\ cons \in ConsensusState
    BY <2>1 DEF ClientState, TMClient, ProxyClient, ConsensusState
  <2>4. cons.kind = cs.kind /\ cons.chain = cs.chain OBVIOUS
  <2>5. SetsClient(c, id, cs.latest)
    <3> HIDE DEF cons
    <3> QED BY <2>1, <2>2, <2>3, <2>4 DEF SetsClient
  <2> QED BY <2>1, <2>3, <2>5
<1>2. ASSUME NEW id \in ClientIds, Latest(c)[ClientPath(id)] # Absent
      PROVE  Latest(c)[ClientPath(id)] \in ClientState
  BY <1>2, LatestTyped, StoreRead, PathsTyped
<1>3. ASSUME NEW id \in ClientIds, NEW h \in Height, ChainUpdateClient(c, id, h)
      PROVE  SetsClient(c, id, h)
  <2> DEFINE cs == Latest(c)[ClientPath(id)]
             l == IF h > cs.latest THEN h ELSE cs.latest
             new == [cs EXCEPT !.latest = l]
             cons == [kind |-> cs.kind, chain |-> cs.chain, height |-> h]
  <2>1. cs # Absent /\ cs \in ClientState BY <1>2, <1>3 DEF ChainUpdateClient
  <2>2. SetClient(c, id, new, h, cons) BY <1>3 DEF ChainUpdateClient
  <2> HIDE DEF cs
  <2>3. l \in Height BY <2>1, SameClientTyped
  <2>4. cons \in ConsensusState BY <2>1, SameClientTyped DEF ConsensusState
  <2> HIDE DEF l
  <2>5. /\ new \in ClientState /\ SameClient(cs, new)
        /\ cons.kind = new.kind /\ cons.chain = new.chain
    BY <2>1, <2>3, SameClientTyped
  <2> HIDE DEF new, cons
  <2> QED BY <2>2, <2>4, <2>5 DEF SetsClient, cs
<1>4. ASSUME NEW id \in ClientIds, ChainUpgradeClient(c, id)
      PROVE  \E h \in Height : SetsClient(c, id, h)
  <2> DEFINE cs == Latest(c)[ClientPath(id)]
             h == cs.latest + 1
             new == [cs EXCEPT !.multiv = FALSE, !.latest = h]
             cons == [kind |-> "tm", chain |-> cs.chain, height |-> NoBlock]
  <2>1. cs # Absent /\ cs \in ClientState /\ cs.kind = "tm" /\ cs.latest < MaxHeight
    BY <1>2, <1>4 DEF ChainUpgradeClient
  <2>2. SetClient(c, id, new, h, cons) BY <1>4 DEF ChainUpgradeClient
  <2> HIDE DEF cs
  <2>3. cs \in TMClient BY <2>1 DEF ClientState, ProxyClient
  <2>4. h \in Height BY <2>1, <2>3, BoundsTyped DEF TMClient, Height
  <2>5. cons \in ConsensusState BY <2>3 DEF TMClient, ConsensusState
  <2> HIDE DEF h
  <2>6. /\ new \in TMClient /\ new.kind = cs.kind /\ new.chain = cs.chain
        /\ cs.kind = "tm"
    BY <2>3, <2>4 DEF TMClient
  <2>7. cons.kind = "tm" /\ cons.chain = cs.chain OBVIOUS
  <2> HIDE DEF new, cons
  <2>8. new \in ClientState /\ new # Absent BY <2>6, AbsentAssumption DEF ClientState
  <2>9. SameClient(cs, new) BY <2>1, <2>6, <2>8 DEF SameClient
  <2> QED BY <2>2, <2>4, <2>5, <2>6, <2>7, <2>8, <2>9 DEF SetsClient, cs
<1>5. ASSUME NEW id \in ClientIds, NEW h \in Height, ChainSubstituteClient(c, id, h)
      PROVE  SetsClient(c, id, h)
  <2> DEFINE cs == Latest(c)[ClientPath(id)]
             new == [cs EXCEPT !.latest = h]
             cons == [kind |-> "tm", chain |-> cs.chain, height |-> h]
  <2>1. cs # Absent /\ cs \in ClientState BY <1>2, <1>5 DEF ChainSubstituteClient
  <2>2. SetClient(c, id, new, h, cons) BY <1>5 DEF ChainSubstituteClient
  <2> HIDE DEF cs
  <2>3. cons \in ConsensusState BY <2>1, SameClientTyped DEF ConsensusState
  <2>4. new \in ClientState /\ SameClient(cs, new) /\ new.chain = cs.chain
    BY <2>1, SameClientTyped
  <2>5. cons.kind = "tm" /\ cons.chain = cs.chain OBVIOUS
  <2> HIDE DEF new, cons
  <2> QED BY <2>2, <2>3, <2>4, <2>5 DEF SetsClient, cs
<1> QED BY <1>1, <1>3, <1>4, <1>5 DEF ChainClientStep

\* A step of a client appends a store.
LEMMA SetsClientAppends ==
  ASSUME TypeOK, NEW c \in Counterparties, NEW id \in ClientIds, NEW h \in Height,
         SetsClient(c, id, h)
  PROVE  Appends(c)
<1>1. PICK new \in ClientState, cons \in ConsensusState : SetClient(c, id, new, h, cons)
  BY DEF SetsClient
<1>2. [Latest(c) EXCEPT ![ClientPath(id)] = new] \in Store
  BY LatestTyped, StoreWrite, PathsTyped
<1>3. [[Latest(c) EXCEPT ![ClientPath(id)] = new]
         EXCEPT ![ConsensusPath(id, h)] = cons] \in Store
  BY <1>2, StoreWrite, PathsTyped
<1> QED BY <1>1, <1>3 DEF SetClient, Appends

\* Every transaction of another chain appends a store to its history.
LEMMA ChainStepAppends ==
  ASSUME TypeOK, NEW c \in Counterparties, ChainStep(c)
  PROVE  Appends(c)
BY ClientStepSets, SetsClientAppends, ConnectionStepAppends, ChannelStepAppends,
   PacketStepAppends
   DEF ChainStep

-----------------------------------------------------------------------------
(* Messages of the proxy module.                                           *)

\* A message changes the store below one upstream client, and only to values that this
\* client vouches for at the height of the message.
Mirrors(u, h) ==
  \E s \in Store :
    /\ proxy' = [proxy EXCEPT ![u] = s]
    /\ \A p \in Path :
         s[p] # proxy[u][p] =>
           s[p] # Absent /\ h \in consensus[u] /\ s[p] \in Attested(u, h, p)

\* What a proof verifies is a value of the path's kind, or nothing.
LEMMA ProvenTyped ==
  ASSUME TypeOK, NEW u \in UpstreamClients, NEW h, NEW p \in Path
  PROVE  Proven(u, h, p) \in ValueAt(p)
<1>1. CASE h \in consensus[u]
  <2>1. Tracks[u] \in Counterparties /\ h \in 1..Len(ledger[Tracks[u]])
    BY <1>1, ConstantsAssumption DEF TypeOK
  <2> QED BY <1>1, <2>1, BlockTyped, StoreRead DEF Proven
<1>2. CASE h \notin consensus[u]
  BY <1>2, ValueAtTyped DEF Proven
<1> QED BY <1>1, <1>2

\* A place where there is a block to look a client up in.
Place(s) ==
  /\ s.chain \in Counterparties
  /\ s.height \in 1..Len(ledger[s.chain])
  /\ s.clientId \in ClientIds

\* A step of verifyProxyState leads from a block to a block.
LEMMA FollowTyped ==
  ASSUME TypeOK, NEW s, Place(s), NEW t \in Follow(s)
  PROVE  Place(t)
<1> DEFINE block == ledger[s.chain][s.height]
           head == block[ClientPath(s.clientId)]
<1>1. block \in Store BY BlockTyped DEF Place
<1>2. head \in ClientState /\ head.kind = "proxy"
  BY <1>1, StoreRead, PathsTyped DEF Follow, Place
<1>3. head.upstreamClientId \in ClientIds
  <2> HIDE DEF head
  <2> QED BY <1>2 DEF ClientState, TMClient, ProxyClient
<1>4. PICK hc \in Height :
        LET cons == block[ConsensusPath(s.clientId, hc)] IN
        /\ t = Site(cons.chain, cons.height, head.upstreamClientId)
        /\ cons # Absent
        /\ cons.chain \in Counterparties
        /\ cons.height \in 1..Len(ledger[cons.chain])
  BY DEF Follow
<1> QED BY <1>3, <1>4 DEF Site, Place

\* The place where the lookup of a client of the upstream starts.
LEMMA StartTyped ==
  ASSUME TypeOK, NEW u \in UpstreamClients, NEW h \in consensus[u], NEW id \in ClientIds
  PROVE  Place(Site(Tracks[u], h, id))
BY ConstantsAssumption DEF TypeOK, Site, Place

\* Where a client is looked up, there is a block.
LEMMA SitesTyped ==
  ASSUME TypeOK, NEW u \in UpstreamClients, NEW h, NEW id \in ClientIds,
         NEW s \in ClientSites(u, h, id)
  PROVE  /\ h \in consensus[u]
         /\ s.chain \in Counterparties
         /\ s.height \in 1..Len(ledger[s.chain])
         /\ s.clientId \in ClientIds
<1> DEFINE start == Site(Tracks[u], h, id)
<1>1. h \in consensus[u] BY DEF ClientSites
<1>2. Place(start) BY <1>1, StartTyped
<1>3. CASE u \notin MultiV
  <2>1. s = start BY <1>1, <1>3 DEF ClientSites
  <2> QED BY <1>1, <1>2, <2>1 DEF Place
<1>4. CASE u \in MultiV
  <2>1. s \in VerifyProxyState(u, start) BY <1>1, <1>4 DEF ClientSites
  <2> HIDE DEF start
  <2>2. CASE Depth[u] = 0
    <3>1. s \in Follow(start) BY <2>1, <2>2 DEF VerifyProxyState
    <3> QED BY <1>1, <1>2, <3>1, FollowTyped DEF Place
  <2>3. CASE Depth[u] # 0
    <3>1. PICK r \in Follow(start) : s \in Follow(r)
      BY <2>1, <2>3 DEF VerifyProxyState
    <3>2. Place(r) BY <1>2, FollowTyped
    <3> QED BY <1>1, <3>1, <3>2, FollowTyped DEF Place
  <2> QED BY <2>2, <2>3
<1> QED BY <1>3, <1>4

\* What VerifyClientState and VerifyClientConsensusState accept has its type.
LEMMA ProvableTyped ==
  ASSUME TypeOK, NEW u \in UpstreamClients, NEW h, NEW id \in ClientIds
  PROVE  /\ \A cs \in ProvableClientStates(u, h, id) :
              cs \in ClientState /\ cs # Absent /\ h \in consensus[u]
         /\ \A hc \in Height : \A cons \in ProvableConsensusStates(u, h, id, hc) :
              cons \in ConsensusState /\ cons # Absent
<1>1. ASSUME NEW cs \in ProvableClientStates(u, h, id)
      PROVE  cs \in ClientState /\ cs # Absent /\ h \in consensus[u]
  <2>1. PICK s \in ClientSites(u, h, id) :
          cs = ledger[s.chain][s.height][ClientPath(s.clientId)]
    BY DEF ProvableClientStates
  <2>2. ledger[s.chain][s.height] \in Store BY SitesTyped, BlockTyped
  <2> QED BY <2>1, <2>2, SitesTyped, StoreRead, PathsTyped DEF ProvableClientStates
<1>2. ASSUME NEW hc \in Height, NEW cons \in ProvableConsensusStates(u, h, id, hc)
      PROVE  cons \in ConsensusState /\ cons # Absent
  <2>1. PICK s \in ClientSites(u, h, id) :
          cons = ledger[s.chain][s.height][ConsensusPath(s.clientId, hc)]
    BY DEF ProvableConsensusStates
  <2>2. ledger[s.chain][s.height] \in Store BY SitesTyped, BlockTyped
  <2> QED BY <2>1, <2>2, SitesTyped, StoreRead, PathsTyped DEF ProvableConsensusStates
<1> QED BY <1>1, <1>2

\* What Attested means for each kind of path.
LEMMA AttestedByKind ==
  ASSUME NEW u, NEW h
  PROVE  /\ \A id : Attested(u, h, ClientPath(id)) = ProvableClientStates(u, h, id)
         /\ \A id, hc : Attested(u, h, ConsensusPath(id, hc))
                          = ProvableConsensusStates(u, h, id, hc)
         /\ \A id : Attested(u, h, ConnectionPath(id))
                      = {Proven(u, h, ConnectionPath(id))}
         /\ \A port, chan : Attested(u, h, ChannelPath(port, chan))
                              = {Proven(u, h, ChannelPath(port, chan))}
         /\ \A port, chan, seq : Attested(u, h, CommitmentPath(port, chan, seq))
                                   = {Proven(u, h, CommitmentPath(port, chan, seq))}
         /\ \A port, chan, seq : Attested(u, h, AckPath(port, chan, seq))
                                   = {Proven(u, h, AckPath(port, chan, seq))}
BY DEF Attested, ClientPath, ConsensusPath, ConnectionPath, ChannelPath,
       CommitmentPath, AckPath

\* One verified write, at a path where the light client vouches for a single value.
LEMMA VerifiedWrite ==
  ASSUME TypeOK, NEW u \in UpstreamClients, NEW h, NEW p \in Path,
         NEW v, VerifyMembership(u, h, p, v),
         Attested(u, h, p) = {Proven(u, h, p)},
         proxy' = [proxy EXCEPT ![u] = [@ EXCEPT ![p] = v]]
  PROVE  Mirrors(u, h)
<1> DEFINE s == [proxy[u] EXCEPT ![p] = v]
<1>1. v \in ValueAt(p) /\ v # Absent /\ v \in Attested(u, h, p)
  BY ProvenTyped DEF VerifyMembership
<1>2. h \in consensus[u] BY DEF VerifyMembership, Proven
<1>3. proxy[u] \in Store BY DEF TypeOK
<1>4. s \in Store BY <1>1, <1>3, StoreWrite
<1>5. \A q \in Path : s[q] # proxy[u][q] => q = p /\ s[q] = v
  BY <1>3 DEF Store
<1>6. proxy' = [proxy EXCEPT ![u] = s] OBVIOUS
<1> HIDE DEF s
<1> QED BY <1>1, <1>2, <1>4, <1>5, <1>6 DEF Mirrors

\* ProxyClientState stores two attested values, and nothing else.
LEMMA ClientMsgMirrors ==
  ASSUME TypeOK, NEW u \in UpstreamClients, NEW h \in Height, ClientMsg(u, h)
  PROVE  Mirrors(u, h)
<1>0. PICK id \in ClientIds, hc \in Height : ProxyClientState(u, id, h, hc)
  BY DEF ClientMsg
<1>1. PICK cs \in ProvableClientStates(u, h, id),
           cons \in ProvableConsensusStates(u, h, id, hc) :
        proxy' = [proxy EXCEPT ![u] = [@ EXCEPT ![ClientPath(id)] = cs,
                                                ![ConsensusPath(id, hc)] = cons]]
  BY <1>0 DEF ProxyClientState
<1> DEFINE s1 == [proxy[u] EXCEPT ![ClientPath(id)] = cs]
           s == [s1 EXCEPT ![ConsensusPath(id, hc)] = cons]
<1>2. proxy[u] \in Store BY DEF TypeOK
<1>3. /\ cs \in ClientState /\ cs # Absent
      /\ cons \in ConsensusState /\ cons # Absent
      /\ h \in consensus[u]
  BY ProvableTyped
<1>4. s1 \in Store BY <1>2, <1>3, StoreWrite, PathsTyped
<1>5. s \in Store
  <2> HIDE DEF s1
  <2> QED BY <1>3, <1>4, StoreWrite, PathsTyped
<1>6. \A q \in Path : s[q] # proxy[u][q] =>
        \/ q = ClientPath(id) /\ s[q] = cs
        \/ q = ConsensusPath(id, hc) /\ s[q] = cons
  BY <1>2, <1>4 DEF Store
<1>7. proxy' = [proxy EXCEPT ![u] = s] BY <1>1
<1>8. cs \in Attested(u, h, ClientPath(id)) /\ cons \in Attested(u, h, ConsensusPath(id, hc))
  BY AttestedByKind
<1> HIDE DEF s
<1> QED BY <1>3, <1>5, <1>6, <1>7, <1>8 DEF Mirrors

\* So does the common part of ConnOpenTry and ConnOpenAck, with the connection end.
LEMMA NewConnectionMirrors ==
  ASSUME TypeOK, NEW u \in UpstreamClients, NEW h \in Height, NEW id \in ConnectionIds,
         NEW hc \in Height, NEW hp, NEW state,
         ProxyNewConnection(u, id, state, h, hc, hp)
  PROVE  Mirrors(u, h)
<1> DEFINE conn == Proven(u, h, ConnectionPath(id))
<1>1. PICK cs \in ProvableClientStates(u, h, conn.clientId),
           cons \in ProvableConsensusStates(u, h, conn.clientId, hc) :
        proxy' = [proxy EXCEPT ![u] = [@ EXCEPT
                      ![ClientPath(conn.clientId)] = cs,
                      ![ConsensusPath(conn.clientId, hc)] = cons,
                      ![ConnectionPath(id)] = conn]]
  BY DEF ProxyNewConnection
<1>2. conn # Absent /\ conn \in ConnectionEnd
  BY ProvenTyped, PathsTyped DEF ProxyNewConnection
<1>3. conn \in Attested(u, h, ConnectionPath(id)) BY AttestedByKind
<1> HIDE DEF conn
<1> DEFINE client == conn.clientId
           s1 == [proxy[u] EXCEPT ![ClientPath(client)] = cs]
           s2 == [s1 EXCEPT ![ConsensusPath(client, hc)] = cons]
           s == [s2 EXCEPT ![ConnectionPath(id)] = conn]
<1>4. client \in ClientIds BY <1>2 DEF ConnectionEnd
<1>5. proxy[u] \in Store BY DEF TypeOK
<1>6. /\ cs \in ClientState /\ cs # Absent
      /\ cons \in ConsensusState /\ cons # Absent
      /\ h \in consensus[u]
  BY <1>4, ProvableTyped
<1>7. proxy' = [proxy EXCEPT ![u] = s] BY <1>1
<1>8. cs \in Attested(u, h, ClientPath(client))
      /\ cons \in Attested(u, h, ConsensusPath(client, hc))
  BY AttestedByKind
<1> HIDE DEF client
<1>9. s1 \in Store BY <1>4, <1>5, <1>6, StoreWrite, PathsTyped
<1>10. s2 \in Store
  <2> HIDE DEF s1
  <2> QED BY <1>4, <1>6, <1>9, StoreWrite, PathsTyped
<1>11. s \in Store
  <2> HIDE DEF s2
  <2> QED BY <1>2, <1>10, StoreWrite, PathsTyped
<1>12. \A q \in Path : s[q] # proxy[u][q] =>
         \/ q = ClientPath(client) /\ s[q] = cs
         \/ q = ConsensusPath(client, hc) /\ s[q] = cons
         \/ q = ConnectionPath(id) /\ s[q] = conn
  BY <1>5, <1>9, <1>10 DEF Store
<1> HIDE DEF s
<1> QED BY <1>2, <1>3, <1>6, <1>7, <1>8, <1>11, <1>12 DEF Mirrors

\* Every handler mirrors: one case per message.
LEMMA MsgMirrors ==
  ASSUME TypeOK, NEW u \in UpstreamClients, NEW h \in Height, Msg(u, h)
  PROVE  Mirrors(u, h)
<1>1. CASE ClientMsg(u, h) BY <1>1, ClientMsgMirrors
<1>2. CASE ConnectionMsg(u, h)
  <2>1. PICK id \in ConnectionIds :
          \/ \E hc, hp \in Height : ConnOpenTry(u, id, h, hc, hp)
          \/ \E hc, hp \in Height : ConnOpenAck(u, id, h, hc, hp)
          \/ \E cpConn \in ConnectionIds : ConnOpenConfirm(u, id, cpConn, h)
          \/ ConnOpenFinalize(u, id, h)
    BY <1>2 DEF ConnectionMsg
  <2>2. ConnectionPath(id) \in Path
        /\ Attested(u, h, ConnectionPath(id)) = {Proven(u, h, ConnectionPath(id))}
    BY PathsTyped, AttestedByKind
  <2>3. CASE \E hc, hp \in Height : ConnOpenTry(u, id, h, hc, hp)
    BY <2>3, NewConnectionMirrors DEF ConnOpenTry
  <2>4. CASE \E hc, hp \in Height : ConnOpenAck(u, id, h, hc, hp)
    BY <2>4, NewConnectionMirrors DEF ConnOpenAck
  <2>5. CASE \E cpConn \in ConnectionIds : ConnOpenConfirm(u, id, cpConn, h)
    <3>1. PICK cpConn \in ConnectionIds : ConnOpenConfirm(u, id, cpConn, h) BY <2>5
    <3> QED BY <2>2, <3>1, VerifiedWrite
          DEF ConnOpenConfirm, VerifyAndProxyConnectionState, SetProxyConnection
  <2>6. CASE ConnOpenFinalize(u, id, h)
    BY <2>2, <2>6, VerifiedWrite
       DEF ConnOpenFinalize, VerifyAndProxyConnectionState, SetProxyConnection
  <2> QED BY <2>1, <2>3, <2>4, <2>5, <2>6
<1>3. CASE ChannelMsg(u, h)
  <2>1. PICK port \in PortIds, chan \in ChannelIds :
          \/ \E order \in Orders, cpPort \in PortIds, hop \in ConnectionIds :
               ChanOpenTry(u, port, chan, order, cpPort, hop, h)
          \/ \E order \in Orders, cpPort \in PortIds, cpChan \in ChannelIds,
                hop \in ConnectionIds :
               ChanOpenAck(u, port, chan, order, cpPort, cpChan, hop, h)
          \/ \E cpChan \in ChannelIds : ChanOpenConfirm(u, port, chan, cpChan, h)
          \/ ChanOpenFinalize(u, port, chan, h)
    BY <1>3 DEF ChannelMsg
  <2>2. ChannelPath(port, chan) \in Path
        /\ Attested(u, h, ChannelPath(port, chan)) = {Proven(u, h, ChannelPath(port, chan))}
    BY PathsTyped, AttestedByKind
  <2>3. ASSUME NEW channel, VerifyAndProxyChannelState(u, h, port, chan, channel)
        PROVE  Mirrors(u, h)
    BY <2>2, <2>3, VerifiedWrite DEF VerifyAndProxyChannelState, SetProxyChannel
  <2> QED BY <2>1, <2>3
        DEF ChanOpenTry, ChanOpenAck, ChanOpenConfirm, ChanOpenFinalize
<1>4. CASE PacketMsg(u, h)
  <2>1. ASSUME NEW packet \in Packet, RecvPacket(u, packet, h)
        PROVE  Mirrors(u, h)
    <3> DEFINE p == CommitmentPath(packet.sourcePort, packet.sourceChannel, packet.sequence)
    <3>1. /\ packet.sourcePort \in PortIds /\ packet.sourceChannel \in ChannelIds
          /\ packet.sequence \in Sequence
      BY DEF Packet
    <3>2. p \in Path /\ Attested(u, h, p) = {Proven(u, h, p)}
      BY <3>1, PathsTyped, AttestedByKind
    <3> QED BY <2>1, <3>2, VerifiedWrite
          DEF RecvPacket, VerifyAndProxyPacketCommitment, SetProxyPacketCommitment
  <2>2. ASSUME NEW port \in PortIds, NEW chan \in ChannelIds, NEW seq \in Sequence,
               NEW ack \in Acks, AcknowledgePacket(u, port, chan, seq, ack, h)
        PROVE  Mirrors(u, h)
    <3> DEFINE p == AckPath(port, chan, seq)
    <3>1. p \in Path /\ Attested(u, h, p) = {Proven(u, h, p)}
      BY PathsTyped, AttestedByKind
    <3> QED BY <2>2, <3>1, VerifiedWrite
          DEF AcknowledgePacket, VerifyAndProxyPacketAcknowledgement,
              SetProxyPacketAcknowledgement
  <2> QED BY <1>4, <2>1, <2>2 DEF PacketMsg
<1> QED BY <1>1, <1>2, <1>3, <1>4 DEF Msg

-----------------------------------------------------------------------------
(* Type correctness.                                                       *)

\* Histories grow at the end only, and clients forget no consensus state.
Grows ==
  /\ ledger' \in [Counterparties -> Seq(Store)]
  /\ \A c \in Counterparties :
       /\ Len(ledger'[c]) \in Height
       /\ Len(ledger[c]) <= Len(ledger'[c])
       /\ \A i \in 1..Len(ledger[c]) : ledger'[c][i] = ledger[c][i]
  /\ \A u \in UpstreamClients : consensus[u] \subseteq consensus'[u]

\* A block appended to one chain makes the histories grow.
LEMMA AppendsGrows ==
  ASSUME TypeOK, NEW c \in Counterparties, Appends(c), UNCHANGED consensus
  PROVE  Grows
<1>1. PICK s \in Store : /\ Len(ledger[c]) < MaxHeight
                         /\ ledger' = [ledger EXCEPT ![c] = Append(@, s)]
  BY DEF Appends
<1>2. /\ ledger \in [Counterparties -> Seq(Store)]
      /\ \A d \in Counterparties : Len(ledger[d]) \in Height
  BY DEF TypeOK
<1>3. /\ Append(ledger[c], s) \in Seq(Store)
      /\ Len(Append(ledger[c], s)) = Len(ledger[c]) + 1
      /\ \A i \in 1..Len(ledger[c]) : Append(ledger[c], s)[i] = ledger[c][i]
  BY <1>2
<1>4. Len(ledger[c]) \in Height /\ Len(ledger[c]) + 1 \in Height
  <2> DEFINE n == Len(ledger[c])
  <2>1. n \in 1..MaxHeight /\ n < MaxHeight BY <1>1, <1>2 DEF Height
  <2> HIDE DEF n
  <2>2. n \in 1..MaxHeight /\ n + 1 \in 1..MaxHeight BY <2>1, BoundsTyped
  <2> QED BY <2>2 DEF n, Height
<1>5. \A d \in Counterparties :
        ledger'[d] = IF d = c THEN Append(ledger[c], s) ELSE ledger[d]
  BY <1>1, <1>2
<1>6. ledger' \in [Counterparties -> Seq(Store)] BY <1>1, <1>2, <1>3
<1>7. ASSUME NEW d \in Counterparties
      PROVE  /\ Len(ledger'[d]) \in Height
             /\ Len(ledger[d]) <= Len(ledger'[d])
             /\ \A i \in 1..Len(ledger[d]) : ledger'[d][i] = ledger[d][i]
  <2>1. CASE d = c
    <3>1. ledger'[d] = Append(ledger[d], s) BY <1>5, <2>1
    <3>2. Len(ledger'[d]) = Len(ledger[d]) + 1 /\ Len(ledger[d]) \in Nat
      BY <1>2, <1>3, <2>1, <3>1
    <3> QED BY <1>3, <1>4, <2>1, <3>1, <3>2
  <2>2. CASE d # c BY <1>2, <1>5, <2>2 DEF Height
  <2> QED BY <2>1, <2>2
<1> QED BY <1>6, <1>7 DEF Grows

\* Nothing grows when histories and clients stay the same.
LEMMA SameGrows ==
  ASSUME TypeOK, UNCHANGED <<ledger, consensus>>
  PROVE  Grows
<1>1. \A c \in Counterparties : Len(ledger[c]) \in Nat
  BY DEF TypeOK, Height
<1> QED BY <1>1 DEF TypeOK, Grows

\* Every step of the system is a block of another chain, a header for a client, a
\* message that mirrors, a block of the proxy chain, or a stuttering step; and types
\* are kept.
LEMMA StepTyped ==
  ASSUME TypeOK, [Next]_vars
  PROVE  TypeOK' /\ Grows
<1>0. \A u \in UpstreamClients : Tracks[u] \in Counterparties
  BY ConstantsAssumption
<1>1. ASSUME NEW c \in Counterparties, ChainStep(c),
             UNCHANGED <<consensus, proxy, headers>>
      PROVE  TypeOK' /\ Grows
  <2>1. Grows BY <1>1, ChainStepAppends, AppendsGrows
  <2>2. UNCHANGED blocks BY <1>1 DEF ChainStep
  <2>3. ASSUME NEW u \in UpstreamClients
        PROVE  consensus'[u] \subseteq 1..Len(ledger'[Tracks[u]])
    <3>1. /\ Len(ledger[Tracks[u]]) \in Nat /\ Len(ledger'[Tracks[u]]) \in Nat
          /\ Len(ledger[Tracks[u]]) <= Len(ledger'[Tracks[u]])
      BY <1>0, <2>1 DEF Grows, TypeOK, Height
    <3>2. consensus[u] \subseteq 1..Len(ledger[Tracks[u]]) BY DEF TypeOK
    <3> QED BY <1>1, <3>1, <3>2
  <2> QED BY <1>1, <2>1, <2>2, <2>3 DEF TypeOK, Grows
<1>2. ASSUME NEW u \in UpstreamClients, NEW h \in Height, UpdateClient(u, h)
      PROVE  TypeOK' /\ Grows
  <2>1. /\ h \in 1..Len(ledger[Tracks[u]])
        /\ consensus' = [consensus EXCEPT ![u] = @ \cup {h}]
        /\ UNCHANGED <<ledger, blocks, proxy, headers>>
    BY <1>2 DEF UpdateClient
  <2>2. consensus' \in [UpstreamClients -> SUBSET Height]
    BY <2>1 DEF TypeOK
  <2>3. \A t \in UpstreamClients : consensus'[t] \subseteq 1..Len(ledger'[Tracks[t]])
    BY <2>1 DEF TypeOK
  <2>4. \A t \in UpstreamClients : consensus[t] \subseteq consensus'[t]
    BY <2>1 DEF TypeOK
  <2>5. \A c \in Counterparties : Len(ledger[c]) \in Nat
    BY DEF TypeOK, Height
  <2> QED BY <2>1, <2>2, <2>3, <2>4, <2>5 DEF TypeOK, Grows
<1>3. ASSUME NEW u \in UpstreamClients, NEW h \in Height, Msg(u, h)
      PROVE  TypeOK' /\ Grows
  <2>1. PICK s \in Store : proxy' = [proxy EXCEPT ![u] = s]
    BY <1>3, MsgMirrors DEF Mirrors
  <2>2. UNCHANGED <<ledger, blocks, consensus, headers>> BY <1>3 DEF Msg
  <2>3. Grows BY <2>2, SameGrows
  <2> QED BY <2>1, <2>2, <2>3 DEF TypeOK
<1>4. ASSUME Commit
      PROVE  TypeOK' /\ Grows
  <2>1. /\ Len(blocks) < MaxBlocks
        /\ blocks' = Append(blocks, proxy)
        /\ UNCHANGED <<ledger, consensus, proxy>>
    BY <1>4 DEF Commit
  <2>2. blocks' \in Seq([UpstreamClients -> Store]) /\ Len(blocks') = Len(blocks) + 1
    BY <2>1 DEF TypeOK
  <2>3. Len(blocks') \in 1..MaxBlocks
    <3>1. Len(blocks) \in Nat /\ 1 <= Len(blocks) BY DEF TypeOK
    <3> QED BY <2>1, <2>2, <3>1, BoundsTyped
  <2>4. Grows BY <2>1, SameGrows
  <2>5. headers' \subseteq 1..Len(blocks')
    <3>1. headers' \subseteq headers \cup {Len(blocks')}
      BY <1>4 DEF Commit, TrackHistoricalInfo
    <3>2. headers \subseteq 1..Len(blocks) /\ Len(blocks) \in Nat BY DEF TypeOK
    <3> QED BY <2>2, <3>1, <3>2
  <2> QED BY <2>1, <2>2, <2>3, <2>4, <2>5 DEF TypeOK
<1>5. ASSUME UNCHANGED vars
      PROVE  TypeOK' /\ Grows
  <2>1. UNCHANGED <<ledger, blocks, consensus, proxy, headers>> BY <1>5 DEF vars
  <2>2. Grows BY <2>1, SameGrows
  <2> QED BY <2>1, <2>2 DEF TypeOK
<1> QED BY <1>1, <1>2, <1>3, <1>4, <1>5 DEF Next

\* TypeOK holds initially.
LEMMA InitTyped == Init => TypeOK
<1> SUFFICES ASSUME Init PROVE TypeOK OBVIOUS
<1>1. proxy \in [UpstreamClients -> Store] BY EmptyStoreTyped DEF Init
<1>2. blocks = <<proxy>> BY DEF Init
<1>3. blocks \in Seq([UpstreamClients -> Store]) /\ Len(blocks) = 1 BY <1>1, <1>2
<1>4. Len(blocks) \in 1..MaxBlocks BY <1>3, BoundsTyped
<1>5. /\ ledger \in [Counterparties -> Seq(Store)]
      /\ \A c \in Counterparties : Len(ledger[c]) \in Height
  BY InitLedgerAssumption DEF Init
<1>6. /\ consensus \in [UpstreamClients -> SUBSET Height]
      /\ \A u \in UpstreamClients : consensus[u] \subseteq 1..Len(ledger[Tracks[u]])
  BY DEF Init
<1>7. headers \subseteq 1..Len(blocks)
  BY <1>3 DEF Init, TrackHistoricalInfo
<1> QED BY <1>1, <1>3, <1>4, <1>5, <1>6, <1>7 DEF TypeOK

\* Type correctness: whatever messages arrive, the histories, the clients and the proxy
\* store hold values of their types; the light clients hold only heights that the chain
\* they track has produced, and the values the handlers build from earlier proxy state
\* (ConnOpenConfirm, ConnOpenFinalize, ChanOpenConfirm, ChanOpenFinalize) are legal ends.
THEOREM TypeCorrect == Spec => []TypeOK
<1>1. Init => TypeOK BY InitTyped
<1>2. TypeOK /\ [Next]_vars => TypeOK' BY StepTyped
<1> QED BY <1>1, <1>2, PTL DEF Spec

-----------------------------------------------------------------------------
(* The proxy vouches only for what its light clients verified.             *)

\* What a client verified at a height it goes on verifying.
LEMMA ProvenStable ==
  ASSUME TypeOK, Grows, NEW u \in UpstreamClients, NEW h \in consensus[u], NEW p
  PROVE  Proven(u, h, p)' = Proven(u, h, p)
<1>1. h \in consensus'[u] BY DEF Grows
<1>2. Tracks[u] \in Counterparties /\ h \in 1..Len(ledger[Tracks[u]])
  BY BoundsTyped DEF TypeOK
<1>3. ledger'[Tracks[u]][h] = ledger[Tracks[u]][h] BY <1>2 DEF Grows
<1> QED BY <1>1, <1>3 DEF Proven

\* Where a step of verifyProxyState could lead it can lead for ever.
LEMMA FollowStable ==
  ASSUME TypeOK, Grows, NEW s, Place(s)
  PROVE  /\ Place(s)'
         /\ Follow(s) \subseteq Follow(s)'
<1>1. /\ ledger'[s.chain][s.height] = ledger[s.chain][s.height]
      /\ Len(ledger[s.chain]) \in Nat /\ Len(ledger'[s.chain]) \in Nat
      /\ Len(ledger[s.chain]) <= Len(ledger'[s.chain])
  BY DEF Grows, Place, TypeOK, Height
<1>2. Place(s)' BY <1>1 DEF Place
<1>3. ASSUME NEW t \in Follow(s)
      PROVE  t \in Follow(s)'
  <2> DEFINE block == ledger[s.chain][s.height]
             head == block[ClientPath(s.clientId)]
             cons(hc) == block[ConsensusPath(s.clientId, hc)]
  <2>1. /\ head # Absent /\ head.kind = "proxy" /\ ~ head.multiv
        /\ head.ibcPrefix = IBCPrefix
    BY <1>3 DEF Follow
  <2>2. PICK hc \in Height : /\ t = Site(cons(hc).chain, cons(hc).height, head.upstreamClientId)
                             /\ cons(hc) # Absent
                             /\ cons(hc).kind = "proxy"
                             /\ cons(hc).chain \in Counterparties
                             /\ cons(hc).height \in 1..Len(ledger[cons(hc).chain])
    BY <1>3 DEF Follow
  <2>3. head' = head /\ cons(hc)' = cons(hc) BY <1>1
  <2>4. cons(hc).height \in 1..Len(ledger'[cons(hc).chain])
    <3>1. /\ Len(ledger[cons(hc).chain]) \in Nat /\ Len(ledger'[cons(hc).chain]) \in Nat
          /\ Len(ledger[cons(hc).chain]) <= Len(ledger'[cons(hc).chain])
      <4> HIDE DEF cons
      <4> QED BY <2>2 DEF Grows, TypeOK, Height
    <3> HIDE DEF cons
    <3> QED BY <2>2, <3>1
  <2> QED BY <2>1, <2>2, <2>3, <2>4 DEF Follow
<1> QED BY <1>2, <1>3

\* A client lookup that ended in some block can end there for ever.
LEMMA SitesStable ==
  ASSUME TypeOK, Grows, NEW u \in UpstreamClients, NEW h \in consensus[u],
         NEW id \in ClientIds
  PROVE  ClientSites(u, h, id) \subseteq ClientSites(u, h, id)'
<1> DEFINE start == Site(Tracks[u], h, id)
<1>1. h \in consensus'[u] BY DEF Grows
<1>2. start' = start BY DEF Site
<1>3. CASE u \notin MultiV
  BY <1>1, <1>3 DEF ClientSites
<1>4. CASE u \in MultiV
  <2>1. SUFFICES VerifyProxyState(u, start) \subseteq VerifyProxyState(u, start)'
    BY <1>1, <1>4 DEF ClientSites
  <2>2. Place(start) BY StartTyped
  <2>3. Follow(start) \subseteq Follow(start)' BY <2>2, FollowStable
  <2>4. \A s \in Follow(start) : Follow(s) \subseteq Follow(s)'
    BY <2>2, FollowTyped, FollowStable
  <2> QED BY <2>3, <2>4 DEF VerifyProxyState
<1> QED BY <1>3, <1>4

\* So everything that was attested stays attested.
LEMMA AttestedStable ==
  ASSUME TypeOK, Grows, NEW u \in UpstreamClients, NEW h \in consensus[u],
         NEW p \in Path, NEW v \in Attested(u, h, p)
  PROVE  v \in Attested(u, h, p)'
<1>1. \A id \in ClientIds : \A site \in ClientSites(u, h, id) :
        /\ site \in ClientSites(u, h, id)'
        /\ ledger'[site.chain][site.height] = ledger[site.chain][site.height]
  BY SitesStable, SitesTyped DEF Grows
<1>2. CASE p \in ClientPaths
  <2>1. PICK id \in ClientIds : p = ClientPath(id) BY <1>2 DEF ClientPaths
  <2>2. v \in ProvableClientStates(u, h, id) BY <2>1, AttestedByKind
  <2>3. v \in ProvableClientStates(u, h, id)' BY <1>1, <2>2 DEF ProvableClientStates
  <2> QED BY <2>1, <2>3 DEF Attested, ClientPath
<1>3. CASE p \in ConsensusPaths
  <2>1. PICK id \in ClientIds, hc \in Height : p = ConsensusPath(id, hc)
    BY <1>3 DEF ConsensusPaths
  <2>2. v \in ProvableConsensusStates(u, h, id, hc) BY <2>1, AttestedByKind
  <2>3. v \in ProvableConsensusStates(u, h, id, hc)'
    BY <1>1, <2>2 DEF ProvableConsensusStates
  <2> QED BY <2>1, <2>3 DEF Attested, ConsensusPath
<1>4. CASE p \notin ClientPaths \cup ConsensusPaths
  <2>1. p[1] # "clientState" /\ p[1] # "consensusState"
    BY <1>4 DEF Path, ConnectionPaths, ConnectionPath, ChannelPaths, ChannelPath,
                CommitmentPaths, CommitmentPath, AckPaths, AckPath,
                ReceiptPaths, ReceiptPath
  <2>2. v = Proven(u, h, p) BY <2>1 DEF Attested
  <2>3. v = Proven(u, h, p)' BY <2>2, ProvenStable
  <2> QED BY <2>1, <2>3 DEF Attested
<1> QED BY <1>2, <1>3, <1>4

\* A store that was sound stays sound while histories and clients grow.
LEMMA SoundStoreStable ==
  ASSUME TypeOK, Grows, NEW u \in UpstreamClients, NEW store, SoundStore(u, store)
  PROVE  \A p \in Path : store[p] # Absent =>
           \E h \in consensus'[u] : store[p] \in Attested(u, h, p)'
<1> SUFFICES ASSUME NEW p \in Path, store[p] # Absent
             PROVE  \E h \in consensus'[u] : store[p] \in Attested(u, h, p)'
  OBVIOUS
<1>1. PICK h \in consensus[u] : store[p] \in Attested(u, h, p) BY DEF SoundStore
<1>2. store[p] \in Attested(u, h, p)' BY <1>1, AttestedStable
<1>3. h \in consensus'[u] BY DEF Grows
<1> QED BY <1>2, <1>3

\* MirrorSound is inductive relative to TypeOK: a message changes only what its client
\* attests, a block of the proxy is a copy of a sound store, and everything else only
\* makes histories grow.
LEMMA MirrorSoundStep ==
  ASSUME TypeOK, MirrorSound, [Next]_vars
  PROVE  MirrorSound'
<1>1. TypeOK' /\ Grows BY StepTyped
<1> DEFINE Sound(u, store) ==
             \A p \in Path : store[p] # Absent =>
               \E h \in consensus'[u] : store[p] \in Attested(u, h, p)'
<1>2. ASSUME NEW u \in UpstreamClients
      PROVE  /\ Sound(u, proxy[u])
             /\ \A i \in 1..Len(blocks) : Sound(u, blocks[i][u])
  BY <1>1, SoundStoreStable DEF MirrorSound
<1>3. SUFFICES /\ \A u \in UpstreamClients : Sound(u, proxy'[u])
               /\ \A u \in UpstreamClients :
                    \A i \in 1..Len(blocks') : Sound(u, blocks'[i][u])
  BY DEF MirrorSound, SoundStore
<1> HIDE DEF Sound
<1>4. ASSUME NEW c \in Counterparties, ChainStep(c), UNCHANGED <<consensus, proxy>>
      PROVE  UNCHANGED <<proxy, blocks>>
  BY <1>4 DEF ChainStep
<1>5. ASSUME NEW u \in UpstreamClients, NEW h \in Height, UpdateClient(u, h)
      PROVE  UNCHANGED <<proxy, blocks>>
  BY <1>5 DEF UpdateClient
<1>6. CASE UNCHANGED <<proxy, blocks>>
  BY <1>2, <1>6
<1>7. ASSUME NEW t \in UpstreamClients, NEW h \in Height, Msg(t, h)
      PROVE  /\ \A u \in UpstreamClients : Sound(u, proxy'[u])
             /\ \A u \in UpstreamClients :
                  \A i \in 1..Len(blocks') : Sound(u, blocks'[i][u])
  <2>1. UNCHANGED blocks BY <1>7 DEF Msg
  <2>2. PICK s \in Store :
          /\ proxy' = [proxy EXCEPT ![t] = s]
          /\ \A p \in Path :
               s[p] # proxy[t][p] =>
                 s[p] # Absent /\ h \in consensus[t] /\ s[p] \in Attested(t, h, p)
    BY <1>7, MsgMirrors DEF Mirrors
  <2>3. ASSUME NEW p \in Path, s[p] # Absent
        PROVE  \E k \in consensus'[t] : s[p] \in Attested(t, k, p)'
    <3>1. CASE s[p] = proxy[t][p] BY <1>2, <2>3, <3>1 DEF Sound
    <3>2. CASE s[p] # proxy[t][p]
      <4>1. h \in consensus[t] /\ s[p] \in Attested(t, h, p) BY <2>2, <3>2
      <4>2. s[p] \in Attested(t, h, p)' BY <1>1, <4>1, AttestedStable
      <4>3. h \in consensus'[t] BY <1>1, <4>1 DEF Grows
      <4> QED BY <4>2, <4>3
    <3> QED BY <3>1, <3>2
  <2>4. Sound(t, s) BY <2>3 DEF Sound
  <2>5. \A u \in UpstreamClients : proxy'[u] = IF u = t THEN s ELSE proxy[u]
    BY <2>2 DEF TypeOK
  <2> QED BY <1>2, <2>1, <2>4, <2>5
<1>8. ASSUME Commit
      PROVE  /\ \A u \in UpstreamClients : Sound(u, proxy'[u])
             /\ \A u \in UpstreamClients :
                  \A i \in 1..Len(blocks') : Sound(u, blocks'[i][u])
  <2>1. blocks' = Append(blocks, proxy) /\ UNCHANGED proxy BY <1>8 DEF Commit
  <2>2. blocks \in Seq([UpstreamClients -> Store]) BY DEF TypeOK
  <2>3. ASSUME NEW i \in 1..Len(blocks')
        PROVE  \/ blocks'[i] = proxy
               \/ i \in 1..Len(blocks) /\ blocks'[i] = blocks[i]
    <3>1. Len(blocks) \in Nat /\ Len(blocks') = Len(blocks) + 1 BY <2>1, <2>2
    <3>2. CASE i = Len(blocks) + 1 BY <2>1, <2>2, <3>2
    <3>3. CASE i \in 1..Len(blocks) BY <2>1, <2>2, <3>3
    <3> QED BY <3>1, <3>2, <3>3
  <2> QED BY <1>2, <2>1, <2>3
<1> QED BY <1>4, <1>5, <1>6, <1>7, <1>8 DEF Next, vars

\* The store of a fresh proxy holds nothing, so it is sound.
LEMMA MirrorSoundInit == Init => MirrorSound
<1> SUFFICES ASSUME Init PROVE MirrorSound OBVIOUS
<1>1. \A u \in UpstreamClients : \A p \in Path : proxy[u][p] = Absent
  BY DEF Init, EmptyStore
<1>2. \A i \in 1..Len(blocks) : blocks[i] = proxy BY DEF Init
<1> QED BY <1>1, <1>2 DEF MirrorSound, SoundStore

\* Everything the proxy stores or ever committed for an upstream was verified by its own
\* light client of that upstream, for any number of chains, clients, connections,
\* channels, packets, blocks and messages, with and without multiv clients.
THEOREM MirrorIsSound == Spec => []MirrorSound
<1>1. Init => TypeOK /\ MirrorSound BY InitTyped, MirrorSoundInit
<1>2. TypeOK /\ MirrorSound /\ [Next]_vars => TypeOK' /\ MirrorSound'
  BY StepTyped, MirrorSoundStep
<1> QED BY <1>1, <1>2, PTL DEF Spec

-----------------------------------------------------------------------------
(* The keeper implements VerifiedMirror. *)

\* The facts of a client, spelled out.
LEMMA FactsMembers ==
  ASSUME NEW u, NEW p \in Path, NEW h \in consensus[u], NEW v \in Attested(u, h, p),
         v # Absent
  PROVE  <<p, v>> \in Facts(u)
<1> DEFINE S(q, k) == {<<q, w>> : w \in Attested(u, k, q) \ {Absent}}
<1>1. <<p, v>> \in S(p, h) OBVIOUS
<1>2. S(p, h) \in {S(q, k) : q \in Path, k \in consensus[u]} OBVIOUS
<1> HIDE DEF S
<1>3. <<p, v>> \in UNION {S(q, k) : q \in Path, k \in consensus[u]} BY <1>1, <1>2
<1> QED BY <1>3 DEF Facts, S

\* A light client never stops vouching for a fact.
LEMMA FactsGrow ==
  ASSUME TypeOK, Grows, NEW u \in UpstreamClients
  PROVE  Facts(u) \subseteq Facts(u)'
<1> SUFFICES ASSUME NEW f \in Facts(u) PROVE f \in Facts(u)'
  OBVIOUS
<1>1. PICK p \in Path, h \in consensus[u] :
        f \in {<<p, v>> : v \in Attested(u, h, p) \ {Absent}}
  BY DEF Facts
<1>2. PICK v \in Attested(u, h, p) : v # Absent /\ f = <<p, v>> BY <1>1
<1>3. v \in Attested(u, h, p)' BY AttestedStable
<1>4. h \in consensus'[u] BY DEF Grows
<1>5. <<p, v>> \in Facts(u)'
  <2> DEFINE S(q, k) == {<<q, w>> : w \in Attested(u, k, q)' \ {Absent}}
  <2>1. <<p, v>> \in S(p, h) BY <1>2, <1>3
  <2>2. S(p, h) \in {S(q, k) : q \in Path, k \in consensus'[u]} BY <1>4
  <2> HIDE DEF S
  <2>3. <<p, v>> \in UNION {S(q, k) : q \in Path, k \in consensus'[u]} BY <2>1, <2>2
  <2> QED BY <2>3 DEF Facts, S
<1> QED BY <1>2, <1>5

\* What is known does not change while histories and clients stay the same.
LEMMA FactsSame ==
  ASSUME UNCHANGED <<ledger, consensus>>
  PROVE  [u \in UpstreamClients |-> Facts(u)]' = [u \in UpstreamClients |-> Facts(u)]
BY DEF Facts, Attested, ProvableClientStates, ProvableConsensusStates, ClientSites,
       VerifyProxyState, Follow, Proven

\* Initially nothing is known, mirrored or published but the empty mirror.
LEMMA MirrorInit == Init => Mirror!Init
<1> SUFFICES ASSUME Init PROVE Mirror!Init OBVIOUS
<1>1. \A u \in UpstreamClients : Facts(u) = {} BY DEF Init, Facts
<1>2. [u \in UpstreamClients |-> Facts(u)] = [u \in UpstreamClients |-> {}] BY <1>1
<1>3. proxy = [u \in UpstreamClients |-> [p \in Path |-> Absent]] BY DEF Init, EmptyStore
<1> QED BY <1>2, <1>3 DEF Init, Mirror!Init

\* Every step of the keeper is a step of VerifiedMirror or leaves its state alone: a block
\* of another chain and a header learnt are Learn, a message is Adopt, a block of the
\* proxy chain is Publish.
LEMMA MirrorStep ==
  ASSUME TypeOK, [Next]_vars
  PROVE  [Mirror!Next]_(Mirror!mirrorVars)
<1>1. Grows BY StepTyped
<1>2. ASSUME UNCHANGED <<proxy, blocks>>
      PROVE  Mirror!Learn
  <2>1. \A u \in UpstreamClients :
          [t \in UpstreamClients |-> Facts(t)][u] \subseteq
            [t \in UpstreamClients |-> Facts(t)]'[u]
    BY <1>1, FactsGrow
  <2> QED BY <1>2, <2>1 DEF Mirror!Learn
<1>3. ASSUME NEW c \in Counterparties, ChainStep(c), UNCHANGED <<consensus, proxy>>
      PROVE  Mirror!Learn
  BY <1>2, <1>3 DEF ChainStep
<1>4. ASSUME NEW u \in UpstreamClients, NEW h \in Height, UpdateClient(u, h)
      PROVE  Mirror!Learn
  BY <1>2, <1>4 DEF UpdateClient
<1>5. ASSUME NEW u \in UpstreamClients, NEW h \in Height, Msg(u, h)
      PROVE  Mirror!Adopt(u)
  <2>1. PICK s \in Store :
          /\ proxy' = [proxy EXCEPT ![u] = s]
          /\ \A p \in Path :
               s[p] # proxy[u][p] =>
                 s[p] # Absent /\ h \in consensus[u] /\ s[p] \in Attested(u, h, p)
    BY <1>5, MsgMirrors DEF Mirrors
  <2>2. UNCHANGED <<ledger, blocks, consensus>> BY <1>5 DEF Msg
  <2>3. proxy'[u] = s /\ \A t \in UpstreamClients \ {u} : proxy'[t] = proxy[t]
    BY <2>1 DEF TypeOK
  <2>4. \A p \in Path :
          proxy'[u][p] # proxy[u][p] =>
            /\ proxy'[u][p] # Absent
            /\ <<p, proxy'[u][p]>> \in [t \in UpstreamClients |-> Facts(t)][u]
    BY <2>1, <2>3, FactsMembers
  <2> QED BY <2>2, <2>3, <2>4, FactsSame DEF Mirror!Adopt
<1>6. ASSUME Commit
      PROVE  Mirror!Publish
  BY <1>6, FactsSame DEF Commit, Mirror!Publish
<1>7. ASSUME UNCHANGED vars
      PROVE  UNCHANGED Mirror!mirrorVars
  BY <1>7, FactsSame DEF vars, Mirror!mirrorVars
<1> QED BY <1>3, <1>4, <1>5, <1>6, <1>7 DEF Next, Mirror!Next

\* The keeper implements the abstract mirror, for any number of chains, clients (multiv
\* ones of depth 0 and 1 included), connections, channels, packets and blocks.  The type
\* invariant is needed to know that what clients look up lies in blocks that exist, and
\* so stays there.
THEOREM KeeperImplementsMirror == Spec => ImplementsMirror
<1>1. Init => TypeOK /\ Mirror!Init BY InitTyped, MirrorInit
<1>2. TypeOK /\ [Next]_vars => TypeOK' /\ [Mirror!Next]_(Mirror!mirrorVars)
  BY StepTyped, MirrorStep
<1> QED BY <1>1, <1>2, PTL DEF Spec, ImplementsMirror, Mirror!Spec

=============================================================================
