------------------------ MODULE ProxyHandshakeProofs ------------------------
(***************************************************************************)
(* The order in which the proxy mirrors connections, channels and packets, *)
(* for every value of the constants.                                       *)
(***************************************************************************)
EXTENDS ProxyKeeperProofs

-----------------------------------------------------------------------------
(* What a message does to a path.                                          *)

\* A single write below one upstream client.
LEMMA WriteEffect ==
  ASSUME TypeOK, NEW u \in UpstreamClients, NEW t \in UpstreamClients,
         NEW p \in Path, NEW q \in Path, NEW v,
         proxy' = [proxy EXCEPT ![u] = [@ EXCEPT ![p] = v]]
  PROVE  proxy'[t][q] = IF t = u /\ q = p THEN v ELSE proxy[t][q]
<1>1. proxy \in [UpstreamClients -> Store] BY DEF TypeOK
<1>2. proxy[u] \in [Path -> Value] BY <1>1 DEF Store
<1>3. proxy'[t] = IF t = u THEN [proxy[u] EXCEPT ![p] = v] ELSE proxy[t] BY <1>1
<1> QED BY <1>2, <1>3

\* ProxyClientState writes client and consensus paths only.
LEMMA ClientEffect ==
  ASSUME TypeOK, NEW u \in UpstreamClients, NEW h \in Height, ClientMsg(u, h),
         NEW t \in UpstreamClients, NEW q \in Path,
         q \notin ClientPaths \cup ConsensusPaths
  PROVE  proxy'[t][q] = proxy[t][q]
<1>1. PICK id \in ClientIds, hc \in Height : ProxyClientState(u, id, h, hc)
  BY DEF ClientMsg
<1>2. PICK cs, cons :
        proxy' = [proxy EXCEPT ![u] = [@ EXCEPT ![ClientPath(id)] = cs,
                                                ![ConsensusPath(id, hc)] = cons]]
  BY <1>1 DEF ProxyClientState
<1>3. ClientPath(id) # q /\ ConsensusPath(id, hc) # q
  BY DEF ClientPaths, ConsensusPaths
<1>4. proxy \in [UpstreamClients -> Store] BY DEF TypeOK
<1>5. proxy[u] \in [Path -> Value] BY <1>4 DEF Store
<1>6. proxy'[t] = IF t = u
                    THEN [[proxy[u] EXCEPT ![ClientPath(id)] = cs]
                            EXCEPT ![ConsensusPath(id, hc)] = cons]
                    ELSE proxy[t]
  BY <1>2, <1>4
<1> QED BY <1>3, <1>5, <1>6

\* ConnOpenTry and ConnOpenAck write, besides, the connection they are about, which was
\* absent.
LEMMA NewConnectionEffect ==
  ASSUME TypeOK, NEW u \in UpstreamClients, NEW h \in Height, NEW id \in ConnectionIds,
         NEW hc \in Height, NEW hp, NEW state \in {"INIT", "TRYOPEN"},
         ProxyNewConnection(u, id, state, h, hc, hp),
         NEW t \in UpstreamClients, NEW q \in Path,
         q \notin ClientPaths \cup ConsensusPaths
  PROVE  \/ proxy'[t][q] = proxy[t][q]
         \/ /\ t = u /\ q = ConnectionPath(id)
            /\ proxy[t][q] = Absent
            /\ proxy'[t][q] # Absent
            /\ proxy'[t][q].state \in {"INIT", "TRYOPEN"}
<1> DEFINE conn == Proven(u, h, ConnectionPath(id))
<1>1. PICK cs, cons :
        proxy' = [proxy EXCEPT ![u] = [@ EXCEPT
                      ![ClientPath(conn.clientId)] = cs,
                      ![ConsensusPath(conn.clientId, hc)] = cons,
                      ![ConnectionPath(id)] = conn]]
  BY DEF ProxyNewConnection
<1>2. /\ conn # Absent /\ conn.state = state
      /\ proxy[u][ConnectionPath(id)] = Absent
  BY DEF ProxyNewConnection, GetProxyConnection
<1>3. conn.clientId \in ClientIds
  <2>1. conn \in ConnectionEnd BY <1>2, ProvenTyped, PathsTyped
  <2> HIDE DEF conn
  <2> QED BY <2>1 DEF ConnectionEnd
<1> HIDE DEF conn
<1>4. ClientPath(conn.clientId) # q /\ ConsensusPath(conn.clientId, hc) # q
  BY <1>3 DEF ClientPaths, ConsensusPaths
<1>5. proxy \in [UpstreamClients -> Store] BY DEF TypeOK
<1>6. proxy[u] \in [Path -> Value] BY <1>5 DEF Store
<1>7. proxy'[t] = IF t = u
                    THEN [[[proxy[u] EXCEPT ![ClientPath(conn.clientId)] = cs]
                             EXCEPT ![ConsensusPath(conn.clientId, hc)] = cons]
                             EXCEPT ![ConnectionPath(id)] = conn]
                    ELSE proxy[t]
  BY <1>1, <1>5
<1>8. t = u => proxy'[t][q] = IF q = ConnectionPath(id) THEN conn ELSE proxy[t][q]
  BY <1>4, <1>6, <1>7
<1> QED BY <1>2, <1>7, <1>8

\* The keys of different kinds are different, and a key determines its identifiers.
LEMMA PathsDistinct ==
  /\ \A id, x : ConnectionPath(id) = ConnectionPath(x) => id = x
  /\ \A port, chan, x, y : ChannelPath(port, chan) = ChannelPath(x, y) => port = x /\ chan = y
  /\ \A port, chan, seq, x, y, z :
       /\ CommitmentPath(port, chan, seq) = CommitmentPath(x, y, z) => port = x /\ chan = y
       /\ AckPath(port, chan, seq) = AckPath(x, y, z) => port = x /\ chan = y
       /\ CommitmentPath(port, chan, seq) # AckPath(x, y, z)
  /\ \A id, port, chan : ConnectionPath(id) # ChannelPath(port, chan)
  /\ \A id, port, chan, seq :
       /\ ConnectionPath(id) # CommitmentPath(port, chan, seq)
       /\ ConnectionPath(id) # AckPath(port, chan, seq)
  /\ \A x, y, port, chan, seq :
       /\ ChannelPath(x, y) # CommitmentPath(port, chan, seq)
       /\ ChannelPath(x, y) # AckPath(port, chan, seq)
  /\ \A id : ConnectionPath(id) \notin ClientPaths \cup ConsensusPaths
  /\ \A port, chan : ChannelPath(port, chan) \notin ClientPaths \cup ConsensusPaths
  /\ \A port, chan, seq :
       /\ CommitmentPath(port, chan, seq) \notin ClientPaths \cup ConsensusPaths
       /\ AckPath(port, chan, seq) \notin ClientPaths \cup ConsensusPaths
<1> USE DEF ClientPath, ConsensusPath, ConnectionPath, ChannelPath, CommitmentPath,
            AckPath, ClientPaths, ConsensusPaths
<1>1. \A id, x : ConnectionPath(id) = ConnectionPath(x) => id = x OBVIOUS
<1>2. \A port, chan, x, y :
        ChannelPath(port, chan) = ChannelPath(x, y) => port = x /\ chan = y
  OBVIOUS
<1>3. \A id, port, chan : ConnectionPath(id) # ChannelPath(port, chan) OBVIOUS
<1>4. \A id, port, chan, seq :
        /\ ConnectionPath(id) # CommitmentPath(port, chan, seq)
        /\ ConnectionPath(id) # AckPath(port, chan, seq)
  OBVIOUS
<1>5. \A x, y, port, chan, seq :
        /\ ChannelPath(x, y) # CommitmentPath(port, chan, seq)
        /\ ChannelPath(x, y) # AckPath(port, chan, seq)
  OBVIOUS
<1>6. \A id : ConnectionPath(id) \notin ClientPaths \cup ConsensusPaths OBVIOUS
<1>7. \A port, chan : ChannelPath(port, chan) \notin ClientPaths \cup ConsensusPaths
  OBVIOUS
<1>8. \A port, chan, seq :
        /\ CommitmentPath(port, chan, seq) \notin ClientPaths \cup ConsensusPaths
        /\ AckPath(port, chan, seq) \notin ClientPaths \cup ConsensusPaths
  OBVIOUS
<1>9. \A port, chan, seq, x, y, z :
        /\ CommitmentPath(port, chan, seq) = CommitmentPath(x, y, z) => port = x /\ chan = y
        /\ AckPath(port, chan, seq) = AckPath(x, y, z) => port = x /\ chan = y
        /\ CommitmentPath(port, chan, seq) # AckPath(x, y, z)
  OBVIOUS
<1> QED BY <1>1, <1>2, <1>3, <1>4, <1>5, <1>6, <1>7, <1>8, <1>9

-----------------------------------------------------------------------------
(* Connections.                                                            *)

\* A channel message writes one channel path.
LEMMA ChannelMsgWrites ==
  ASSUME NEW u, NEW h, ChannelMsg(u, h)
  PROVE  \E port \in PortIds, chan \in ChannelIds : \E channel :
           proxy' = [proxy EXCEPT ![u] = [@ EXCEPT ![ChannelPath(port, chan)] = channel]]
<1>1. PICK port \in PortIds, chan \in ChannelIds :
        \E channel : VerifyAndProxyChannelState(u, h, port, chan, channel)
  BY DEF ChannelMsg, ChanOpenTry, ChanOpenAck, ChanOpenConfirm, ChanOpenFinalize
<1> QED BY <1>1 DEF VerifyAndProxyChannelState, SetProxyChannel

\* A packet message writes one commitment or acknowledgement path of a mirrored channel.
LEMMA PacketMsgWrites ==
  ASSUME NEW u, NEW h, PacketMsg(u, h)
  PROVE  \E port \in PortIds, chan \in ChannelIds, seq \in Sequence : \E v :
           \E p \in {CommitmentPath(port, chan, seq), AckPath(port, chan, seq)} :
             /\ GetProxyChannel(u, port, chan) # Absent
             /\ proxy' = [proxy EXCEPT ![u] = [@ EXCEPT ![p] = v]]
<1>1. ASSUME NEW packet \in Packet, RecvPacket(u, packet, h)
      PROVE  \E port \in PortIds, chan \in ChannelIds, seq \in Sequence : \E v :
               \E p \in {CommitmentPath(port, chan, seq), AckPath(port, chan, seq)} :
                 /\ GetProxyChannel(u, port, chan) # Absent
                 /\ proxy' = [proxy EXCEPT ![u] = [@ EXCEPT ![p] = v]]
  <2>1. /\ packet.sourcePort \in PortIds /\ packet.sourceChannel \in ChannelIds
        /\ packet.sequence \in Sequence
    BY DEF Packet
  <2>2. /\ GetProxyChannel(u, packet.sourcePort, packet.sourceChannel) # Absent
        /\ proxy' = [proxy EXCEPT ![u] = [@ EXCEPT
             ![CommitmentPath(packet.sourcePort, packet.sourceChannel, packet.sequence)]
               = CommitPacket(packet)]]
    BY <1>1 DEF RecvPacket, VerifyAndProxyPacketCommitment, SetProxyPacketCommitment
  <2> QED BY <2>1, <2>2
<1>2. ASSUME NEW port \in PortIds, NEW chan \in ChannelIds, NEW seq \in Sequence,
             NEW ack \in Acks, AcknowledgePacket(u, port, chan, seq, ack, h)
      PROVE  /\ GetProxyChannel(u, port, chan) # Absent
             /\ proxy' = [proxy EXCEPT ![u] = [@ EXCEPT
                  ![AckPath(port, chan, seq)] = CommitAcknowledgement(ack)]]
  BY <1>2 DEF AcknowledgePacket, VerifyAndProxyPacketAcknowledgement,
              SetProxyPacketAcknowledgement
<1>3. CASE \E packet \in Packet : RecvPacket(u, packet, h) BY <1>1, <1>3
<1>4. CASE \E port \in PortIds, chan \in ChannelIds, seq \in Sequence, ack \in Acks :
             AcknowledgePacket(u, port, chan, seq, ack, h)
  <2>1. PICK port \in PortIds, chan \in ChannelIds, seq \in Sequence, ack \in Acks :
          AcknowledgePacket(u, port, chan, seq, ack, h)
    BY <1>4
  <2>2. /\ GetProxyChannel(u, port, chan) # Absent
        /\ proxy' = [proxy EXCEPT ![u] = [@ EXCEPT
                       ![AckPath(port, chan, seq)] = CommitAcknowledgement(ack)]]
    BY <1>2, <2>1
  <2> QED BY <2>2
<1> QED BY <1>3, <1>4 DEF PacketMsg

\* A connection message advances the connection it is about, if it writes it at all, and
\* leaves channels and packets alone.
LEMMA ConnectionMsgAdvances ==
  ASSUME TypeOK, NEW u \in UpstreamClients, NEW h \in Height, ConnectionMsg(u, h),
         NEW t \in UpstreamClients
  PROVE  /\ \A id \in ConnectionIds :
              Advances(proxy[t][ConnectionPath(id)], proxy'[t][ConnectionPath(id)])
         /\ \A q \in ChannelPaths \cup CommitmentPaths \cup AckPaths :
              proxy'[t][q] = proxy[t][q]
<1>1. PICK x \in ConnectionIds :
        \/ \E hc, hp \in Height : ConnOpenTry(u, x, h, hc, hp)
        \/ \E hc, hp \in Height : ConnOpenAck(u, x, h, hc, hp)
        \/ \E cpConn \in ConnectionIds : ConnOpenConfirm(u, x, cpConn, h)
        \/ ConnOpenFinalize(u, x, h)
  BY DEF ConnectionMsg
<1>2. \A id \in ConnectionIds : /\ ConnectionPath(id) \in Path
                                /\ ConnectionPath(id) \notin ClientPaths \cup ConsensusPaths
  BY PathsTyped, PathsDistinct
<1>3. \A q \in ChannelPaths \cup CommitmentPaths \cup AckPaths :
        /\ q \in Path
        /\ q \notin ClientPaths \cup ConsensusPaths
        /\ q # ConnectionPath(x)
  BY PathsDistinct DEF Path, ChannelPaths, CommitmentPaths, AckPaths
<1>4. ASSUME NEW hc \in Height, NEW hp, NEW state \in {"INIT", "TRYOPEN"},
             ProxyNewConnection(u, x, state, h, hc, hp)
      PROVE  /\ \A id \in ConnectionIds :
                  Advances(proxy[t][ConnectionPath(id)], proxy'[t][ConnectionPath(id)])
             /\ \A q \in ChannelPaths \cup CommitmentPaths \cup AckPaths :
                  proxy'[t][q] = proxy[t][q]
  <2>1. \A q \in Path : q \notin ClientPaths \cup ConsensusPaths =>
          \/ proxy'[t][q] = proxy[t][q]
          \/ /\ t = u /\ q = ConnectionPath(x)
             /\ proxy[t][q] = Absent
             /\ proxy'[t][q] # Absent
             /\ proxy'[t][q].state \in {"INIT", "TRYOPEN"}
    BY <1>4, NewConnectionEffect
  <2> QED BY <1>2, <1>3, <2>1 DEF Advances
<1>5. ASSUME NEW v, SetProxyConnection(u, x, v)
      PROVE  /\ \A id \in ConnectionIds :
                  proxy'[t][ConnectionPath(id)] =
                    IF t = u /\ ConnectionPath(id) = ConnectionPath(x) THEN v
                    ELSE proxy[t][ConnectionPath(id)]
             /\ \A q \in ChannelPaths \cup CommitmentPaths \cup AckPaths :
                  proxy'[t][q] = proxy[t][q]
  <2>1. proxy' = [proxy EXCEPT ![u] = [@ EXCEPT ![ConnectionPath(x)] = v]]
    BY <1>5 DEF SetProxyConnection
  <2>2. ASSUME NEW q \in Path
        PROVE  proxy'[t][q] = IF t = u /\ q = ConnectionPath(x) THEN v ELSE proxy[t][q]
    <3>1. CASE t = u /\ q = ConnectionPath(x)
      BY <2>1, <3>1 DEF TypeOK, Store
    <3>2. CASE ~ (t = u /\ q = ConnectionPath(x))
      BY <1>2, <2>1, <3>2, WriteEffect
    <3> QED BY <3>1, <3>2
  <2> QED BY <1>2, <1>3, <2>2
<1>6. ASSUME NEW cpConn \in ConnectionIds, ConnOpenConfirm(u, x, cpConn, h)
      PROVE  /\ \A id \in ConnectionIds :
                  Advances(proxy[t][ConnectionPath(id)], proxy'[t][ConnectionPath(id)])
             /\ \A q \in ChannelPaths \cup CommitmentPaths \cup AckPaths :
                  proxy'[t][q] = proxy[t][q]
  <2> DEFINE old == proxy[u][ConnectionPath(x)]
             new == [old EXCEPT !.state = "OPEN", !.counterparty.connectionId = cpConn]
  <2>1. old # Absent /\ old.state = "INIT" /\ SetProxyConnection(u, x, new)
    BY <1>6 DEF ConnOpenConfirm, GetProxyConnection, VerifyAndProxyConnectionState
  <2>2. Advances(old, new) BY <2>1 DEF Advances
  <2>3. \A v : Advances(v, v) BY DEF Advances
  <2> HIDE DEF new
  <2> QED BY <1>5, <2>1, <2>2, <2>3
<1>7. ASSUME ConnOpenFinalize(u, x, h)
      PROVE  /\ \A id \in ConnectionIds :
                  Advances(proxy[t][ConnectionPath(id)], proxy'[t][ConnectionPath(id)])
             /\ \A q \in ChannelPaths \cup CommitmentPaths \cup AckPaths :
                  proxy'[t][q] = proxy[t][q]
  <2> DEFINE old == proxy[u][ConnectionPath(x)]
             new == [old EXCEPT !.state = "OPEN"]
  <2>1. old # Absent /\ old.state = "TRYOPEN" /\ SetProxyConnection(u, x, new)
    BY <1>7 DEF ConnOpenFinalize, GetProxyConnection, VerifyAndProxyConnectionState
  <2>2. Advances(old, new) BY <2>1 DEF Advances
  <2>3. \A v : Advances(v, v) BY DEF Advances
  <2> HIDE DEF new
  <2> QED BY <1>5, <2>1, <2>2, <2>3
<1> QED BY <1>1, <1>4, <1>6, <1>7 DEF ConnOpenTry, ConnOpenAck

\* Every step of the system advances every proxied connection end.
LEMMA StepAdvances ==
  ASSUME TypeOK, [Next]_vars, NEW t \in UpstreamClients, NEW id \in ConnectionIds
  PROVE  Advances(proxy[t][ConnectionPath(id)], proxy'[t][ConnectionPath(id)])
<1>1. CASE UNCHANGED proxy BY <1>1 DEF Advances
<1>2. ASSUME NEW u \in UpstreamClients, NEW h \in Height, Msg(u, h)
      PROVE  Advances(proxy[t][ConnectionPath(id)], proxy'[t][ConnectionPath(id)])
  <2>0. ConnectionPath(id) \in Path /\ ConnectionPath(id) \notin ClientPaths \cup ConsensusPaths
    BY PathsTyped, PathsDistinct
  <2>1. CASE ClientMsg(u, h) BY <2>0, <2>1, ClientEffect DEF Advances
  <2>2. CASE ConnectionMsg(u, h) BY <2>2, ConnectionMsgAdvances
  <2>3. CASE ChannelMsg(u, h)
    <3>0. PICK port \in PortIds, chan \in ChannelIds : \E channel :
            proxy' = [proxy EXCEPT ![u] = [@ EXCEPT ![ChannelPath(port, chan)] = channel]]
      BY <2>3, ChannelMsgWrites
    <3>1. PICK channel :
            proxy' = [proxy EXCEPT ![u] = [@ EXCEPT ![ChannelPath(port, chan)] = channel]]
      BY <3>0
    <3>2. ChannelPath(port, chan) \in Path /\ ConnectionPath(id) # ChannelPath(port, chan)
      BY PathsTyped, PathsDistinct
    <3>3. proxy'[t][ConnectionPath(id)] = proxy[t][ConnectionPath(id)]
      BY <2>0, <3>1, <3>2, WriteEffect
    <3> QED BY <3>3 DEF Advances
  <2>4. CASE PacketMsg(u, h)
    <3>0. PICK port \in PortIds, chan \in ChannelIds, seq \in Sequence : \E v :
            \E p \in {CommitmentPath(port, chan, seq), AckPath(port, chan, seq)} :
              proxy' = [proxy EXCEPT ![u] = [@ EXCEPT ![p] = v]]
      BY <2>4, PacketMsgWrites
    <3>1. PICK v :
            \E p \in {CommitmentPath(port, chan, seq), AckPath(port, chan, seq)} :
              proxy' = [proxy EXCEPT ![u] = [@ EXCEPT ![p] = v]]
      BY <3>0
    <3>2. PICK p \in {CommitmentPath(port, chan, seq), AckPath(port, chan, seq)} :
            proxy' = [proxy EXCEPT ![u] = [@ EXCEPT ![p] = v]]
      BY <3>1
    <3>3. p \in Path /\ ConnectionPath(id) # p BY PathsTyped, PathsDistinct
    <3>4. proxy'[t][ConnectionPath(id)] = proxy[t][ConnectionPath(id)]
      BY <2>0, <3>2, <3>3, WriteEffect
    <3> QED BY <3>4 DEF Advances
  <2> QED BY <1>2, <2>1, <2>2, <2>3, <2>4 DEF Msg
<1> QED BY <1>1, <1>2 DEF Next, UpdateClient, Commit, vars

\* Proxied connection ends only move forward, whatever the constants: replayed, stale or
\* crossing handshake messages never take one back or change its clients or versions.
THEOREM ConnectionsOnlyAdvance == Spec => ConnectionForwardOnly
<1>1. TypeOK /\ [Next]_vars =>
        [\A u \in UpstreamClients, id \in ConnectionIds :
           Advances(GetProxyConnection(u, id), GetProxyConnection(u, id)')]_vars
  BY StepAdvances DEF GetProxyConnection
<1>2. Spec => []TypeOK BY TypeCorrect
<1> QED BY <1>1, <1>2, PTL DEF Spec, ConnectionForwardOnly

-----------------------------------------------------------------------------
(* Channels and packets.                                                   *)

\* An advanced connection end still carries what was established over it.
LEMMA AdvancesKeeps ==
  ASSUME NEW old \in ConnectionEnd, NEW new, Advances(old, new)
  PROVE  /\ new # Absent
         /\ \A order : SupportsOrder(old, order) => SupportsOrder(new, order)
         /\ old.state = "OPEN" => new.state = "OPEN"
<1>0. old # Absent BY AbsentAssumption
<1>1. CASE new = old BY <1>0, <1>1
<1>2. CASE /\ old.state = "INIT"
           /\ \E cpConn \in ConnectionIds :
                new = [old EXCEPT !.state = "OPEN", !.counterparty.connectionId = cpConn]
  <2>1. PICK cpConn \in ConnectionIds :
          new = [old EXCEPT !.state = "OPEN", !.counterparty.connectionId = cpConn]
    BY <1>2
  <2>2. [old.counterparty EXCEPT !.connectionId = cpConn]
           \in [clientId: ClientIds, connectionId: ConnectionIds \cup {""}]
    BY DEF ConnectionEnd
  <2>3. new \in ConnectionEnd /\ new.versions = old.versions
    BY <2>1, <2>2 DEF ConnectionEnd
  <2> QED BY <1>2, <2>3, AbsentAssumption DEF SupportsOrder
<1>3. CASE old.state = "TRYOPEN" /\ new = [old EXCEPT !.state = "OPEN"]
  <2>1. new \in ConnectionEnd /\ new.versions = old.versions
    BY <1>3 DEF ConnectionEnd
  <2> QED BY <1>3, <2>1, AbsentAssumption DEF SupportsOrder
<1> QED BY <1>0, <1>1, <1>2, <1>3 DEF Advances

\* The connection below a channel end is ready for it.
Ready(conn, channel) ==
  /\ conn # Absent
  /\ SupportsOrder(conn, channel.ordering)
  /\ channel.state # "INIT" => conn.state = "OPEN"

\* A channel message stores a channel end that the connection is ready for.
LEMMA ChannelMsgReady ==
  ASSUME TypeOK, ChannelBehindConnection, NEW u \in UpstreamClients, NEW h \in Height,
         ChannelMsg(u, h)
  PROVE  \E port \in PortIds, chan \in ChannelIds, channel \in Channel :
           /\ Ready(proxy[u][ConnectionPath(channel.hop)], channel)
           /\ SetProxyChannel(u, port, chan, channel)
<1>1. PICK port \in PortIds, chan \in ChannelIds :
        \/ \E order \in Orders, cpPort \in PortIds, hop \in ConnectionIds :
             ChanOpenTry(u, port, chan, order, cpPort, hop, h)
        \/ \E order \in Orders, cpPort \in PortIds, cpChan \in ChannelIds,
              hop \in ConnectionIds :
             ChanOpenAck(u, port, chan, order, cpPort, cpChan, hop, h)
        \/ \E cpChan \in ChannelIds : ChanOpenConfirm(u, port, chan, cpChan, h)
        \/ ChanOpenFinalize(u, port, chan, h)
  BY DEF ChannelMsg
<1> SUFFICES \E channel \in Channel :
               /\ Ready(proxy[u][ConnectionPath(channel.hop)], channel)
               /\ SetProxyChannel(u, port, chan, channel)
  OBVIOUS
<1> DEFINE old == proxy[u][ChannelPath(port, chan)]
<1>2. proxy[u] \in Store BY DEF TypeOK
<1>3. old # Absent => old \in Channel BY <1>2, StoreRead, PathsTyped
<1>4. old # Absent => Ready(proxy[u][ConnectionPath(old.hop)], old)
  BY DEF ChannelBehindConnection, GetProxyChannel, GetProxyConnection, Ready
<1>5. ASSUME NEW order \in Orders, NEW cpPort \in PortIds, NEW hop \in ConnectionIds,
             ChanOpenTry(u, port, chan, order, cpPort, hop, h)
      PROVE  \E channel \in Channel :
               /\ Ready(proxy[u][ConnectionPath(channel.hop)], channel)
               /\ SetProxyChannel(u, port, chan, channel)
  <2> DEFINE new == [state |-> "INIT", ordering |-> order, hop |-> hop,
                     counterparty |-> [portId |-> cpPort, channelId |-> ""]]
  <2>1. new \in Channel BY DEF Channel
  <2>2. SetProxyChannel(u, port, chan, new)
    BY <1>5 DEF ChanOpenTry, VerifyAndProxyChannelState
  <2>3. /\ proxy[u][ConnectionPath(hop)] # Absent
        /\ SupportsOrder(proxy[u][ConnectionPath(hop)], order)
    BY <1>5 DEF ChanOpenTry, GetProxyConnection, ValidateChannelOrder
  <2>4. Ready(proxy[u][ConnectionPath(new.hop)], new) BY <2>3 DEF Ready
  <2> QED BY <2>1, <2>2, <2>4
<1>6. ASSUME NEW order \in Orders, NEW cpPort \in PortIds, NEW cpChan \in ChannelIds,
             NEW hop \in ConnectionIds,
             ChanOpenAck(u, port, chan, order, cpPort, cpChan, hop, h)
      PROVE  \E channel \in Channel :
               /\ Ready(proxy[u][ConnectionPath(channel.hop)], channel)
               /\ SetProxyChannel(u, port, chan, channel)
  <2> DEFINE new == [state |-> "TRYOPEN", ordering |-> order, hop |-> hop,
                     counterparty |-> [portId |-> cpPort, channelId |-> cpChan]]
  <2>1. new \in Channel BY DEF Channel
  <2>2. SetProxyChannel(u, port, chan, new)
    BY <1>6 DEF ChanOpenAck, VerifyAndProxyChannelState
  <2>3. /\ proxy[u][ConnectionPath(hop)] # Absent
        /\ proxy[u][ConnectionPath(hop)].state = "OPEN"
        /\ SupportsOrder(proxy[u][ConnectionPath(hop)], order)
    BY <1>6 DEF ChanOpenAck, GetProxyConnection, ValidateChannelOrder, ConnectionOpen
  <2>4. Ready(proxy[u][ConnectionPath(new.hop)], new) BY <2>3 DEF Ready
  <2> QED BY <2>1, <2>2, <2>4
<1>7. ASSUME NEW cpChan \in ChannelIds, ChanOpenConfirm(u, port, chan, cpChan, h)
      PROVE  \E channel \in Channel :
               /\ Ready(proxy[u][ConnectionPath(channel.hop)], channel)
               /\ SetProxyChannel(u, port, chan, channel)
  <2> DEFINE new == [old EXCEPT !.state = "OPEN", !.counterparty.channelId = cpChan]
  <2>1. /\ old # Absent
        /\ proxy[u][ConnectionPath(old.hop)].state = "OPEN"
        /\ SetProxyChannel(u, port, chan, new)
    BY <1>7 DEF ChanOpenConfirm, VerifyAndProxyChannelState, GetProxyChannel,
                GetProxyConnection, ConnectionOpen
  <2>2. old \in Channel /\ Ready(proxy[u][ConnectionPath(old.hop)], old)
    BY <1>3, <1>4, <2>1
  <2> HIDE DEF old
  <2>3. new \in Channel BY <2>2, ChannelTyped
  <2>4. new.hop = old.hop /\ new.ordering = old.ordering BY <2>2 DEF Channel
  <2>5. Ready(proxy[u][ConnectionPath(new.hop)], new) BY <2>1, <2>2, <2>4 DEF Ready
  <2> QED BY <2>1, <2>3, <2>5
<1>8. ASSUME ChanOpenFinalize(u, port, chan, h)
      PROVE  \E channel \in Channel :
               /\ Ready(proxy[u][ConnectionPath(channel.hop)], channel)
               /\ SetProxyChannel(u, port, chan, channel)
  <2> DEFINE new == [old EXCEPT !.state = "OPEN"]
  <2>1. /\ old # Absent
        /\ proxy[u][ConnectionPath(old.hop)].state = "OPEN"
        /\ SetProxyChannel(u, port, chan, new)
    BY <1>8 DEF ChanOpenFinalize, VerifyAndProxyChannelState, GetProxyChannel,
                GetProxyConnection, ConnectionOpen
  <2>2. old \in Channel /\ Ready(proxy[u][ConnectionPath(old.hop)], old)
    BY <1>3, <1>4, <2>1
  <2> HIDE DEF old
  <2>3. new \in Channel BY <2>2, ChannelTyped
  <2>4. new.hop = old.hop /\ new.ordering = old.ordering BY <2>2 DEF Channel
  <2>5. Ready(proxy[u][ConnectionPath(new.hop)], new) BY <2>1, <2>2, <2>4 DEF Ready
  <2> QED BY <2>1, <2>3, <2>5
<1> QED BY <1>1, <1>5, <1>6, <1>7, <1>8

\* A step leaves a channel end alone or replaces it by one that its connection is ready
\* for.
LEMMA StepChannel ==
  ASSUME TypeOK, ChannelBehindConnection, [Next]_vars, NEW t \in UpstreamClients,
         NEW port \in PortIds, NEW chan \in ChannelIds
  PROVE  LET q == ChannelPath(port, chan) IN
         \/ proxy'[t][q] = proxy[t][q]
         \/ /\ proxy'[t][q] \in Channel
            /\ Ready(proxy[t][ConnectionPath(proxy'[t][q].hop)], proxy'[t][q])
<1> DEFINE q == ChannelPath(port, chan)
           Goal == \/ proxy'[t][q] = proxy[t][q]
                   \/ /\ proxy'[t][q] \in Channel
                      /\ Ready(proxy[t][ConnectionPath(proxy'[t][q].hop)], proxy'[t][q])
<1>1. CASE UNCHANGED proxy BY <1>1
<1>2. ASSUME NEW u \in UpstreamClients, NEW h \in Height, Msg(u, h)
      PROVE  Goal
  <2>0. q \in Path /\ q \notin ClientPaths \cup ConsensusPaths /\ q \in ChannelPaths
    BY PathsTyped, PathsDistinct DEF ChannelPaths
  <2>1. CASE ClientMsg(u, h) BY <2>0, <2>1, ClientEffect
  <2>2. CASE ConnectionMsg(u, h) BY <2>0, <2>2, ConnectionMsgAdvances
  <2>3. CASE ChannelMsg(u, h)
    <3>1. PICK x \in PortIds, y \in ChannelIds, channel \in Channel :
            /\ Ready(proxy[u][ConnectionPath(channel.hop)], channel)
            /\ SetProxyChannel(u, x, y, channel)
      BY <2>3, ChannelMsgReady
    <3>2. proxy' = [proxy EXCEPT ![u] = [@ EXCEPT ![ChannelPath(x, y)] = channel]]
      BY <3>1 DEF SetProxyChannel
    <3>3. CASE t = u /\ q = ChannelPath(x, y)
      <4>1. proxy'[t][q] = channel BY <2>0, <3>2, <3>3 DEF TypeOK, Store
      <4> HIDE DEF q
      <4> QED BY <3>1, <3>3, <4>1
    <3>4. CASE ~ (t = u /\ q = ChannelPath(x, y))
      <4>1. ChannelPath(x, y) \in Path BY PathsTyped
      <4>2. proxy'[t][q] = proxy[t][q] BY <2>0, <3>2, <3>4, <4>1, WriteEffect
      <4> QED BY <4>2
    <3> QED BY <3>3, <3>4
  <2>4. CASE PacketMsg(u, h)
    <3>0. PICK x \in PortIds, y \in ChannelIds, seq \in Sequence : \E v :
            \E p \in {CommitmentPath(x, y, seq), AckPath(x, y, seq)} :
              proxy' = [proxy EXCEPT ![u] = [@ EXCEPT ![p] = v]]
      BY <2>4, PacketMsgWrites
    <3>1. PICK v :
            \E p \in {CommitmentPath(x, y, seq), AckPath(x, y, seq)} :
              proxy' = [proxy EXCEPT ![u] = [@ EXCEPT ![p] = v]]
      BY <3>0
    <3>2. PICK p \in {CommitmentPath(x, y, seq), AckPath(x, y, seq)} :
            proxy' = [proxy EXCEPT ![u] = [@ EXCEPT ![p] = v]]
      BY <3>1
    <3>3. p \in Path /\ q # p BY PathsTyped, PathsDistinct
    <3>4. proxy'[t][q] = proxy[t][q] BY <2>0, <3>2, <3>3, WriteEffect
    <3> QED BY <3>4
  <2> QED BY <1>2, <2>1, <2>2, <2>3, <2>4 DEF Msg
<1> QED BY <1>1, <1>2 DEF Next, UpdateClient, Commit, vars

\* ChannelBehindConnection is inductive relative to TypeOK, because connection ends only
\* advance.
LEMMA ChannelBehindConnectionStep ==
  ASSUME TypeOK, ChannelBehindConnection, [Next]_vars
  PROVE  ChannelBehindConnection'
<1> SUFFICES ASSUME NEW t \in UpstreamClients, NEW port \in PortIds,
                    NEW chan \in ChannelIds,
                    proxy'[t][ChannelPath(port, chan)] # Absent
             PROVE  Ready(proxy'[t][ConnectionPath(proxy'[t][ChannelPath(port, chan)].hop)],
                          proxy'[t][ChannelPath(port, chan)])
  BY DEF ChannelBehindConnection, GetProxyChannel, GetProxyConnection, Ready,
         SupportsOrder
<1> DEFINE old == proxy[t][ChannelPath(port, chan)]
           new == proxy'[t][ChannelPath(port, chan)]
           conn == proxy[t][ConnectionPath(new.hop)]
<1>1. proxy[t] \in Store /\ proxy'[t] \in Store BY StepTyped DEF TypeOK
<1>2. new \in Channel BY <1>1, StoreRead, PathsTyped
<1>3. Ready(conn, new)
  <2>1. CASE new = old
    BY <2>1 DEF ChannelBehindConnection, GetProxyChannel, GetProxyConnection, Ready
  <2>2. CASE new # old BY <2>2, StepChannel
  <2> QED BY <2>1, <2>2
<1>4. new.hop \in ConnectionIds
  <2> HIDE DEF new
  <2> QED BY <1>2 DEF Channel
<1>5. Advances(conn, proxy'[t][ConnectionPath(new.hop)]) BY <1>4, StepAdvances
<1>6. conn \in ConnectionEnd
  BY <1>1, <1>3, <1>4, StoreRead, PathsTyped DEF Ready
<1> HIDE DEF new, conn
<1>7. Ready(proxy'[t][ConnectionPath(new.hop)], new)
  BY <1>3, <1>5, <1>6, AdvancesKeeps DEF Ready
<1> QED BY <1>7 DEF new

\* A proxy starts with an empty store.
LEMMA EmptyAtInit ==
  ASSUME Init, NEW u \in UpstreamClients, NEW p \in Path
  PROVE  proxy[u][p] = Absent
BY DEF Init, EmptyStore

\* A channel end is mirrored only over a mirrored connection that supports its ordering,
\* and past INIT only over an open one, for every value of the constants.
THEOREM ChannelsBehindConnections == Spec => []ChannelBehindConnection
<1>1. Init => TypeOK /\ ChannelBehindConnection
  BY InitTyped, EmptyAtInit, PathsTyped DEF ChannelBehindConnection, GetProxyChannel
<1>2. TypeOK /\ ChannelBehindConnection /\ [Next]_vars
        => TypeOK' /\ ChannelBehindConnection'
  BY StepTyped, ChannelBehindConnectionStep
<1> QED BY <1>1, <1>2, PTL DEF Spec

\* Packet state changes only below a mirrored channel.
LEMMA StepPacket ==
  ASSUME TypeOK, [Next]_vars, NEW t \in UpstreamClients,
         NEW port \in PortIds, NEW chan \in ChannelIds, NEW seq \in Sequence,
         NEW q \in {CommitmentPath(port, chan, seq), AckPath(port, chan, seq)}
  PROVE  \/ proxy'[t][q] = proxy[t][q]
         \/ proxy[t][ChannelPath(port, chan)] # Absent
<1> DEFINE Goal == \/ proxy'[t][q] = proxy[t][q]
                   \/ proxy[t][ChannelPath(port, chan)] # Absent
<1>1. CASE UNCHANGED proxy BY <1>1
<1>2. ASSUME NEW u \in UpstreamClients, NEW h \in Height, Msg(u, h)
      PROVE  Goal
  <2>0. /\ q \in Path /\ q \notin ClientPaths \cup ConsensusPaths
        /\ q \in CommitmentPaths \cup AckPaths
    BY PathsTyped, PathsDistinct DEF CommitmentPaths, AckPaths
  <2>1. CASE ClientMsg(u, h) BY <2>0, <2>1, ClientEffect
  <2>2. CASE ConnectionMsg(u, h) BY <2>0, <2>2, ConnectionMsgAdvances
  <2>3. CASE ChannelMsg(u, h)
    <3>0. PICK x \in PortIds, y \in ChannelIds : \E channel :
            proxy' = [proxy EXCEPT ![u] = [@ EXCEPT ![ChannelPath(x, y)] = channel]]
      BY <2>3, ChannelMsgWrites
    <3>1. PICK channel :
            proxy' = [proxy EXCEPT ![u] = [@ EXCEPT ![ChannelPath(x, y)] = channel]]
      BY <3>0
    <3>2. ChannelPath(x, y) \in Path /\ q # ChannelPath(x, y)
      BY PathsTyped, PathsDistinct
    <3>3. proxy'[t][q] = proxy[t][q] BY <2>0, <3>1, <3>2, WriteEffect
    <3> QED BY <3>3
  <2>4. CASE PacketMsg(u, h)
    <3>0. PICK x \in PortIds, y \in ChannelIds, z \in Sequence : \E v :
            \E p \in {CommitmentPath(x, y, z), AckPath(x, y, z)} :
              /\ GetProxyChannel(u, x, y) # Absent
              /\ proxy' = [proxy EXCEPT ![u] = [@ EXCEPT ![p] = v]]
      BY <2>4, PacketMsgWrites
    <3>1. PICK v :
            \E p \in {CommitmentPath(x, y, z), AckPath(x, y, z)} :
              /\ GetProxyChannel(u, x, y) # Absent
              /\ proxy' = [proxy EXCEPT ![u] = [@ EXCEPT ![p] = v]]
      BY <3>0
    <3>2. PICK p \in {CommitmentPath(x, y, z), AckPath(x, y, z)} :
            /\ GetProxyChannel(u, x, y) # Absent
            /\ proxy' = [proxy EXCEPT ![u] = [@ EXCEPT ![p] = v]]
      BY <3>1
    <3>3. p \in Path BY PathsTyped
    <3>4. CASE t = u /\ q = p
      <4>1. x = port /\ y = chan BY <3>4, PathsDistinct
      <4> QED BY <3>2, <3>4, <4>1 DEF GetProxyChannel
    <3>5. CASE ~ (t = u /\ q = p)
      <4>1. proxy'[t][q] = proxy[t][q] BY <2>0, <3>2, <3>3, <3>5, WriteEffect
      <4> QED BY <4>1
    <3> QED BY <3>4, <3>5
  <2> QED BY <1>2, <2>1, <2>2, <2>3, <2>4 DEF Msg
<1> QED BY <1>1, <1>2 DEF Next, UpdateClient, Commit, vars

\* A mirrored channel stays mirrored, over a mirrored connection, so the packets below it
\* stay behind it.
LEMMA PacketBehindChannelStep ==
  ASSUME TypeOK, ChannelBehindConnection, PacketBehindChannel, [Next]_vars
  PROVE  PacketBehindChannel'
<1>1. ChannelBehindConnection' BY ChannelBehindConnectionStep
<1> SUFFICES ASSUME NEW t \in UpstreamClients, NEW port \in PortIds,
                    NEW chan \in ChannelIds, NEW seq \in Sequence,
                    \/ proxy'[t][CommitmentPath(port, chan, seq)] # Absent
                    \/ proxy'[t][AckPath(port, chan, seq)] # Absent
             PROVE  proxy'[t][ChannelPath(port, chan)] # Absent
  BY <1>1 DEF PacketBehindChannel, ChannelBehindConnection, GetProxyChannel,
              GetProxyConnection
<1>2. PICK q \in {CommitmentPath(port, chan, seq), AckPath(port, chan, seq)} :
        proxy'[t][q] # Absent
  OBVIOUS
<1>3. proxy[t][ChannelPath(port, chan)] # Absent
  <2>1. CASE proxy'[t][q] = proxy[t][q]
    BY <1>2, <2>1 DEF PacketBehindChannel, GetProxyChannel
  <2>2. CASE proxy'[t][q] # proxy[t][q] BY <2>2, StepPacket
  <2> QED BY <2>1, <2>2
<1> QED BY <1>3, StepChannel, AbsentAssumption

\* Packet commitments and acknowledgements are mirrored only below a mirrored channel over
\* a mirrored connection, for every value of the constants.
THEOREM PacketsBehindChannels == Spec => []PacketBehindChannel
<1> DEFINE IInv == TypeOK /\ ChannelBehindConnection /\ PacketBehindChannel
<1>1. Init => IInv
  <2> SUFFICES ASSUME Init PROVE IInv OBVIOUS
  <2>1. ChannelBehindConnection
    BY EmptyAtInit, PathsTyped DEF ChannelBehindConnection, GetProxyChannel
  <2>2. PacketBehindChannel BY EmptyAtInit, PathsTyped DEF PacketBehindChannel
  <2> QED BY <2>1, <2>2, InitTyped
<1>2. IInv /\ [Next]_vars => IInv'
  BY StepTyped, ChannelBehindConnectionStep, PacketBehindChannelStep
<1> QED BY <1>1, <1>2, PTL DEF Spec
=============================================================================
