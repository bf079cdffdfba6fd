------------------------ MODULE MutualTrackingProofs ------------------------
(***************************************************************************)
(* A connection is proxied only when both ends follow each other, for      *)
(* every value of the constants and through any number of proxies: the     *)
(* handlers check it once, in ConnOpenTry or ConnOpenAck, and the client   *)
(* that it rests on may be mirrored again at other heights later.          *)
(***************************************************************************)
EXTENDS ChainHistoryProofs

-----------------------------------------------------------------------------
(* One client, whatever the height it is looked up at.                     *)

ClientAt(s) == ledger[s.chain][s.height][ClientPath(s.clientId)]

\* Two lookups of one client of one chain, perhaps in two blocks.
SameSpot(s, t) == s.chain = t.chain /\ s.clientId = t.clientId

\* Two blocks of a chain hold states of one client under one identifier.
LEMMA SpotsSame ==
  ASSUME TypeOK, LegalHistories, NEW s, NEW t, Place(s), Place(t), SameSpot(s, t),
         ClientAt(s) # Absent, ClientAt(t) # Absent
  PROVE  SameClient(ClientAt(s), ClientAt(t))
<1> DEFINE H == ledger[s.chain]
           p == ClientPath(s.clientId)
           i == s.height
           j == t.height
<1>1. H \in Seq(Store) /\ Persistent(H) /\ p \in ClientPaths
  BY DEF Place, TypeOK, LegalHistories, LegalHistory, ClientPaths
<1>2. i \in 1..Len(H) /\ j \in 1..Len(H) BY DEF Place, SameSpot
<1>3. ClientAt(s) = H[i][p] /\ ClientAt(t) = H[j][p] BY DEF ClientAt, SameSpot
<1> HIDE DEF H, p, i, j
<1>4. i <= j \/ j <= i BY <1>1, <1>2
<1>5. SameClient(H[i][p], H[j][p]) \/ SameClient(H[j][p], H[i][p])
  BY <1>1, <1>2, <1>3, <1>4 DEF Persistent
<1> QED BY <1>3, <1>5, SameClientEquivalence

\* A consensus state found in a block is of the chain of its client there.
LEMMA ConsensusOfClient ==
  ASSUME TypeOK, LegalHistories, NEW s, Place(s), NEW hc \in Height,
         ledger[s.chain][s.height][ConsensusPath(s.clientId, hc)] # Absent
  PROVE  LET cons == ledger[s.chain][s.height][ConsensusPath(s.clientId, hc)] IN
         /\ ClientAt(s) # Absent
         /\ cons.chain = ClientAt(s).chain
<1>1. Coherent(ledger[s.chain][s.height]) BY DEF Place, LegalHistories, LegalHistory
<1> QED BY <1>1 DEF Coherent, ClientAt, Place

\* A step of verifyProxyState goes to the chain and to the client that the head names.
LEMMA FollowNamed ==
  ASSUME TypeOK, LegalHistories, NEW s, Place(s), NEW a \in Follow(s)
  PROVE  /\ ClientAt(s) # Absent /\ ClientAt(s).kind = "proxy"
         /\ a.chain = ClientAt(s).chain
         /\ a.clientId = ClientAt(s).upstreamClientId
<1> DEFINE block == ledger[s.chain][s.height]
<1>1. ClientAt(s) # Absent /\ ClientAt(s).kind = "proxy" BY DEF Follow, ClientAt
<1>2. PICK hc \in Height :
        LET cons == block[ConsensusPath(s.clientId, hc)] IN
        /\ a = Site(cons.chain, cons.height, ClientAt(s).upstreamClientId)
        /\ cons # Absent
  BY DEF Follow, ClientAt
<1>3. block[ConsensusPath(s.clientId, hc)].chain = ClientAt(s).chain
  BY <1>2, ConsensusOfClient
<1> QED BY <1>1, <1>2, <1>3 DEF Site

\* So a step from two blocks leads to one spot.
LEMMA FollowSame ==
  ASSUME TypeOK, LegalHistories, NEW s, NEW t, Place(s), Place(t), SameSpot(s, t),
         NEW a \in Follow(s), NEW b \in Follow(t)
  PROVE  SameSpot(a, b)
<1>1. SameClient(ClientAt(s), ClientAt(t)) BY FollowNamed, SpotsSame
<1> QED BY <1>1, FollowNamed DEF SameClient, SameSpot

\* And so does the whole verification.
LEMMA SitesSame ==
  ASSUME TypeOK, LegalHistories, NEW u \in UpstreamClients, NEW id \in ClientIds,
         NEW h, NEW k, NEW s \in ClientSites(u, h, id), NEW t \in ClientSites(u, k, id)
  PROVE  SameSpot(s, t)
<1> DEFINE S == Site(Tracks[u], h, id)
           T == Site(Tracks[u], k, id)
<1>1. h \in consensus[u] /\ k \in consensus[u] BY DEF ClientSites
<1>2. Place(S) /\ Place(T) BY <1>1, StartTyped
<1>3. SameSpot(S, T) BY DEF Site, SameSpot
<1>4. CASE u \notin MultiV
  <2>1. s = S /\ t = T BY <1>1, <1>4 DEF ClientSites
  <2> QED BY <1>3, <2>1
<1>5. CASE u \in MultiV
  <2>1. s \in VerifyProxyState(u, S) /\ t \in VerifyProxyState(u, T)
    BY <1>1, <1>5 DEF ClientSites
  <2> HIDE DEF S, T
  <2>2. CASE Depth[u] = 0
    <3>1. s \in Follow(S) /\ t \in Follow(T) BY <2>1, <2>2 DEF VerifyProxyState
    <3> QED BY <1>2, <1>3, <3>1, FollowSame
  <2>3. CASE Depth[u] # 0
    <3>1. PICK a \in Follow(S) : s \in Follow(a) BY <2>1, <2>3 DEF VerifyProxyState
    <3>2. PICK b \in Follow(T) : t \in Follow(b) BY <2>1, <2>3 DEF VerifyProxyState
    <3>3. Place(a) /\ Place(b) BY <1>2, FollowTyped
    <3>4. SameSpot(a, b) BY <1>2, <1>3, FollowSame
    <3> QED BY <3>1, <3>2, <3>3, <3>4, FollowSame
  <2> QED BY <2>2, <2>3
<1> QED BY <1>4, <1>5

\* The client states that VerifyClientState accepts for one identifier, at any two
\* heights, are states of one client, and the consensus states that
\* VerifyClientConsensusState accepts are of its chain.
LEMMA ProvableSame ==
  ASSUME TypeOK, LegalHistories, NEW u \in UpstreamClients, NEW id \in ClientIds,
         NEW h, NEW k, NEW a \in ProvableClientStates(u, h, id)
  PROVE  /\ \A b \in ProvableClientStates(u, k, id) : SameClient(a, b)
         /\ \A hc \in Height : \A cons \in ProvableConsensusStates(u, k, id, hc) :
              cons.chain = a.chain
<1>1. PICK s \in ClientSites(u, h, id) : a = ClientAt(s)
  BY DEF ProvableClientStates, ClientAt
<1>2. a # Absent BY DEF ProvableClientStates
<1>3. \A t \in ClientSites(u, k, id) : Place(t) /\ SameSpot(s, t)
  BY SitesTyped, SitesSame DEF Place
<1>4. Place(s) BY SitesTyped DEF Place
<1>5. ASSUME NEW b \in ProvableClientStates(u, k, id)
      PROVE  SameClient(a, b)
  <2>1. PICK t \in ClientSites(u, k, id) : b = ClientAt(t)
    BY DEF ProvableClientStates, ClientAt
  <2>2. b # Absent BY DEF ProvableClientStates
  <2> QED BY <1>1, <1>2, <1>3, <1>4, <2>1, <2>2, SpotsSame
<1>6. ASSUME NEW hc \in Height, NEW cons \in ProvableConsensusStates(u, k, id, hc)
      PROVE  cons.chain = a.chain
  <2>1. PICK t \in ClientSites(u, k, id) :
          cons = ledger[t.chain][t.height][ConsensusPath(t.clientId, hc)]
    BY DEF ProvableConsensusStates
  <2>2. cons # Absent BY DEF ProvableConsensusStates
  <2>3. /\ ClientAt(t) # Absent
        /\ cons.chain = ClientAt(t).chain
    BY <1>3, <2>1, <2>2, ConsensusOfClient
  <2>4. SameClient(a, ClientAt(t)) BY <1>1, <1>2, <1>3, <1>4, <2>3, SpotsSame
  <2> QED BY <2>3, <2>4 DEF SameClient
<1> QED BY <1>5, <1>6

\* A mirrored client may be mirrored again from another height: it stays the same client.
LEMMA ClientStays ==
  ASSUME HistoryInv, [Next]_vars, NEW t \in UpstreamClients, NEW id \in ClientIds,
         proxy[t][ClientPath(id)] # Absent
  PROVE  SameClient(proxy[t][ClientPath(id)], proxy'[t][ClientPath(id)])
<1> DEFINE p == ClientPath(id)
<1>0. p \in Path BY PathsTyped
<1>1. CASE proxy'[t][p] = proxy[t][p] BY <1>1, SameClientEquivalence
<1>2. ASSUME NEW u \in UpstreamClients, NEW h \in Height, Msg(u, h),
             proxy'[t][p] # proxy[t][p]
      PROVE  SameClient(proxy[t][p], proxy'[t][p])
  <2>1. PICK s \in Store :
          /\ proxy' = [proxy EXCEPT ![u] = s]
          /\ \A q \in Path :
               s[q] # proxy[u][q] =>
                 s[q] # Absent /\ h \in consensus[u] /\ s[q] \in Attested(u, h, q)
    BY <1>2, MsgMirrors DEF Mirrors, HistoryInv
  <2>2. proxy'[t] = IF t = u THEN s ELSE proxy[t] BY <2>1 DEF TypeOK, HistoryInv
  <2>3. t = u /\ proxy'[t] = s BY <1>2, <2>2
  <2>4. s[p] \in Attested(t, h, p) BY <1>0, <1>2, <2>1, <2>3
  <2>5. PICK k \in consensus[t] : proxy[t][p] \in Attested(t, k, p)
    BY <1>0 DEF MirrorSound, SoundStore, HistoryInv
  <2>6. /\ s[p] \in ProvableClientStates(t, h, id)
        /\ proxy[t][p] \in ProvableClientStates(t, k, id)
    BY <2>4, <2>5, AttestedByKind
  <2> QED BY <2>3, <2>6, ProvableSame DEF HistoryInv
<1> QED BY <1>1, <1>2 DEF Next, UpdateClient, Commit, vars

-----------------------------------------------------------------------------
(* What a client shows.                                                    *)

\* Two states of one client show the same.
LEMMA SeenSame ==
  ASSUME NEW a \in ClientState, NEW b, SameClient(a, b), NEW id
  PROVE  SeenClients(a, id) = SeenClients(b, id)
<1>1. a.kind \in {"tm", "proxy"} BY DEF ClientState, TMClient, ProxyClient
<1>2. /\ a.kind = b.kind /\ a.chain = b.chain
      /\ a.kind # "tm" => a.upstreamClientId = b.upstreamClientId
  BY <1>1 DEF SameClient
<1> QED BY <1>2 DEF SeenClients

\* What a client showed it goes on showing.
LEMMA SeenGrows ==
  ASSUME TypeOK, Grows, NEW cs \in ClientState, NEW id \in ClientIds,
         NEW seen \in SeenClients(cs, id)
  PROVE  seen \in SeenClients(cs, id)'
<1>1. CASE cs.kind = "tm"
  <2>1. cs.chain \in Counterparties BY <1>1 DEF ClientState, TMClient, ProxyClient
  <2>2. PICK h \in 1..Len(ledger[cs.chain]) : seen = ledger[cs.chain][h][ClientPath(id)]
    BY <1>1 DEF SeenClients
  <2>3. h \in 1..Len(ledger'[cs.chain]) /\ ledger'[cs.chain][h] = ledger[cs.chain][h]
    BY <2>1, <2>2 DEF Grows, TypeOK, Height
  <2> QED BY <1>1, <2>2, <2>3 DEF SeenClients
<1>2. CASE cs.kind # "tm"
  <2> DEFINE w == cs.upstreamClientId
  <2>1. cs.chain = ProxyChain /\ w \in UpstreamClients BY <1>2 DEF SeenClients
  <2>2. PICK k \in consensus[w] : seen \in ProvableClientStates(w, k, id)
    BY <1>2, <2>1 DEF SeenClients
  <2>3. seen \in Attested(w, k, ClientPath(id)) /\ ClientPath(id) \in Path
    BY <2>2, AttestedByKind, PathsTyped
  <2>4. seen \in Attested(w, k, ClientPath(id))' BY <2>1, <2>3, AttestedStable
  <2>5. seen \in ProvableClientStates(w, k, id)' BY <2>4 DEF Attested, ClientPath
  <2>6. k \in consensus'[w] BY <2>1 DEF Grows
  <2> QED BY <1>2, <2>1, <2>5, <2>6 DEF SeenClients
<1> QED BY <1>1, <1>2

\* The client that the downstream proofs of ConnOpenTry and ConnOpenAck verify is one
\* that the mirrored client shows: read in a block of the downstream, or in the mirror of
\* it that a block of this chain committed.
LEMMA DownstreamSeen ==
  ASSUME HistoryInv, NEW u \in UpstreamClients, NEW h, NEW id \in ClientIds,
         NEW hc \in Height, NEW cp \in ClientIds,
         NEW cs \in ProvableClientStates(u, h, id),
         NEW cons \in ProvableConsensusStates(u, h, id, hc),
         DownstreamValue(cs, cons, ClientPath(cp)) # Absent
  PROVE  DownstreamValue(cs, cons, ClientPath(cp)) \in SeenClients(cs, cp)
<1>1. TypeOK /\ LegalHistories /\ MirrorSound BY DEF HistoryInv
<1>2. cons.chain = cs.chain BY <1>1, ProvableSame
<1>3. CASE cs.kind = "tm"
  <2>1. /\ cons.chain \in Counterparties
        /\ cons.height \in 1..Len(ledger[cons.chain])
        /\ DownstreamValue(cs, cons, ClientPath(cp))
             = ledger[cons.chain][cons.height][ClientPath(cp)]
    BY <1>3 DEF DownstreamValue
  <2> QED BY <1>2, <1>3, <2>1 DEF SeenClients
<1>4. CASE cs.kind # "tm"
  <2> DEFINE w == cs.upstreamClientId
             v == blocks[cons.height][w][ClientPath(cp)]
  <2>1. /\ cons.chain = ProxyChain /\ w \in UpstreamClients
        /\ cons.height \in 1..Len(blocks)
        /\ DownstreamValue(cs, cons, ClientPath(cp)) = v
    BY <1>4 DEF DownstreamValue
  <2>2. SoundStore(w, blocks[cons.height][w]) BY <1>1, <2>1 DEF MirrorSound
  <2>3. PICK k \in consensus[w] : v \in Attested(w, k, ClientPath(cp))
    BY <2>1, <2>2, PathsTyped DEF SoundStore
  <2>4. v \in ProvableClientStates(w, k, cp) BY <2>3, AttestedByKind
  <2> QED BY <1>2, <1>4, <2>1, <2>4 DEF SeenClients
<1> QED BY <1>3, <1>4

-----------------------------------------------------------------------------
(* Mutual tracking.                                                        *)

\* A proxied connection end appears only by ConnOpenTry or ConnOpenAck for it.
LEMMA ConnectionAppears ==
  ASSUME TypeOK, [Next]_vars, NEW t \in UpstreamClients, NEW id \in ConnectionIds,
         proxy[t][ConnectionPath(id)] = Absent, proxy'[t][ConnectionPath(id)] # Absent
  PROVE  \E h, hc, hp \in Height, state \in {"INIT", "TRYOPEN"} :
           /\ ProxyNewConnection(t, id, state, h, hc, hp)
           /\ UNCHANGED <<ledger, blocks, consensus>>
<1> DEFINE q == ConnectionPath(id)
<1>0. /\ q \in Path /\ q \notin ClientPaths \cup ConsensusPaths
      /\ proxy'[t][q] # proxy[t][q]
  BY PathsTyped, PathsDistinct
<1>1. CASE UNCHANGED proxy BY <1>0, <1>1
<1>2. ASSUME NEW u \in UpstreamClients, NEW h \in Height, Msg(u, h)
      PROVE  ConnectionMsg(u, h) /\ UNCHANGED <<ledger, blocks, consensus>>
  <2>1. CASE ClientMsg(u, h) BY <1>0, <2>1, ClientEffect
  <2>2. CASE ChannelMsg(u, h)
    <3>1. PICK port \in PortIds, chan \in ChannelIds : \E channel :
            proxy' = [proxy EXCEPT ![u] = [@ EXCEPT ![ChannelPath(port, chan)] = channel]]
      BY <2>2, ChannelMsgWrites
    <3>2. PICK channel :
            proxy' = [proxy EXCEPT ![u] = [@ EXCEPT ![ChannelPath(port, chan)] = channel]]
      BY <3>1
    <3>3. ChannelPath(port, chan) \in Path /\ q # ChannelPath(port, chan)
      BY PathsTyped, PathsDistinct
    <3>4. proxy'[t][q] = proxy[t][q] BY <1>0, <3>2, <3>3, WriteEffect
    <3> QED BY <1>0, <3>4
  <2>3. CASE PacketMsg(u, h)
    <3>1. PICK x \in PortIds, y \in ChannelIds, z \in Sequence : \E v :
            \E p \in {CommitmentPath(x, y, z), AckPath(x, y, z)} :
              /\ GetProxyChannel(u, x, y) # Absent
              /\ proxy' = [proxy EXCEPT ![u] = [@ EXCEPT ![p] = v]]
      BY <2>3, PacketMsgWrites
    <3>2. PICK v :
            \E p \in {CommitmentPath(x, y, z), AckPath(x, y, z)} :
              /\ GetProxyChannel(u, x, y) # Absent
              /\ proxy' = [proxy EXCEPT ![u] = [@ EXCEPT ![p] = v]]
      BY <3>1
    <3>3. PICK p \in {CommitmentPath(x, y, z), AckPath(x, y, z)} :
            proxy' = [proxy EXCEPT ![u] = [@ EXCEPT ![p] = v]]
      BY <3>2
    <3>4. p \in Path /\ q # p BY PathsTyped, PathsDistinct
    <3>5. proxy'[t][q] = proxy[t][q] BY <1>0, <3>3, <3>4, WriteEffect
    <3> QED BY <1>0, <3>5
  <2> QED BY <1>2, <2>1, <2>2, <2>3 DEF Msg
<1>3. ASSUME NEW u \in UpstreamClients, NEW h \in Height, NEW x \in ConnectionIds,
             NEW v, proxy[u][ConnectionPath(x)] # Absent, SetProxyConnection(u, x, v)
      PROVE  FALSE
  <2>1. ConnectionPath(x) \in Path BY PathsTyped
  <2>2. proxy' = [proxy EXCEPT ![u] = [@ EXCEPT ![ConnectionPath(x)] = v]]
    BY <1>3 DEF SetProxyConnection
  <2>3. ~ (t = u /\ q = ConnectionPath(x)) BY <1>3
  <2>4. proxy'[t][q] = proxy[t][q] BY <1>0, <2>1, <2>2, <2>3, WriteEffect
  <2> QED BY <1>0, <2>4
<1>4. ASSUME NEW u \in UpstreamClients, NEW h \in Height, ConnectionMsg(u, h)
      PROVE  \E hc, hp \in Height, state \in {"INIT", "TRYOPEN"} :
               ProxyNewConnection(t, id, state, h, hc, hp)
  <2>1. PICK x \in ConnectionIds :
          \/ \E hc, hp \in Height : ConnOpenTry(u, x, h, hc, hp)
          \/ \E hc, hp \in Height : ConnOpenAck(u, x, h, hc, hp)
          \/ \E cpConn \in ConnectionIds : ConnOpenConfirm(u, x, cpConn, h)
          \/ ConnOpenFinalize(u, x, h)
    BY <1>4 DEF ConnectionMsg
  <2>2. ~ \E cpConn \in ConnectionIds : ConnOpenConfirm(u, x, cpConn, h)
    BY <1>3 DEF ConnOpenConfirm, VerifyAndProxyConnectionState, GetProxyConnection
  <2>3. ~ ConnOpenFinalize(u, x, h)
    BY <1>3 DEF ConnOpenFinalize, VerifyAndProxyConnectionState, GetProxyConnection
  <2>4. PICK hc \in Height, hp \in Height, state \in {"INIT", "TRYOPEN"} :
          ProxyNewConnection(u, x, state, h, hc, hp)
    BY <2>1, <2>2, <2>3 DEF ConnOpenTry, ConnOpenAck
  <2>5. t = u /\ q = ConnectionPath(x) BY <1>0, <2>4, NewConnectionEffect
  <2>6. id = x BY <2>5, PathsDistinct
  <2> QED BY <2>4, <2>5, <2>6
<1> QED BY <1>0, <1>1, <1>2, <1>4 DEF Next, UpdateClient, Commit, vars

\* What ConnOpenTry and ConnOpenAck store for a connection and its client.
LEMMA NewConnectionStored ==
  ASSUME TypeOK, NEW u \in UpstreamClients, NEW id \in ConnectionIds, NEW h, NEW hc \in Height,
         NEW conn \in ConnectionEnd, NEW cs, NEW cons,
         proxy' = [proxy EXCEPT ![u] = [@ EXCEPT
                      ![ClientPath(conn.clientId)] = cs,
                      ![ConsensusPath(conn.clientId, hc)] = cons,
                      ![ConnectionPath(id)] = conn]]
  PROVE  /\ proxy'[u][ConnectionPath(id)] = conn
         /\ proxy'[u][ClientPath(conn.clientId)] = cs
<1> DEFINE client == conn.clientId
<1>1. client \in ClientIds BY DEF ConnectionEnd
<1>2. /\ ClientPath(client) \in Path /\ ConsensusPath(client, hc) \in Path
      /\ ConnectionPath(id) \in Path
  BY <1>1, PathsTyped
<1>3. /\ ClientPath(client) # ConsensusPath(client, hc)
      /\ ClientPath(client) # ConnectionPath(id)
  BY DEF ClientPath, ConsensusPath, ConnectionPath
<1>4. proxy \in [UpstreamClients -> Store] BY DEF TypeOK
<1>5. proxy[u] \in [Path -> Value] BY <1>4 DEF Store
<1>6. proxy'[u] = [[[proxy[u] EXCEPT ![ClientPath(client)] = cs]
                      EXCEPT ![ConsensusPath(client, hc)] = cons]
                      EXCEPT ![ConnectionPath(id)] = conn]
  BY <1>4
<1> HIDE DEF client
<1>7. /\ proxy'[u][ConnectionPath(id)] = conn
      /\ proxy'[u][ClientPath(client)] = cs
  BY <1>2, <1>3, <1>5, <1>6
<1> QED BY <1>7 DEF client

\* An end that advances keeps its client and its counterparty's.
LEMMA AdvancesKeepsClients ==
  ASSUME NEW old \in ConnectionEnd, NEW new, Advances(old, new)
  PROVE  /\ new.clientId = old.clientId
         /\ new.counterparty.clientId = old.counterparty.clientId
<1>0. old # Absent BY AbsentAssumption
<1>1. CASE new = old BY <1>1
<1>2. CASE \E cpConn \in ConnectionIds :
             new = [old EXCEPT !.state = "OPEN", !.counterparty.connectionId = cpConn]
  <2>1. PICK cpConn \in ConnectionIds :
          new = [old EXCEPT !.state = "OPEN", !.counterparty.connectionId = cpConn]
    BY <1>2
  <2> QED BY <2>1 DEF ConnectionEnd
<1>3. CASE new = [old EXCEPT !.state = "OPEN"] BY <1>3 DEF ConnectionEnd
<1> QED BY <1>0, <1>1, <1>2, <1>3 DEF Advances

\* A client of the connection's downstream shows this proxy's client for u.
Tracked(cs, conn, u) ==
  /\ cs # Absent
  /\ \E seen \in SeenClients(cs, conn.counterparty.clientId) : OwnProxyClient(seen, u)

\* The handlers establish mutual tracking when a connection appears.
LEMMA NewConnectionTracked ==
  ASSUME HistoryInv, NEW u \in UpstreamClients, NEW id \in ConnectionIds,
         NEW h \in Height, NEW hc \in Height, NEW hp \in Height, NEW state,
         ProxyNewConnection(u, id, state, h, hc, hp)
  PROVE  \E conn \in ConnectionEnd, cs \in ClientState :
           /\ proxy'[u][ConnectionPath(id)] = conn
           /\ proxy'[u][ClientPath(conn.clientId)] = cs
           /\ Tracked(cs, conn, u)
<1> DEFINE conn == Proven(u, h, ConnectionPath(id))
           cp == conn.counterparty.clientId
<1>0. TypeOK BY DEF HistoryInv
<1>1. conn \in ConnectionEnd
  BY <1>0, ProvenTyped, PathsTyped DEF ProxyNewConnection
<1>2. PICK cs \in ProvableClientStates(u, h, conn.clientId),
           cons \in ProvableConsensusStates(u, h, conn.clientId, hc) :
        /\ ProduceVerificationArgs(DownstreamValue(cs, cons, ClientPath(cp)), u, hp)
        /\ proxy' = [proxy EXCEPT ![u] = [@ EXCEPT
                      ![ClientPath(conn.clientId)] = cs,
                      ![ConsensusPath(conn.clientId, hc)] = cons,
                      ![ConnectionPath(id)] = conn]]
  BY DEF ProxyNewConnection
<1> HIDE DEF conn
<1>3. conn.clientId \in ClientIds /\ cp \in ClientIds BY <1>1 DEF ConnectionEnd
<1>4. cs \in ClientState /\ cs # Absent BY <1>0, <1>3, ProvableTyped
<1> DEFINE seen == DownstreamValue(cs, cons, ClientPath(cp))
<1>5. OwnProxyClient(seen, u) /\ seen # Absent
  BY <1>2 DEF ProduceVerificationArgs, ValidateSelfClient, OwnProxyClient
<1>6. seen \in SeenClients(cs, cp) BY <1>3, <1>5, DownstreamSeen
<1>7. Tracked(cs, conn, u)
  <2> HIDE DEF seen
  <2> QED BY <1>4, <1>5, <1>6 DEF Tracked
<1>8. /\ proxy'[u][ConnectionPath(id)] = conn
      /\ proxy'[u][ClientPath(conn.clientId)] = cs
  BY <1>0, <1>1, <1>2, NewConnectionStored
<1> QED BY <1>1, <1>4, <1>7, <1>8

\* Tracking that was established stays so while the mirrored client stays the same client
\* and histories grow.
LEMMA TrackedStays ==
  ASSUME TypeOK, Grows, NEW u \in UpstreamClients,
         NEW cs \in ClientState, NEW new \in ClientState, SameClient(cs, new),
         NEW conn \in ConnectionEnd, Tracked(cs, conn, u)
  PROVE  /\ new # Absent
         /\ \E seen \in SeenClients(new, conn.counterparty.clientId)' :
              OwnProxyClient(seen, u)
<1> DEFINE cp == conn.counterparty.clientId
<1>1. cp \in ClientIds BY DEF ConnectionEnd
<1>2. PICK seen \in SeenClients(cs, cp) : OwnProxyClient(seen, u) BY DEF Tracked
<1>3. seen \in SeenClients(new, cp) BY <1>2, SeenSame
<1>4. seen \in SeenClients(new, cp)' BY <1>1, <1>3, SeenGrows
<1> QED BY <1>2, <1>4, AbsentAssumption

\* MutualTracking is inductive relative to HistoryInv.
LEMMA MutualTrackingStep ==
  ASSUME HistoryInv, MutualTracking, [Next]_vars
  PROVE  MutualTracking'
<1> SUFFICES ASSUME NEW u \in UpstreamClients, NEW id \in ConnectionIds,
                    proxy'[u][ConnectionPath(id)] # Absent
             PROVE  Tracked(proxy[u][ClientPath(proxy[u][ConnectionPath(id)].clientId)],
                            proxy[u][ConnectionPath(id)], u)'
  BY DEF MutualTracking, GetProxyConnection, Tracked
<1> SUFFICES ASSUME NEW conn, NEW cs,
                    conn = proxy'[u][ConnectionPath(id)],
                    cs = proxy'[u][ClientPath(conn.clientId)]
             PROVE  /\ cs # Absent
                    /\ \E seen \in SeenClients(cs, conn.counterparty.clientId)' :
                         OwnProxyClient(seen, u)
  BY Zenon DEF Tracked, SeenClients, OwnProxyClient
<1>0. TypeOK /\ TypeOK' /\ Grows BY StepTyped DEF HistoryInv
<1>1. proxy[u] \in Store /\ proxy'[u] \in Store BY <1>0 DEF TypeOK
<1> DEFINE old == proxy[u][ConnectionPath(id)]
           oldcs == proxy[u][ClientPath(conn.clientId)]
<1>2. conn \in ConnectionEnd BY <1>1, StoreRead, PathsTyped
<1>3. conn.clientId \in ClientIds BY <1>2 DEF ConnectionEnd
<1>4. CASE old # Absent
  <2>1. old \in ConnectionEnd BY <1>1, <1>4, StoreRead, PathsTyped
  <2>2. Advances(old, conn) BY <1>0, StepAdvances
  <2>3. /\ conn.clientId = old.clientId
        /\ conn.counterparty.clientId = old.counterparty.clientId
    <3> HIDE DEF old
    <3> QED BY <2>1, <2>2, AdvancesKeepsClients
  <2>4. Tracked(oldcs, conn, u)
    BY <1>4, <2>3 DEF MutualTracking, GetProxyConnection, Tracked
  <2>5. oldcs # Absent /\ oldcs \in ClientState
    BY <1>1, <1>3, <2>4, StoreRead, PathsTyped DEF Tracked
  <2>6. SameClient(oldcs, cs) BY <1>3, <2>5, ClientStays
  <2>7. cs \in ClientState BY <1>1, <1>3, <2>6, StoreRead, PathsTyped DEF SameClient
  <2> HIDE DEF oldcs
  <2> QED BY <1>0, <1>2, <2>4, <2>5, <2>6, <2>7, TrackedStays
<1>5. CASE old = Absent
  <2>1. PICK h \in Height, hc \in Height, hp \in Height, state \in {"INIT", "TRYOPEN"} :
          ProxyNewConnection(u, id, state, h, hc, hp)
    BY <1>0, <1>5, ConnectionAppears
  <2>2. PICK c \in ConnectionEnd, new \in ClientState :
          /\ proxy'[u][ConnectionPath(id)] = c
          /\ proxy'[u][ClientPath(c.clientId)] = new
          /\ Tracked(new, c, u)
    BY <2>1, NewConnectionTracked
  <2>3. conn = c /\ cs = new BY <2>2
  <2>4. SameClient(new, new) BY AbsentAssumption, SameClientEquivalence
  <2> QED BY <1>0, <2>2, <2>3, <2>4, TrackedStays
<1> QED BY <1>4, <1>5

\* A connection end is proxied below an upstream client only if the chain at the other
\* end, as the mirrored client sees it, committed a proxy client of this chain for exactly
\* that upstream client, under the identifier that the connection end names: for every
\* number of chains, clients, connections, blocks and messages, and through multiv clients.
THEOREM ConnectionsTrackMutually == Spec => []MutualTracking
<1> DEFINE IInv == HistoryInv /\ MutualTracking
<1>1. Init => IInv
  BY HistoryInvariant, EmptyAtInit, PathsTyped DEF MutualTracking, GetProxyConnection
<1>2. IInv /\ [Next]_vars => IInv' BY HistoryInvariant, MutualTrackingStep
<1> QED BY <1>1, <1>2, PTL DEF Spec

\* A mirrored client is replaced only by another state of the same client, through direct
\* and multiv verification and however old the proof: the histories keep every client on
\* the walk what it was.
THEOREM ClientMirrorIsStable == Spec => ClientMirrorStable
<1>1. HistoryInv /\ [Next]_vars
        => (\A u \in UpstreamClients, id \in ClientIds :
              proxy[u][ClientPath(id)] # Absent =>
                SameClient(proxy[u][ClientPath(id)], proxy'[u][ClientPath(id)]))
  BY ClientStays
<1> QED BY <1>1, HistoryInvariant, PTL DEF Spec, ClientMirrorStable
=============================================================================
