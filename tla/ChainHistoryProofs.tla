------------------------- MODULE ChainHistoryProofs -------------------------
(***************************************************************************)
(* What the histories of the other chains keep, and what follows for the   *)
(* mirror: the proxy verifies values at any height a light client holds,   *)
(* in any order, so two mirrored values agree only as far as two blocks of *)
(* the upstream do.                                                        *)
(***************************************************************************)
EXTENDS ProxyHandshakeProofs

-----------------------------------------------------------------------------
(* A block more.                                                           *)

\* Every other chain has a legal history.
LegalHistories == \A c \in Counterparties : LegalHistory(ledger[c])

\* What one transaction does to the latest store.
Successor(old, new) ==
  /\ \A p \in ConnectionPaths \cup ChannelPaths : Settled(old[p], new[p])
  /\ \A p \in AckPaths : old[p] # Absent => new[p] = old[p]
  /\ \A p \in ClientPaths : old[p] # Absent => SameClient(old[p], new[p])
  /\ Coherent(old) => Coherent(new)

\* A packet commitment that appears uses a sequence that was never used.
FreshSequences(history, new) ==
  \A p \in CommitmentPaths :
    new[p] # Absent =>
      \/ new[p] = history[Len(history)][p]
      \/ \A i \in 1..Len(history) : history[i][p] = Absent

\* An end that is settled in three blocks in a row is settled in the last.
LEMMA SettledTransitive ==
  ASSUME NEW a, NEW b, NEW c, Settled(a, b), Settled(b, c)
  PROVE  Settled(a, c)
BY DEF Settled

\* Being states of one client is an equivalence.
LEMMA SameClientEquivalence ==
  /\ \A a : a # Absent => SameClient(a, a)
  /\ \A a, b : SameClient(a, b) => SameClient(b, a)
  /\ \A a, b, c : SameClient(a, b) /\ SameClient(b, c) => SameClient(a, c)
BY DEF SameClient

\* The keys of a store, by kind.
LEMMA KindsOfPaths ==
  /\ ClientPaths \subseteq Path /\ ConsensusPaths \subseteq Path
  /\ ConnectionPaths \subseteq Path /\ ChannelPaths \subseteq Path
  /\ CommitmentPaths \subseteq Path /\ AckPaths \subseteq Path
BY DEF Path

\* A legal history stays legal when a successor of its last store is appended.
LEMMA HistoryAppends ==
  ASSUME NEW H \in Seq(Store), Len(H) # 0, LegalHistory(H), NEW s \in Store,
         Successor(H[Len(H)], s), FreshSequences(H, s)
  PROVE  LegalHistory(Append(H, s))
<1> DEFINE n == Len(H)
           K == Append(H, s)
<1>1. n \in Nat /\ n \in 1..n /\ Len(K) = n + 1 OBVIOUS
<1>2. (\A i \in 1..n : K[i] = H[i]) /\ K[n + 1] = s OBVIOUS
<1>3. Successor(H[n], s) /\ FreshSequences(H, s) OBVIOUS
<1>4. Persistent(H) /\ \A i \in 1..n : Coherent(H[i]) BY DEF LegalHistory
<1> HIDE DEF K, n
<1>5. ASSUME NEW i \in 1..(n + 1)
      PROVE  Coherent(K[i])
  <2>1. CASE i \in 1..n BY <1>2, <1>4, <2>1
  <2>2. CASE i = n + 1 BY <1>1, <1>2, <1>3, <1>4, <2>2 DEF Successor
  <2> QED BY <1>1, <2>1, <2>2
<1>6. ASSUME NEW i \in 1..(n + 1), NEW j \in 1..(n + 1), i <= j
      PROVE  /\ \A p \in ConnectionPaths \cup ChannelPaths : Settled(K[i][p], K[j][p])
             /\ \A p \in AckPaths : K[i][p] # Absent => K[j][p] = K[i][p]
             /\ \A p \in CommitmentPaths :
                  K[i][p] # Absent /\ K[j][p] # Absent => K[j][p] = K[i][p]
             /\ \A p \in ClientPaths : K[i][p] # Absent => SameClient(K[i][p], K[j][p])
  <2>1. CASE j \in 1..n
    <3>1. i \in 1..n BY <1>1, <1>6, <2>1
    <3>2. K[i] = H[i] /\ K[j] = H[j] BY <1>2, <2>1, <3>1
    <3> QED BY <1>4, <1>6, <2>1, <3>1, <3>2 DEF Persistent, n
  <2>2. CASE i \in 1..n /\ j = n + 1
    <3>1. i <= n /\ n \in 1..n BY <1>1, <2>2
    <3>2. K[i] = H[i] /\ K[j] = s BY <1>2, <2>2
    <3>3. /\ \A p \in ConnectionPaths \cup ChannelPaths : Settled(H[i][p], H[n][p])
          /\ \A p \in AckPaths : H[i][p] # Absent => H[n][p] = H[i][p]
          /\ \A p \in CommitmentPaths :
               H[i][p] # Absent /\ H[n][p] # Absent => H[n][p] = H[i][p]
          /\ \A p \in ClientPaths : H[i][p] # Absent => SameClient(H[i][p], H[n][p])
      BY <1>4, <2>2, <3>1 DEF Persistent, n
    <3>4. \A p \in ConnectionPaths \cup ChannelPaths : Settled(H[i][p], s[p])
      BY <1>3, <3>3, SettledTransitive DEF Successor
    <3>5. \A p \in AckPaths : H[i][p] # Absent => s[p] = H[i][p]
      BY <1>3, <3>3 DEF Successor
    <3>6. \A p \in CommitmentPaths :
            H[i][p] # Absent /\ s[p] # Absent => s[p] = H[i][p]
      BY <1>3, <2>2, <3>3 DEF FreshSequences, n
    <3>7. \A p \in ClientPaths : H[i][p] # Absent => SameClient(H[i][p], s[p])
      <4>1. \A p \in ClientPaths : H[i][p] # Absent => H[n][p] # Absent
        BY <3>3 DEF SameClient
      <4> QED BY <1>3, <3>3, <4>1, SameClientEquivalence DEF Successor
    <3> QED BY <3>2, <3>4, <3>5, <3>6, <3>7
  <2>3. CASE i = n + 1 /\ j = n + 1
    BY <2>3, SameClientEquivalence DEF Settled
  <2> QED BY <1>1, <1>6, <2>1, <2>2, <2>3
<1>7. Persistent(K) BY <1>1, <1>6 DEF Persistent
<1>8. LegalHistory(K) BY <1>1, <1>5, <1>7 DEF LegalHistory
<1> QED BY <1>8 DEF K

\* The history of the chain that took a step is legal, so all are.
LEMMA LegalAppend ==
  ASSUME TypeOK, LegalHistories, NEW c \in Counterparties, NEW s \in Store,
         ledger' = [ledger EXCEPT ![c] = Append(@, s)],
         Successor(Latest(c), s), FreshSequences(ledger[c], s)
  PROVE  LegalHistories'
<1>1. ledger[c] \in Seq(Store) /\ Len(ledger[c]) # 0 BY DEF TypeOK, Height
<1>2. LegalHistory(Append(ledger[c], s))
  BY <1>1, HistoryAppends DEF LegalHistories, Latest
<1>3. \A d \in Counterparties :
        ledger'[d] = IF d = c THEN Append(ledger[c], s) ELSE ledger[d]
  BY DEF TypeOK
<1>4. \A d \in Counterparties : LegalHistory(ledger'[d])
  BY <1>2, <1>3 DEF LegalHistories
<1> QED BY <1>4 DEF LegalHistories

\* A transaction that writes one path, other than a client's.
LEMMA WriteLegal ==
  ASSUME TypeOK, LegalHistories, NEW c \in Counterparties, NEW p \in Path,
         NEW v \in ValueAt(p), Write(c, p, v),
         p \notin ClientPaths \cup ConsensusPaths,
         p \in ConnectionPaths \cup ChannelPaths => Settled(Latest(c)[p], v),
         p \in AckPaths => Latest(c)[p] = Absent,
         p \in CommitmentPaths =>
           v = Absent \/ \A i \in 1..Len(ledger[c]) : ledger[c][i][p] = Absent
  PROVE  LegalHistories'
<1> DEFINE old == Latest(c)
           s == [old EXCEPT ![p] = v]
<1>1. old \in Store BY LatestTyped
<1>2. s \in Store BY <1>1, StoreWrite
<1>3. ledger' = [ledger EXCEPT ![c] = Append(@, s)] BY DEF Write
<1>4. \A q \in Path : s[q] = IF q = p THEN v ELSE old[q] BY <1>1 DEF Store
<1> HIDE DEF s
<1>5. Successor(old, s)
  <2>1. \A q \in ConnectionPaths \cup ChannelPaths : Settled(old[q], s[q])
    <3>1. \A x : Settled(x, x) BY DEF Settled
    <3> QED BY <1>4, <3>1, KindsOfPaths
  <2>2. \A q \in AckPaths : old[q] # Absent => s[q] = old[q] BY <1>4, KindsOfPaths
  <2>3. \A q \in ClientPaths \cup ConsensusPaths : s[q] = old[q] BY <1>4, KindsOfPaths
  <2>4. \A q \in ClientPaths : old[q] # Absent => SameClient(old[q], s[q])
    BY <2>3, SameClientEquivalence
  <2>5. Coherent(old) => Coherent(s)
    <3>1. \A id \in ClientIds : ClientPath(id) \in ClientPaths BY DEF ClientPaths
    <3>2. \A id \in ClientIds, h \in Height : ConsensusPath(id, h) \in ConsensusPaths
      BY DEF ConsensusPaths
    <3> QED BY <2>3, <3>1, <3>2 DEF Coherent
  <2> QED BY <2>1, <2>2, <2>4, <2>5 DEF Successor
<1>6. FreshSequences(ledger[c], s)
  <2> SUFFICES ASSUME NEW q \in CommitmentPaths, s[q] # Absent
               PROVE  \/ s[q] = old[q]
                      \/ \A i \in 1..Len(ledger[c]) : ledger[c][i][q] = Absent
    BY DEF FreshSequences, Latest
  <2> QED BY <1>4, KindsOfPaths
<1> QED BY <1>2, <1>3, <1>5, <1>6, LegalAppend

-----------------------------------------------------------------------------
(* The transactions of ibc-go.                                             *)

\* A key of one kind is a key of no other.
LEMMA KindsDisjoint ==
  /\ \A p \in ConnectionPaths \cup ChannelPaths :
       p \notin ClientPaths \cup ConsensusPaths /\ p \notin CommitmentPaths \cup AckPaths
  /\ \A p \in CommitmentPaths :
       p \notin ClientPaths \cup ConsensusPaths
         /\ p \notin ConnectionPaths \cup ChannelPaths /\ p \notin AckPaths
  /\ \A p \in AckPaths :
       p \notin ClientPaths \cup ConsensusPaths
         /\ p \notin ConnectionPaths \cup ChannelPaths /\ p \notin CommitmentPaths
BY DEF ClientPaths, ConsensusPaths, ConnectionPaths, ChannelPaths, CommitmentPaths,
       AckPaths, ClientPath, ConsensusPath, ConnectionPath, ChannelPath, CommitmentPath,
       AckPath

\* A write of a connection or channel end that keeps settled ends settled.
LEMMA EndLegal ==
  ASSUME TypeOK, LegalHistories, NEW c \in Counterparties,
         NEW p \in ConnectionPaths \cup ChannelPaths, NEW v \in ValueAt(p), Write(c, p, v),
         Settled(Latest(c)[p], v)
  PROVE  LegalHistories'
<1>1. p \in Path BY KindsOfPaths
<1> QED BY <1>1, KindsDisjoint, WriteLegal

\* The connection handshake replaces ends in INIT and TRYOPEN only.
LEMMA ConnectionStepLegal ==
  ASSUME TypeOK, LegalHistories, NEW c \in Counterparties, ChainConnectionStep(c)
  PROVE  LegalHistories'
<1>1. PICK id \in OwnConnectionIds[c] :
        \/ \E client \in ClientIds, cpClient \in PeerClientIds, vs \in SUBSET Versions :
             ChainConnOpenInit(c, id, client, cpClient, vs)
        \/ \E client \in ClientIds, cpClient \in PeerClientIds, cpConn \in ConnectionIds,
              v \in Versions :
             ChainConnOpenTry(c, id, client, cpClient, cpConn, v)
        \/ \E cpConn \in ConnectionIds, v \in Versions : ChainConnOpenAck(c, id, cpConn, v)
        \/ ChainConnOpenConfirm(c, id)
  BY DEF ChainConnectionStep
<1> DEFINE p == ConnectionPath(id)
           old == Latest(c)[p]
<1>2. id \in ConnectionIds /\ p \in ConnectionPaths
  BY InitLedgerAssumption DEF ConnectionPaths
<1>3. p \in Path /\ ValueAt(p) = ConnectionEnd \cup {Absent} BY <1>2, PathsTyped
<1>4. old \in ConnectionEnd \cup {Absent} BY <1>3, LatestTyped, StoreRead
<1>5. ASSUME NEW v \in ConnectionEnd, Write(c, p, v),
             old = Absent \/ old.state \in {"INIT", "TRYOPEN"}
      PROVE  LegalHistories'
  <2>1. Settled(old, v) BY <1>5 DEF Settled
  <2> HIDE DEF p
  <2> QED BY <1>2, <1>3, <1>5, <2>1, EndLegal
<1>6. ASSUME NEW client \in ClientIds, NEW cpClient \in PeerClientIds,
             NEW vs \in SUBSET Versions,
             ChainConnOpenInit(c, id, client, cpClient, vs)
      PROVE  LegalHistories'
  <2> DEFINE v == [state |-> "INIT", clientId |-> client, versions |-> vs,
                   counterparty |-> [clientId |-> cpClient, connectionId |-> ""]]
  <2>1. v \in ConnectionEnd BY InitLedgerAssumption DEF ConnectionEnd
  <2>2. Write(c, p, v) /\ old = Absent BY <1>6 DEF ChainConnOpenInit
  <2> HIDE DEF v, p
  <2> QED BY <1>5, <2>1, <2>2
<1>7. ASSUME NEW client \in ClientIds, NEW cpClient \in PeerClientIds,
             NEW cpConn \in ConnectionIds, NEW w \in Versions,
             ChainConnOpenTry(c, id, client, cpClient, cpConn, w)
      PROVE  LegalHistories'
  <2> DEFINE v == [state |-> "TRYOPEN", clientId |-> client, versions |-> {w},
                   counterparty |-> [clientId |-> cpClient, connectionId |-> cpConn]]
  <2>1. v \in ConnectionEnd BY InitLedgerAssumption DEF ConnectionEnd
  <2>2. Write(c, p, v) /\ (old = Absent \/ old.state = "INIT")
    BY <1>7 DEF ChainConnOpenTry
  <2> HIDE DEF v, p
  <2> QED BY <1>5, <2>1, <2>2
<1>8. ASSUME NEW cpConn \in ConnectionIds, NEW w \in Versions,
             ChainConnOpenAck(c, id, cpConn, w)
      PROVE  LegalHistories'
  <2> DEFINE v == [old EXCEPT !.state = "OPEN", !.versions = {w},
                              !.counterparty.connectionId = cpConn]
  <2>1. old # Absent /\ old.state \in {"INIT", "TRYOPEN"} /\ Write(c, p, v)
    BY <1>8 DEF ChainConnOpenAck
  <2>2. v \in ConnectionEnd
    <3> HIDE DEF old
    <3> QED BY <1>4, <2>1, ConnectionEndTyped
  <2> HIDE DEF v, old
  <2> QED BY <1>5, <2>1, <2>2
<1>9. ASSUME ChainConnOpenConfirm(c, id)
      PROVE  LegalHistories'
  <2> DEFINE v == [old EXCEPT !.state = "OPEN"]
  <2>1. old # Absent /\ old.state = "TRYOPEN" /\ Write(c, p, v)
    BY <1>9 DEF ChainConnOpenConfirm
  <2>2. v \in ConnectionEnd
    <3> HIDE DEF old
    <3> QED BY <1>4, <2>1, ConnectionEndTyped
  <2> HIDE DEF v, old
  <2> QED BY <1>5, <2>1, <2>2
<1> QED BY <1>1, <1>6, <1>7, <1>8, <1>9

\* The channel handshake replaces ends in INIT and TRYOPEN, and closes any end.
LEMMA ChannelStepLegal ==
  ASSUME TypeOK, LegalHistories, NEW c \in Counterparties, ChainChannelStep(c)
  PROVE  LegalHistories'
<1>1. PICK port \in PortIds, chan \in OwnChannelIds :
        \/ \E order \in Orders, cpPort \in PortIds, hop \in ConnectionIds :
             ChainChanOpenInit(c, port, chan, order, cpPort, hop)
        \/ \E order \in Orders, cpPort \in PortIds, cpChan \in ChannelIds,
              hop \in ConnectionIds :
             ChainChanOpenTry(c, port, chan, order, cpPort, cpChan, hop)
        \/ \E cpChan \in ChannelIds : ChainChanOpen(c, port, chan, cpChan)
        \/ ChainChanClose(c, port, chan)
  BY DEF ChainChannelStep
<1> DEFINE p == ChannelPath(port, chan)
           old == Latest(c)[p]
<1>2. chan \in ChannelIds /\ p \in ChannelPaths
  BY InitLedgerAssumption DEF ChannelPaths
<1>3. p \in Path /\ ValueAt(p) = Channel \cup {Absent} BY <1>2, PathsTyped
<1>4. old \in Channel \cup {Absent} BY <1>3, LatestTyped, StoreRead
<1>5. ASSUME NEW v \in Channel, Write(c, p, v),
             \/ old = Absent
             \/ old.state \in {"INIT", "TRYOPEN"}
             \/ v.state = "CLOSED"
      PROVE  LegalHistories'
  <2>1. Settled(old, v) BY <1>5, AbsentAssumption DEF Settled
  <2> HIDE DEF p
  <2> QED BY <1>2, <1>3, <1>5, <2>1, EndLegal
<1>6. ASSUME NEW order \in Orders, NEW cpPort \in PortIds, NEW hop \in ConnectionIds,
             ChainChanOpenInit(c, port, chan, order, cpPort, hop)
      PROVE  LegalHistories'
  <2> DEFINE v == [state |-> "INIT", ordering |-> order, hop |-> hop,
                   counterparty |-> [portId |-> cpPort, channelId |-> ""]]
  <2>1. v \in Channel BY DEF Channel
  <2>2. Write(c, p, v) /\ old = Absent BY <1>6 DEF ChainChanOpenInit
  <2> HIDE DEF v, p
  <2> QED BY <1>5, <2>1, <2>2
<1>7. ASSUME NEW order \in Orders, NEW cpPort \in PortIds, NEW cpChan \in ChannelIds,
             NEW hop \in ConnectionIds,
             ChainChanOpenTry(c, port, chan, order, cpPort, cpChan, hop)
      PROVE  LegalHistories'
  <2> DEFINE v == [state |-> "TRYOPEN", ordering |-> order, hop |-> hop,
                   counterparty |-> [portId |-> cpPort, channelId |-> cpChan]]
  <2>1. v \in Channel BY DEF Channel
  <2>2. Write(c, p, v) BY <1>7 DEF ChainChanOpenTry
  <2> DEFINE prev == [state |-> "INIT", ordering |-> order, hop |-> hop,
                      counterparty |-> [portId |-> cpPort, channelId |-> ""]]
  <2>3. (old = Absent \/ old = prev) /\ prev.state = "INIT"
    BY <1>7, Zenon DEF ChainChanOpenTry
  <2> HIDE DEF v, p, old, prev
  <2>4. old = Absent \/ old.state = "INIT" BY <2>3
  <2> QED BY <1>5, <2>1, <2>2, <2>4
<1>8. ASSUME NEW cpChan \in ChannelIds, ChainChanOpen(c, port, chan, cpChan)
      PROVE  LegalHistories'
  <2> DEFINE v == [old EXCEPT !.state = "OPEN", !.counterparty.channelId = cpChan]
  <2>1. old # Absent /\ old.state \in {"INIT", "TRYOPEN"} /\ Write(c, p, v)
    BY <1>8 DEF ChainChanOpen
  <2>2. v \in Channel
    <3> HIDE DEF old
    <3> QED BY <1>4, <2>1, ChannelTyped
  <2> HIDE DEF v, old
  <2> QED BY <1>5, <2>1, <2>2
<1>9. ASSUME ChainChanClose(c, port, chan)
      PROVE  LegalHistories'
  <2> DEFINE v == [old EXCEPT !.state = "CLOSED"]
  <2>1. old # Absent /\ Write(c, p, v) BY <1>9 DEF ChainChanClose
  <2>2. v \in Channel /\ v.state = "CLOSED"
    <3> HIDE DEF old
    <3> QED BY <1>4, <2>1, ChannelTyped DEF Channel
  <2> HIDE DEF v, old
  <2> QED BY <1>5, <2>1, <2>2
<1> QED BY <1>1, <1>6, <1>7, <1>8, <1>9

\* A packet takes a sequence that was never used, and is acknowledged once.
LEMMA PacketStepLegal ==
  ASSUME TypeOK, LegalHistories, NEW c \in Counterparties, ChainPacketStep(c)
  PROVE  LegalHistories'
<1>1. PICK port \in PortIds, chan \in OwnChannelIds, seq \in Sequence :
        \/ \E payload \in Payloads : ChainSendPacket(c, port, chan, seq, payload)
        \/ ChainDeleteCommitment(c, port, chan, seq)
        \/ \E ack \in Acks : ChainWriteAck(c, port, chan, seq, ack)
  BY DEF ChainPacketStep
<1> DEFINE p == CommitmentPath(port, chan, seq)
           q == AckPath(port, chan, seq)
<1>2. p \in CommitmentPaths /\ q \in AckPaths
  BY InitLedgerAssumption DEF CommitmentPaths, AckPaths
<1>3. /\ p \in Path /\ ValueAt(p) = Payloads \cup {Absent}
      /\ q \in Path /\ ValueAt(q) = AckCommitments \cup {Absent}
  BY PathsTyped, InitLedgerAssumption
<1>4. ASSUME NEW payload \in Payloads, ChainSendPacket(c, port, chan, seq, payload)
      PROVE  LegalHistories'
  <2>1. Write(c, p, payload) BY <1>4 DEF ChainSendPacket
  <2>2. \A i \in 1..Len(ledger[c]) : ledger[c][i][p] = Absent
    BY <1>4 DEF ChainSendPacket, Used
  <2> HIDE DEF p
  <2> QED BY <1>2, <1>3, <2>1, <2>2, KindsDisjoint, WriteLegal
<1>5. ASSUME ChainDeleteCommitment(c, port, chan, seq)
      PROVE  LegalHistories'
  <2>1. Write(c, p, Absent) BY <1>5 DEF ChainDeleteCommitment
  <2> HIDE DEF p
  <2> QED BY <1>2, <1>3, <2>1, KindsDisjoint, WriteLegal
<1>6. ASSUME NEW ack \in Acks, ChainWriteAck(c, port, chan, seq, ack)
      PROVE  LegalHistories'
  <2> DEFINE v == CommitAcknowledgement(ack)
  <2>1. v \in AckCommitments BY DEF AckCommitments
  <2>2. Write(c, q, v) /\ Latest(c)[q] = Absent BY <1>6 DEF ChainWriteAck
  <2> HIDE DEF q, v
  <2> QED BY <1>2, <1>3, <2>1, <2>2, KindsDisjoint, WriteLegal
<1> QED BY <1>1, <1>4, <1>5, <1>6

\* A client that is created, updated, upgraded or substituted stays the same client, and
\* its consensus states are those of its chain.
LEMMA ClientStepLegal ==
  ASSUME TypeOK, LegalHistories, NEW c \in Counterparties, NEW id \in ClientIds,
         NEW h \in Height, SetsClient(c, id, h)
  PROVE  LegalHistories'
<1> DEFINE old == Latest(c)
           cs == old[ClientPath(id)]
<1>1. old \in Store /\ ClientPath(id) \in Path /\ ConsensusPath(id, h) \in Path
  BY LatestTyped, PathsTyped
<1>2. PICK new \in ClientState, cons \in ConsensusState :
        /\ SetClient(c, id, new, h, cons)
        /\ cs # Absent => SameClient(cs, new)
        /\ cons.kind \in {"tm", new.kind} /\ cons.chain = new.chain
  BY DEF SetsClient
<1>3. new # Absent BY AbsentAssumption
<1> DEFINE s == [[old EXCEPT ![ClientPath(id)] = new] EXCEPT ![ConsensusPath(id, h)] = cons]
<1>4. ledger' = [ledger EXCEPT ![c] = Append(@, s)] BY <1>2 DEF SetClient
<1>5. s \in Store
  <2> DEFINE s1 == [old EXCEPT ![ClientPath(id)] = new]
  <2>1. s1 \in Store BY <1>1, StoreWrite, PathsTyped
  <2> HIDE DEF s1
  <2>2. [s1 EXCEPT ![ConsensusPath(id, h)] = cons] \in Store
    BY <2>1, StoreWrite, PathsTyped
  <2> QED BY <2>2 DEF s1
<1>6. /\ \A x, y, z : ClientPath(x) # ConsensusPath(y, z)
      /\ \A x, y : ClientPath(x) = ClientPath(y) => x = y
      /\ \A x, y, z, w : ConsensusPath(x, y) = ConsensusPath(z, w) => x = z /\ y = w
  BY DEF ClientPath, ConsensusPath
<1>7. \A q \in Path : s[q] = IF q = ConsensusPath(id, h) THEN cons
                             ELSE IF q = ClientPath(id) THEN new ELSE old[q]
  BY <1>1, <1>6 DEF Store
<1> HIDE DEF s, old
<1>8. ClientPath(id) \in ClientPaths /\ ConsensusPath(id, h) \in ConsensusPaths
  BY DEF ClientPaths, ConsensusPaths
<1>9. /\ \A q \in ClientPaths \cup ConsensusPaths : q \in Path
      /\ \A q \in ConnectionPaths \cup ChannelPaths \cup CommitmentPaths \cup AckPaths :
           q \in Path /\ s[q] = old[q]
  BY <1>7, <1>8, KindsOfPaths, KindsDisjoint
<1>10. Successor(old, s)
  <2>1. \A q \in ConnectionPaths \cup ChannelPaths : Settled(old[q], s[q])
    BY <1>9 DEF Settled
  <2>2. \A q \in AckPaths : old[q] # Absent => s[q] = old[q] BY <1>9
  <2>3. \A q \in ClientPaths : old[q] # Absent => SameClient(old[q], s[q])
    <3> SUFFICES ASSUME NEW q \in ClientPaths, old[q] # Absent
                 PROVE  SameClient(old[q], s[q])
      OBVIOUS
    <3>1. q # ConsensusPath(id, h) BY <1>6 DEF ClientPaths
    <3>2. CASE q = ClientPath(id) BY <1>2, <1>7, <1>9, <3>1, <3>2
    <3>3. CASE q # ClientPath(id) BY <1>7, <1>9, <3>1, <3>3, SameClientEquivalence
    <3> QED BY <3>2, <3>3
  <2>4. ASSUME Coherent(old), NEW x \in ClientIds, NEW y \in Height,
               s[ConsensusPath(x, y)] # Absent
        PROVE  /\ s[ClientPath(x)] # Absent
               /\ s[ConsensusPath(x, y)].kind \in {"tm", s[ClientPath(x)].kind}
               /\ s[ConsensusPath(x, y)].chain = s[ClientPath(x)].chain
    <3>0. ClientPath(x) \in Path /\ ConsensusPath(x, y) \in Path BY PathsTyped
    <3>1. CASE x # id
      <4>1. s[ClientPath(x)] = old[ClientPath(x)]
            /\ s[ConsensusPath(x, y)] = old[ConsensusPath(x, y)]
        BY <1>6, <1>7, <3>0, <3>1
      <4> QED BY <2>4, <4>1 DEF Coherent
    <3>2. CASE x = id /\ y # h
      <4>1. s[ClientPath(x)] = new
            /\ s[ConsensusPath(x, y)] = old[ConsensusPath(x, y)]
        BY <1>6, <1>7, <3>0, <3>2
      <4>2. /\ cs # Absent
            /\ s[ConsensusPath(x, y)].kind \in {"tm", cs.kind}
            /\ s[ConsensusPath(x, y)].chain = cs.chain
        BY <2>4, <3>2, <4>1 DEF Coherent
      <4> QED BY <1>2, <1>3, <4>1, <4>2 DEF SameClient
    <3>3. CASE x = id /\ y = h
      <4>1. s[ClientPath(x)] = new /\ s[ConsensusPath(x, y)] = cons
        BY <1>6, <1>7, <3>0, <3>3
      <4> QED BY <1>2, <1>3, <4>1
    <3> QED BY <3>1, <3>2, <3>3
  <2>5. Coherent(old) => Coherent(s) BY <2>4 DEF Coherent
  <2> QED BY <2>1, <2>2, <2>3, <2>5 DEF Successor
<1>11. FreshSequences(ledger[c], s)
  BY <1>9 DEF FreshSequences, old, Latest
<1> QED BY <1>4, <1>5, <1>10, <1>11, LegalAppend DEF old

\* Every step of the system leaves every history legal.
LEMMA LegalHistoriesStep ==
  ASSUME TypeOK, LegalHistories, [Next]_vars
  PROVE  LegalHistories'
<1>1. ASSUME NEW c \in Counterparties, ChainStep(c) PROVE LegalHistories'
  BY <1>1, ClientStepSets, ClientStepLegal, ConnectionStepLegal, ChannelStepLegal,
     PacketStepLegal
     DEF ChainStep
<1>2. CASE UNCHANGED ledger BY <1>2 DEF LegalHistories
<1> QED BY <1>1, <1>2 DEF Next, UpdateClient, Msg, Commit, vars

\* The blocks before the proxy is used are legal by assumption.
LEMMA LegalHistoriesInit == Init => LegalHistories
BY InitHistoryAssumption DEF Init, LegalHistories

-----------------------------------------------------------------------------
(* Ends and packets.                                                       *)

\* What a light client attests, except of clients, its chain committed in some block.
LEMMA AttestedCommitted ==
  ASSUME TypeOK, NEW u \in UpstreamClients, NEW h \in consensus[u],
         NEW p \in ConnectionPaths \cup ChannelPaths \cup CommitmentPaths \cup AckPaths,
         NEW v \in Attested(u, h, p)
  PROVE  h \in 1..Len(ledger[Tracks[u]]) /\ v = ledger[Tracks[u]][h][p]
<1>1. Attested(u, h, p) = {Proven(u, h, p)}
  <2>1. CASE p \in ConnectionPaths BY <2>1, AttestedByKind DEF ConnectionPaths
  <2>2. CASE p \in ChannelPaths BY <2>2, AttestedByKind DEF ChannelPaths
  <2>3. CASE p \in CommitmentPaths BY <2>3, AttestedByKind DEF CommitmentPaths
  <2>4. CASE p \in AckPaths BY <2>4, AttestedByKind DEF AckPaths
  <2> QED BY <2>1, <2>2, <2>3, <2>4
<1> QED BY <1>1 DEF Proven, TypeOK

\* Two values at one path that two clients of one chain attest come from two blocks of
\* that chain, one of which is not after the other.
LEMMA AttestedTwice ==
  ASSUME TypeOK, LegalHistories, NEW t \in UpstreamClients, NEW u \in UpstreamClients,
         Tracks[t] = Tracks[u], NEW h \in consensus[t], NEW k \in consensus[u],
         NEW p \in ConnectionPaths \cup ChannelPaths \cup CommitmentPaths \cup AckPaths,
         NEW v \in Attested(t, h, p), NEW w \in Attested(u, k, p)
  PROVE  \E H \in Seq(Store) : \E i, j \in 1..Len(H) :
           Persistent(H) /\ i <= j /\ ((v = H[i][p] /\ w = H[j][p])
                                         \/ (w = H[i][p] /\ v = H[j][p]))
<1> DEFINE H == ledger[Tracks[u]]
<1>1. h \in 1..Len(H) /\ v = H[h][p] BY AttestedCommitted
<1>2. k \in 1..Len(H) /\ w = H[k][p] BY AttestedCommitted
<1>3. H \in Seq(Store) /\ Persistent(H)
  BY BoundsTyped DEF TypeOK, LegalHistories, LegalHistory
<1> HIDE DEF H
<1>4. h <= k \/ k <= h BY <1>1, <1>2, <1>3
<1> QED BY <1>1, <1>2, <1>3, <1>4

\* Open ends that two clients of one chain attest are the same: an upstream never
\* reopens or rewrites an end that it opened.
LEMMA OpenEndsAttestedOnce ==
  ASSUME TypeOK, LegalHistories, NEW t \in UpstreamClients, NEW u \in UpstreamClients,
         Tracks[t] = Tracks[u], NEW h \in consensus[t], NEW k \in consensus[u],
         NEW p \in ConnectionPaths \cup ChannelPaths,
         NEW v \in Attested(t, h, p), NEW w \in Attested(u, k, p),
         v # Absent, w # Absent, v.state = "OPEN", w.state = "OPEN"
  PROVE  v = w
<1>1. PICK H \in Seq(Store) : \E i, j \in 1..Len(H) :
        Persistent(H) /\ i <= j /\ ((v = H[i][p] /\ w = H[j][p])
                                      \/ (w = H[i][p] /\ v = H[j][p]))
  BY AttestedTwice
<1>2. PICK i \in 1..Len(H), j \in 1..Len(H) :
        Persistent(H) /\ i <= j /\ ((v = H[i][p] /\ w = H[j][p])
                                      \/ (w = H[i][p] /\ v = H[j][p]))
  BY <1>1
<1>3. Settled(H[i][p], H[j][p]) BY <1>2 DEF Persistent
<1> QED BY <1>2, <1>3 DEF Settled

\* Packet state that a client attests twice is the same both times: sequences are used
\* once, and acknowledgements are written once.
LEMMA PacketsAttestedOnce ==
  ASSUME TypeOK, LegalHistories, NEW u \in UpstreamClients,
         NEW h \in consensus[u], NEW k \in consensus[u],
         NEW p \in CommitmentPaths \cup AckPaths,
         NEW v \in Attested(u, h, p), NEW w \in Attested(u, k, p),
         v # Absent, w # Absent
  PROVE  v = w
<1>1. PICK H \in Seq(Store) : \E i, j \in 1..Len(H) :
        Persistent(H) /\ i <= j /\ ((v = H[i][p] /\ w = H[j][p])
                                      \/ (w = H[i][p] /\ v = H[j][p]))
  BY AttestedTwice
<1>2. PICK i \in 1..Len(H), j \in 1..Len(H) :
        Persistent(H) /\ i <= j /\ ((v = H[i][p] /\ w = H[j][p])
                                      \/ (w = H[i][p] /\ v = H[j][p]))
  BY <1>1
<1>3. H[i][p] # Absent /\ H[j][p] # Absent BY <1>2
<1>4. H[j][p] = H[i][p] BY <1>2, <1>3 DEF Persistent
<1> QED BY <1>2, <1>4

\* OpenEndsAgree follows from what every view holds being attested.
LEMMA OpenEndsAgreeHolds == TypeOK /\ LegalHistories /\ MirrorSound => OpenEndsAgree
<1> SUFFICES ASSUME TypeOK, LegalHistories, MirrorSound,
                    NEW v \in Views, NEW w \in Views,
                    NEW t \in UpstreamClients, NEW u \in UpstreamClients,
                    NEW p \in ConnectionPaths \cup ChannelPaths,
                    Tracks[t] = Tracks[u],
                    v[t][p] # Absent, w[u][p] # Absent,
                    v[t][p].state = "OPEN", w[u][p].state = "OPEN"
             PROVE  v[t][p] = w[u][p]
  BY DEF OpenEndsAgree
<1>1. p \in Path BY KindsOfPaths
<1>2. SoundStore(t, v[t]) /\ SoundStore(u, w[u]) BY DEF MirrorSound, Views
<1>3. PICK h \in consensus[t] : v[t][p] \in Attested(t, h, p)
  BY <1>1, <1>2 DEF SoundStore
<1>4. PICK k \in consensus[u] : w[u][p] \in Attested(u, k, p)
  BY <1>1, <1>2 DEF SoundStore
<1> QED BY <1>3, <1>4, OpenEndsAttestedOnce

\* A message writes packet state that its client attests; what was there before was
\* attested too, so it is the same.
LEMMA PacketsStay ==
  ASSUME TypeOK, LegalHistories, MirrorSound, [Next]_vars,
         NEW t \in UpstreamClients, NEW p \in CommitmentPaths \cup AckPaths,
         proxy[t][p] # Absent
  PROVE  proxy'[t][p] = proxy[t][p]
<1>1. CASE UNCHANGED proxy BY <1>1
<1>2. ASSUME NEW u \in UpstreamClients, NEW h \in Height, Msg(u, h)
      PROVE  proxy'[t][p] = proxy[t][p]
  <2>0. p \in Path BY KindsOfPaths
  <2>1. PICK s \in Store :
          /\ proxy' = [proxy EXCEPT ![u] = s]
          /\ \A q \in Path :
               s[q] # proxy[u][q] =>
                 s[q] # Absent /\ h \in consensus[u] /\ s[q] \in Attested(u, h, q)
    BY <1>2, MsgMirrors DEF Mirrors
  <2>2. proxy'[t] = IF t = u THEN s ELSE proxy[t] BY <2>1 DEF TypeOK
  <2>3. CASE t = u /\ s[p] # proxy[t][p]
    <3>1. s[p] # Absent /\ h \in consensus[t] /\ s[p] \in Attested(t, h, p)
      BY <2>0, <2>1, <2>3
    <3>2. PICK k \in consensus[t] : proxy[t][p] \in Attested(t, k, p)
      BY <2>0 DEF MirrorSound, SoundStore
    <3> QED BY <2>3, <3>1, <3>2, PacketsAttestedOnce
  <2> QED BY <2>2, <2>3
<1> QED BY <1>1, <1>2 DEF Next, UpdateClient, Commit, vars

\* The invariant below the theorems of this module: the other chains' histories are legal
\* and the proxy holds only what its clients attest.
HistoryInv == TypeOK /\ LegalHistories /\ MirrorSound

\* It holds initially and every step keeps it.
LEMMA HistoryInvariant ==
  /\ Init => HistoryInv
  /\ HistoryInv /\ [Next]_vars => HistoryInv'
<1>1. Init => HistoryInv
  BY InitTyped, LegalHistoriesInit, MirrorSoundInit DEF HistoryInv
<1>2. HistoryInv /\ [Next]_vars => HistoryInv'
  BY StepTyped, LegalHistoriesStep, MirrorSoundStep DEF HistoryInv
<1> QED BY <1>1, <1>2

\* No two readers of the proxy, in any two blocks and below any two clients of the same
\* upstream, see two different open ends of a connection or channel: the proxy verifies at
\* any height and in any order, and rests on the upstream never rewriting an open end.
THEOREM OpenEndsAlwaysAgree == Spec => []OpenEndsAgree
<1>1. HistoryInv => OpenEndsAgree BY OpenEndsAgreeHolds DEF HistoryInv
<1> QED BY <1>1, HistoryInvariant, PTL DEF Spec

\* A mirrored packet commitment or acknowledgement never changes and is never removed,
\* however messages are delayed, repeated and reordered, and although the upstream deletes
\* its own commitments.
THEOREM PacketMirrorIsStable == Spec => PacketMirrorStable
<1>1. HistoryInv /\ [Next]_vars =>
        [\A u \in UpstreamClients, p \in CommitmentPaths \cup AckPaths :
           proxy[u][p] # Absent => proxy'[u][p] = proxy[u][p]]_vars
  BY PacketsStay DEF HistoryInv
<1> QED BY <1>1, HistoryInvariant, PTL DEF Spec, PacketMirrorStable
=============================================================================
