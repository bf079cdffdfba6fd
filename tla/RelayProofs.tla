----------------------------- MODULE RelayProofs ----------------------------
(***************************************************************************)
(* Packets end to end implement PacketDelivery in both directions, for     *)
(* every value of the constants: any number of packets, blocks, headers    *)
(* and acknowledgements, and messages that are late, repeated or reordered.*)
(***************************************************************************)
EXTENDS Relay, ChainHistoryProofs

-----------------------------------------------------------------------------
(* The two chains and their paths.                                         *)

\* The two chains are each other's peers.
LEMMA PeersTyped ==
  /\ UpstreamChain \in Producers /\ DownstreamChain \in Producers
  /\ UpstreamChain # DownstreamChain
  /\ Producers \subseteq Counterparties
  /\ \A c \in Producers : Peer(c) \in Producers /\ Peer(c) # c /\ Peer(Peer(c)) = c
  /\ Peer(UpstreamChain) = DownstreamChain /\ Peer(DownstreamChain) = UpstreamChain
  /\ \A c \in Producers : SenderPayloads[c] \subseteq Payloads
<1>1. /\ Producers = {UpstreamChain, DownstreamChain}
      /\ SenderPayloads \in [Producers -> SUBSET Payloads]
  BY RelayAssumption
<1>2. UpstreamChain # DownstreamChain BY OpeningAssumption
<1>3. Producers \subseteq Counterparties BY InitLedgerAssumption
<1> QED BY <1>1, <1>2, <1>3 DEF Peer

\* The histories begin with a store.
LEMMA OpeningTyped ==
  ASSUME NEW c \in Counterparties
  PROVE  Opening(c) \in Store /\ Len(InitLedger[c]) = 1
<1>1. InitLedger[c] \in Seq(Store) BY InitLedgerAssumption
<1>2. Len(InitLedger[c]) = 1 BY OpeningAssumption
<1> QED BY <1>1, <1>2 DEF Opening

\* The channel end of a chain is open and names the peer's, and its connection's client
\* follows the peer.
LEMMA OpeningEnd ==
  ASSUME NEW c \in Producers, NEW port \in PortIds, NEW chan \in ChannelIds,
         IsEnd(c, port, chan), NEW end, end = Opening(c)[ChannelPath(port, chan)],
         NEW conn, conn = Opening(c)[ConnectionPath(end.hop)]
  PROVE  /\ end \in Channel
         /\ end.state = "OPEN"
         /\ end.counterparty.portId \in PortIds /\ end.counterparty.channelId \in ChannelIds
         /\ IsEnd(Peer(c), end.counterparty.portId, end.counterparty.channelId)
         /\ conn \in ConnectionEnd
         /\ FollowsPeer(c, Opening(c)[ClientPath(conn.clientId)])
<1>1. /\ end.state = "OPEN"
      /\ end.counterparty.channelId \in ChannelIds
      /\ IsEnd(Peer(c), end.counterparty.portId, end.counterparty.channelId)
      /\ conn # Absent
      /\ FollowsPeer(c, Opening(c)[ClientPath(conn.clientId)])
  BY OpeningAssumption
<1>2. Opening(c) \in Store BY PeersTyped, OpeningTyped
<1>3. end \in Channel
  <2>1. end # Absent BY DEF IsEnd
  <2> QED BY <1>2, <2>1, StoreRead, PathsTyped
<1>4. end.hop \in ConnectionIds /\ end.counterparty.portId \in PortIds BY <1>3 DEF Channel
<1>5. conn \in ConnectionEnd BY <1>1, <1>2, <1>4, StoreRead, PathsTyped
<1> QED BY <1>1, <1>3, <1>4, <1>5

\* The first component of a path is its kind.
LEMMA Tags ==
  /\ \A p \in ClientPaths : p[1] = "clientState"
  /\ \A p \in ConsensusPaths : p[1] = "consensusState"
  /\ \A p \in ConnectionPaths : p[1] = "connection"
  /\ \A p \in ChannelPaths : p[1] = "channel"
  /\ \A p \in CommitmentPaths : p[1] = "commitment"
  /\ \A p \in AckPaths : p[1] = "ack"
  /\ \A p \in ReceiptPaths : p[1] = "receipt"
BY DEF ClientPaths, ConsensusPaths, ConnectionPaths, ChannelPaths, CommitmentPaths,
       AckPaths, ReceiptPaths, ClientPath, ConsensusPath, ConnectionPath, ChannelPath,
       CommitmentPath, AckPath, ReceiptPath

\* The path of a channel is of its kind.
LEMMA ChannelPathTyped ==
  ASSUME NEW port \in PortIds, NEW chan \in ChannelIds
  PROVE  ChannelPath(port, chan) \in ChannelPaths /\ ChannelPath(port, chan) \in Path
BY DEF ChannelPaths, Path

\* The paths of a channel and of a sequence are of their kinds.
LEMMA PacketPaths ==
  ASSUME NEW port \in PortIds, NEW chan \in ChannelIds, NEW seq \in Sequence
  PROVE  /\ ChannelPath(port, chan) \in ChannelPaths
         /\ CommitmentPath(port, chan, seq) \in CommitmentPaths
         /\ AckPath(port, chan, seq) \in AckPaths
         /\ ReceiptPath(port, chan, seq) \in ReceiptPaths
         /\ ChannelPath(port, chan) \in Path /\ CommitmentPath(port, chan, seq) \in Path
         /\ AckPath(port, chan, seq) \in Path /\ ReceiptPath(port, chan, seq) \in Path
BY DEF ChannelPaths, CommitmentPaths, AckPaths, ReceiptPaths, Path

\* A path of a packet determines its channel and its sequence.
LEMMA SameKeys ==
  /\ \A a, b, x, y : ChannelPath(a, b) = ChannelPath(x, y) => a = x /\ b = y
  /\ \A a, b, c, x, y, z :
       CommitmentPath(a, b, c) = CommitmentPath(x, y, z) => a = x /\ b = y /\ c = z
  /\ \A a, b, c, x, y, z : AckPath(a, b, c) = AckPath(x, y, z) => a = x /\ b = y /\ c = z
  /\ \A a, b, c, x, y, z :
       ReceiptPath(a, b, c) = ReceiptPath(x, y, z) => a = x /\ b = y /\ c = z
BY DEF ChannelPath, CommitmentPath, AckPath, ReceiptPath

-----------------------------------------------------------------------------
(* The inductive invariant.                                                *)

\* The applications' view of their packets has its type.
AppTypeOK ==
  /\ sent \in [Producers -> [Sequence -> Payloads \cup {Absent}]]
  /\ delivered \in [Producers -> [Sequence -> Payloads \cup {Absent}]]
  /\ resolved \in [Producers -> [Sequence -> {"pending", "acknowledged", "timedOut"}]]

\* The new end is the old one, perhaps closed.
ClosedOrSame(old, new) == new = old \/ (old # Absent /\ new = [old EXCEPT !.state = "CLOSED"])

Closed(store, port, chan) == store[ChannelPath(port, chan)].state = "CLOSED"

\* Every block has the connections and, perhaps closed, the channel ends of the opening.
EndsKept(c) ==
  \A i \in 1..Len(ledger[c]) :
    /\ \A p \in ConnectionPaths : ledger[c][i][p] = Opening(c)[p]
    /\ \A p \in ChannelPaths : ClosedOrSame(Opening(c)[p], ledger[c][i][p])

\* A consensus state of height h that belongs to client state cs.
ConsensusOf(cs, cons, h) ==
  cs # Absent /\ cons = [kind |-> cs.kind, chain |-> cs.chain, height |-> h]

\* Clients are updated only, to headers of heights that their chain has reached.
ClientsKept(c) ==
  \A id \in ClientIds :
    /\ Opening(c)[ClientPath(id)] # Absent =>
         SameClient(Opening(c)[ClientPath(id)], Latest(c)[ClientPath(id)])
    /\ \A h \in Height :
         Latest(c)[ConsensusPath(id, h)] # Absent =>
           /\ ConsensusOf(Latest(c)[ClientPath(id)], Latest(c)[ConsensusPath(id, h)], h)
           /\ h <= HeightOf(Latest(c)[ClientPath(id)].chain)

\* A store of the proxy has the channel ends of the opening, and packet state of some
\* block of the histories.
CommittedIn(view, histories) ==
  \A u \in UpstreamClients :
    /\ \A p \in ChannelPaths : view[u][p] \in {Absent, Opening(Tracks[u])[p]}
    /\ \A p \in CommitmentPaths \cup AckPaths :
         view[u][p] # Absent =>
           \E k \in 1..Len(histories[Tracks[u]]) : view[u][p] = histories[Tracks[u]][k][p]

MirrorCommitted ==
  CommittedIn(proxy, ledger) /\ \A i \in 1..Len(blocks) : CommittedIn(blocks[i], ledger)

\* A commitment is of the packet that was sent, on the chain's one channel, and is there
\* only while the packet is pending.
CommittedAsSent(c, seq) ==
  /\ sent[c][seq] # Absent => sent[c][seq] \in SenderPayloads[c]
  /\ sent[c][seq] = Absent => resolved[c][seq] = "pending"
  /\ \A port \in PortIds, chan \in ChannelIds :
       LET p == CommitmentPath(port, chan, seq) IN
       /\ \A i \in 1..Len(ledger[c]) :
            ledger[c][i][p] # Absent => ledger[c][i][p] = sent[c][seq] /\ IsEnd(c, port, chan)
       /\ Latest(c)[p] # Absent => resolved[c][seq] = "pending"

Sender(c) == \A seq \in Sequence : CommittedAsSent(c, seq)

\* The packet was received in block i: the receipt is there from then on, the block was
\* in time, and the channel was not closed before.
ReceivedAt(c, port, chan, seq, i) ==
  /\ \A j \in 1..Len(ledger[c]) :
       i <= j => ledger[c][j][ReceiptPath(port, chan, seq)] # Absent
  /\ Timeout[delivered[c][seq]] = 0 \/ i < Timeout[delivered[c][seq]]
  /\ \A j \in 1..Len(ledger[c]) : j < i => ~ Closed(ledger[c][j], port, chan)

\* A packet is delivered with a receipt, and only a delivered one is acknowledged.
ReceivedWithReceipt(c, port, chan, seq) ==
  /\ delivered[c][seq] # Absent =>
       \E i \in 1..Len(ledger[c]) : ReceivedAt(c, port, chan, seq, i)
  /\ \A j \in 1..Len(ledger[c]) :
       ledger[c][j][AckPath(port, chan, seq)] # Absent => delivered[c][seq] # Absent

\* A channel end that was closed stays closed.
StaysClosed(c, port, chan) ==
  \A j \in 1..Len(ledger[c]) :
    Closed(ledger[c][j], port, chan) => Closed(Latest(c), port, chan)

Receiver(c) ==
  \A port \in PortIds, chan \in ChannelIds :
    IsEnd(c, port, chan) =>
      /\ StaysClosed(c, port, chan)
      /\ \A seq \in Sequence : ReceivedWithReceipt(c, port, chan, seq)

\* What is delivered was sent by the peer.
AsSent(c) ==
  \A seq \in Sequence :
    delivered[c][seq] # Absent => delivered[c][seq] = sent[Peer(c)][seq]

\* Chain c can no longer receive the packet: it passed the timeout, or closed its end.
Expired(c, payload) ==
  \/ Timeout[payload] # 0 /\ Timeout[payload] <= Len(ledger[c])
  \/ \A port \in PortIds, chan \in ChannelIds :
       IsEnd(c, port, chan) => Closed(Latest(c), port, chan)

\* A packet of the upstream that timed out was not delivered and never will be.
TimedOutExpired ==
  \A seq \in Sequence :
    resolved[UpstreamChain][seq] = "timedOut" =>
      /\ sent[UpstreamChain][seq] # Absent
      /\ delivered[DownstreamChain][seq] = Absent
      /\ Expired(DownstreamChain, sent[UpstreamChain][seq])

ChainsInv == \A c \in Producers : EndsKept(c) /\ ClientsKept(c)

PacketsInv == \A c \in Producers : Sender(c) /\ Receiver(c) /\ AsSent(c)

RelayInv ==
  TypeOK /\ AppTypeOK /\ ChainsInv /\ MirrorCommitted /\ PacketsInv /\ TimedOutExpired

-----------------------------------------------------------------------------
(* A block of one of the two chains.                                       *)

\* Chain c commits store s, which has the connections and, perhaps closed, the channel
\* ends of the latest block.
Block(c, s) ==
  /\ s \in Store
  /\ Len(ledger[c]) < MaxHeight
  /\ ledger' = [ledger EXCEPT ![c] = Append(@, s)]
  /\ UNCHANGED <<blocks, consensus, proxy, headers>>
  /\ \A q \in ConnectionPaths : s[q] = Latest(c)[q]
  /\ \A q \in ChannelPaths : ClosedOrSame(Latest(c)[q], s[q])

\* The paths of P hold the same in both stores.
Keeps(P, old, new) == \A q \in P : new[q] = old[q]

\* What a block does to the histories.
LEMMA BlockEffect ==
  ASSUME TypeOK, NEW c \in Producers, NEW s, Block(c, s)
  PROVE  /\ Len(ledger[c]) \in Nat /\ Len(ledger[c]) \in 1..Len(ledger[c])
         /\ Len(ledger'[c]) = Len(ledger[c]) + 1
         /\ \A i \in 1..Len(ledger[c]) : ledger'[c][i] = ledger[c][i]
         /\ ledger'[c][Len(ledger[c]) + 1] = s
         /\ \A d \in Counterparties \ {c} : ledger'[d] = ledger[d]
         /\ Latest(c)' = s
         /\ Latest(c) \in Store
<1>1. /\ c \in Counterparties /\ ledger \in [Counterparties -> Seq(Store)]
      /\ Len(ledger[c]) \in Height
  BY PeersTyped DEF TypeOK
<1>2. ledger'[c] = Append(ledger[c], s) BY <1>1 DEF Block
<1>3. Len(ledger[c]) \in Nat /\ Len(ledger[c]) \in 1..Len(ledger[c]) BY <1>1 DEF Height
<1>4. /\ Len(ledger'[c]) = Len(ledger[c]) + 1
      /\ \A i \in 1..Len(ledger[c]) : ledger'[c][i] = ledger[c][i]
      /\ ledger'[c][Len(ledger[c]) + 1] = s
  BY <1>1, <1>2
<1>5. \A d \in Counterparties \ {c} : ledger'[d] = ledger[d] BY <1>1 DEF Block
<1>6. Latest(c)' = s BY <1>4 DEF Latest
<1>7. Latest(c) \in Store BY <1>1, LatestTyped
<1> QED BY <1>3, <1>4, <1>5, <1>6, <1>7

\* A block makes the histories grow and keeps the types.
LEMMA BlockGrows ==
  ASSUME TypeOK, NEW c \in Producers, NEW s, Block(c, s)
  PROVE  TypeOK' /\ Grows
<1>0. c \in Counterparties BY PeersTyped
<1>1. Appends(c) /\ UNCHANGED consensus BY DEF Block, Appends
<1>2. Grows BY <1>0, <1>1, AppendsGrows
<1>3. ASSUME NEW u \in UpstreamClients
      PROVE  consensus'[u] \subseteq 1..Len(ledger'[Tracks[u]])
  <2>1. /\ Len(ledger[Tracks[u]]) \in Nat /\ Len(ledger'[Tracks[u]]) \in Nat
        /\ Len(ledger[Tracks[u]]) <= Len(ledger'[Tracks[u]])
    BY <1>2, BoundsTyped DEF Grows, TypeOK, Height
  <2>2. consensus[u] \subseteq 1..Len(ledger[Tracks[u]]) BY DEF TypeOK
  <2> QED BY <1>1, <2>1, <2>2
<1> QED BY <1>1, <1>2, <1>3 DEF TypeOK, Grows, Block

\* What is true of every block before, and of the new one, is true of every block after.
LEMMA EveryBlock ==
  ASSUME TypeOK, NEW c \in Producers, NEW s, Block(c, s), NEW j \in 1..Len(ledger'[c])
  PROVE  \/ j \in 1..Len(ledger[c]) /\ ledger'[c][j] = ledger[c][j]
         \/ j = Len(ledger[c]) + 1 /\ ledger'[c][j] = s
<1>1. /\ Len(ledger[c]) \in Nat /\ Len(ledger'[c]) = Len(ledger[c]) + 1
      /\ \A i \in 1..Len(ledger[c]) : ledger'[c][i] = ledger[c][i]
      /\ ledger'[c][Len(ledger[c]) + 1] = s
  BY BlockEffect
<1> QED BY <1>1

\* An end that is closed, or not, twice, is closed, or not.
LEMMA ClosedOrSameTwice ==
  ASSUME NEW a \in Channel \cup {Absent}, NEW b, NEW d, ClosedOrSame(a, b), ClosedOrSame(b, d)
  PROVE  ClosedOrSame(a, d)
<1>1. CASE b = a BY <1>1
<1>2. CASE a # Absent /\ b = [a EXCEPT !.state = "CLOSED"]
  <2>1. a \in Channel BY <1>2
  <2>2. [b EXCEPT !.state = "CLOSED"] = b BY <1>2, <2>1 DEF Channel
  <2>3. d = b BY <2>2 DEF ClosedOrSame
  <2> QED BY <1>2, <2>3 DEF ClosedOrSame
<1> QED BY <1>1, <1>2 DEF ClosedOrSame

\* Every block keeps the ends.
LEMMA EndsKeptStep ==
  ASSUME TypeOK, NEW c \in Producers, EndsKept(c), NEW s, Block(c, s)
  PROVE  EndsKept(c)'
<1>0. c \in Counterparties /\ Opening(c) \in Store BY PeersTyped, OpeningTyped
<1>1. /\ Len(ledger[c]) \in 1..Len(ledger[c])
      /\ Latest(c) = ledger[c][Len(ledger[c])]
  BY BlockEffect DEF Latest
<1>2. \A p \in ConnectionPaths : s[p] = Opening(c)[p] BY <1>1 DEF EndsKept, Block
<1>3. \A p \in ChannelPaths : ClosedOrSame(Opening(c)[p], s[p])
  <2> SUFFICES ASSUME NEW p \in ChannelPaths PROVE ClosedOrSame(Opening(c)[p], s[p])
    OBVIOUS
  <2>1. PICK port \in PortIds, chan \in ChannelIds : p = ChannelPath(port, chan)
    BY DEF ChannelPaths
  <2>2. Opening(c)[p] \in Channel \cup {Absent} BY <1>0, <2>1, StoreRead, PathsTyped
  <2>3. ClosedOrSame(Opening(c)[p], Latest(c)[p]) /\ ClosedOrSame(Latest(c)[p], s[p])
    BY <1>1 DEF EndsKept, Block
  <2> QED BY <2>2, <2>3, ClosedOrSameTwice
<1> SUFFICES ASSUME NEW i \in 1..Len(ledger'[c])
             PROVE  /\ \A p \in ConnectionPaths : ledger'[c][i][p] = Opening(c)[p]
                    /\ \A p \in ChannelPaths : ClosedOrSame(Opening(c)[p], ledger'[c][i][p])
  BY DEF EndsKept, ClosedOrSame
<1>4. \/ i \in 1..Len(ledger[c]) /\ ledger'[c][i] = ledger[c][i]
      \/ ledger'[c][i] = s
  BY EveryBlock
<1> QED BY <1>2, <1>3, <1>4 DEF EndsKept

-----------------------------------------------------------------------------
(* What any step keeps.                                                    *)

\* No chain and no history becomes shorter.
HeightsGrow ==
  /\ Len(blocks) \in Nat /\ Len(blocks') \in Nat /\ Len(blocks) <= Len(blocks')
  /\ \A c \in Counterparties :
       /\ Len(ledger[c]) \in Nat /\ Len(ledger'[c]) \in Nat
       /\ Len(ledger[c]) <= Len(ledger'[c])

\* Every step that keeps the blocks of the histories and of the proxy is such a step.
LEMMA HeightsGrowStep ==
  ASSUME TypeOK, TypeOK', Grows, Len(blocks) <= Len(blocks')
  PROVE  HeightsGrow
<1>1. Len(blocks) \in Nat /\ Len(blocks') \in Nat BY BoundsTyped DEF TypeOK
<1>2. \A c \in Counterparties : Len(ledger[c]) \in Nat /\ Len(ledger'[c]) \in Nat
  BY BoundsTyped DEF TypeOK, Height
<1> QED BY <1>1, <1>2 DEF HeightsGrow, Grows

\* No chain, the proxy included, becomes shorter.
LEMMA HeightOfGrows ==
  ASSUME HeightsGrow, NEW c \in Counterparties \cup {ProxyChain}
  PROVE  /\ HeightOf(c) \in Nat /\ HeightOf(c)' \in Nat
         /\ HeightOf(c) <= HeightOf(c)'
<1>1. CASE c = ProxyChain BY <1>1 DEF HeightOf, HeightsGrow
<1>2. CASE c # ProxyChain BY <1>2 DEF HeightOf, HeightsGrow
<1> QED BY <1>1, <1>2

\* A chain whose latest block has the clients and consensus states of the one before
\* keeps its clients.
LEMMA ClientsKeptStep ==
  ASSUME TypeOK, HeightsGrow, NEW c \in Producers, ClientsKept(c),
         Keeps(ClientPaths \cup ConsensusPaths, Latest(c), Latest(c)')
  PROVE  ClientsKept(c)'
<1>0. c \in Counterparties /\ Latest(c) \in Store BY PeersTyped, LatestTyped
<1> SUFFICES ASSUME NEW t \in Store, t = Latest(c), NEW n, n = Latest(c)',
                    NEW id \in ClientIds
             PROVE  /\ Opening(c)[ClientPath(id)] # Absent =>
                         SameClient(Opening(c)[ClientPath(id)], n[ClientPath(id)])
                    /\ \A h \in Height :
                         n[ConsensusPath(id, h)] # Absent =>
                           /\ ConsensusOf(n[ClientPath(id)], n[ConsensusPath(id, h)], h)
                           /\ h <= HeightOf(n[ClientPath(id)].chain)'
  BY <1>0 DEF ClientsKept, SameClient, ConsensusOf, Opening, HeightOf
<1>1. ClientPath(id) \in ClientPaths BY DEF ClientPaths
<1>2. n[ClientPath(id)] = t[ClientPath(id)] BY <1>1 DEF Keeps
<1>3. \A h \in Height : n[ConsensusPath(id, h)] = t[ConsensusPath(id, h)]
  BY DEF Keeps, ConsensusPaths
<1>4. Opening(c)[ClientPath(id)] # Absent =>
        SameClient(Opening(c)[ClientPath(id)], t[ClientPath(id)])
  BY DEF ClientsKept
<1>5. ASSUME NEW h \in Height, t[ConsensusPath(id, h)] # Absent
      PROVE  /\ ConsensusOf(t[ClientPath(id)], t[ConsensusPath(id, h)], h)
             /\ h <= HeightOf(t[ClientPath(id)].chain)'
  <2> DEFINE cs == t[ClientPath(id)]
  <2>1. ConsensusOf(cs, t[ConsensusPath(id, h)], h) /\ h <= HeightOf(cs.chain)
    BY <1>5 DEF ClientsKept
  <2>2. cs \in ClientState BY <2>1, StoreRead, PathsTyped DEF ConsensusOf
  <2>3. cs.chain \in Counterparties \cup {ProxyChain}
    BY <2>2 DEF ClientState, TMClient, ProxyClient
  <2>4. /\ HeightOf(cs.chain) \in Nat /\ HeightOf(cs.chain)' \in Nat
        /\ HeightOf(cs.chain) <= HeightOf(cs.chain)'
    BY <2>3, HeightOfGrows
  <2>5. h <= HeightOf(cs.chain)' BY <2>1, <2>4, BoundsTyped DEF Height
  <2> QED BY <2>1, <2>5
<1> QED BY <1>2, <1>3, <1>4, <1>5

\* What the proxy holds stays committed as the histories grow.
LEMMA ViewStaysCommitted ==
  ASSUME TypeOK, Grows, NEW view, CommittedIn(view, ledger)
  PROVE  CommittedIn(view, ledger')
<1> SUFFICES ASSUME NEW u \in UpstreamClients,
                    NEW p \in CommitmentPaths \cup AckPaths, view[u][p] # Absent
             PROVE  \E k \in 1..Len(ledger'[Tracks[u]]) :
                      view[u][p] = ledger'[Tracks[u]][k][p]
  BY DEF CommittedIn
<1>1. PICK k \in 1..Len(ledger[Tracks[u]]) : view[u][p] = ledger[Tracks[u]][k][p]
  BY DEF CommittedIn
<1>2. Tracks[u] \in Counterparties BY BoundsTyped
<1>3. /\ Len(ledger[Tracks[u]]) \in Nat /\ Len(ledger'[Tracks[u]]) \in Nat
      /\ Len(ledger[Tracks[u]]) <= Len(ledger'[Tracks[u]])
      /\ ledger'[Tracks[u]][k] = ledger[Tracks[u]][k]
  BY <1>2, BoundsTyped DEF Grows, TypeOK, Height
<1>4. k \in 1..Len(ledger'[Tracks[u]]) BY <1>3
<1> QED BY <1>1, <1>3, <1>4

-----------------------------------------------------------------------------
(* Headers.                                                                *)

\* Client id of chain c moves to state new and stores its consensus state of height h.
HeaderBlock(c, id, h, new, s) ==
  /\ Block(c, s)
  /\ h \in Height /\ h <= HeightOf(new.chain)
  /\ SameClient(Latest(c)[ClientPath(id)], new)
  /\ \A q \in Path :
       s[q] = IF q = ConsensusPath(id, h)
                THEN [kind |-> new.kind, chain |-> new.chain, height |-> h]
              ELSE IF q = ClientPath(id) THEN new ELSE Latest(c)[q]

\* What a header does.
LEMMA HeaderEffect ==
  ASSUME TypeOK, NEW c \in Producers, NEW id \in ClientIds, ChainHeader(c, id)
  PROVE  \E h, new, s : HeaderBlock(c, id, h, new, s)
<1> DEFINE old == Latest(c)
           cs == old[ClientPath(id)]
           h == HeightOf(cs.chain)
           new == [cs EXCEPT !.latest = IF h > @ THEN h ELSE @]
           cons == [kind |-> cs.kind, chain |-> cs.chain, height |-> h]
           s == [[old EXCEPT ![ClientPath(id)] = new] EXCEPT ![ConsensusPath(id, h)] = cons]
<1>0. c \in Counterparties BY PeersTyped
<1>1. old \in Store /\ ClientPath(id) \in Path BY <1>0, LatestTyped, PathsTyped
<1>2. cs # Absent /\ cs \in ClientState
  BY <1>0, LatestTyped, StoreRead, PathsTyped DEF ChainHeader
<1>3. h \in Height
  <2>1. cs.chain \in Counterparties \cup {ProxyChain}
    BY <1>2 DEF ClientState, TMClient, ProxyClient
  <2> HIDE DEF cs
  <2>2. CASE cs.chain = ProxyChain
    <3>1. h = Len(blocks) BY <2>2 DEF HeightOf
    <3>2. Len(blocks) \in 1..MaxBlocks /\ MaxBlocks \in 1..MaxHeight /\ MaxHeight \in Nat
      BY ConstantsAssumption DEF TypeOK
    <3> QED BY <3>1, <3>2 DEF Height
  <2>3. CASE cs.chain # ProxyChain BY <2>1, <2>3 DEF HeightOf, TypeOK
  <2> QED BY <2>2, <2>3
<1>4. ConsensusPath(id, h) \in Path BY <1>3, PathsTyped
<1>5. /\ ledger' = [ledger EXCEPT ![c] = Append(@, s)] /\ Len(ledger[c]) < MaxHeight
      /\ UNCHANGED <<blocks, consensus, proxy, headers>>
  BY DEF ChainHeader, ChainUpdateClient, SetClient
<1> HIDE DEF h
<1>6. /\ new \in ClientState /\ cons \in ConsensusState
      /\ new # Absent /\ SameClient(cs, new)
      /\ cons = [kind |-> new.kind, chain |-> new.chain, height |-> h]
      /\ new.chain = cs.chain
  <2> HIDE DEF cs
  <2>1. CASE cs \in TMClient
    <3>1. new \in TMClient /\ cons \in ConsensusState
      BY <1>3, <2>1 DEF TMClient, ConsensusState
    <3>2. /\ new.kind = cs.kind /\ new.multiv = cs.multiv /\ new.chain = cs.chain
          /\ cs.kind = "tm"
      BY <2>1 DEF TMClient
    <3> QED BY <1>2, <3>1, <3>2, AbsentAssumption DEF ClientState, SameClient
  <2>2. CASE cs \in ProxyClient
    <3>1. new \in ProxyClient /\ cons \in ConsensusState
      BY <1>3, <2>2 DEF ProxyClient, ConsensusState
    <3>2. /\ new.kind = cs.kind /\ new.multiv = cs.multiv /\ new.chain = cs.chain
          /\ new.upstreamClientId = cs.upstreamClientId
          /\ new.ibcPrefix = cs.ibcPrefix /\ new.proxyPrefix = cs.proxyPrefix
      BY <2>2 DEF ProxyClient
    <3> QED BY <1>2, <3>1, <3>2, AbsentAssumption DEF ClientState, SameClient
  <2> QED BY <1>2, <2>1, <2>2 DEF ClientState
<1>7. h <= HeightOf(new.chain) BY <1>3, <1>6, BoundsTyped DEF h, Height
<1> HIDE DEF new, cons
<1>8. s \in Store
  <2> DEFINE s1 == [old EXCEPT ![ClientPath(id)] = new]
  <2>1. s1 \in Store BY <1>1, <1>6, StoreWrite, PathsTyped
  <2> HIDE DEF s1
  <2>2. [s1 EXCEPT ![ConsensusPath(id, h)] = cons] \in Store
    BY <1>3, <1>6, <2>1, StoreWrite, PathsTyped
  <2> QED BY <2>2 DEF s1
<1>9. ClientPath(id) # ConsensusPath(id, h) BY DEF ClientPath, ConsensusPath
<1>10. \A q \in Path : s[q] = IF q = ConsensusPath(id, h) THEN cons
                               ELSE IF q = ClientPath(id) THEN new ELSE old[q]
  BY <1>1, <1>4, <1>9 DEF Store
<1> HIDE DEF s, old
<1>11. ClientPath(id) \in ClientPaths /\ ConsensusPath(id, h) \in ConsensusPaths
  BY <1>3 DEF ClientPaths, ConsensusPaths
<1>12. \A q \in ConnectionPaths \cup ChannelPaths : s[q] = old[q]
  BY <1>10, <1>11, KindsOfPaths, KindsDisjoint
<1>13. Block(c, s) BY <1>5, <1>8, <1>12 DEF Block, ClosedOrSame, old
<1>14. HeaderBlock(c, id, h, new, s)
  BY <1>3, <1>6, <1>7, <1>10, <1>13 DEF HeaderBlock, old, cs
<1> QED BY <1>14

\* A header keeps the clients of its chain.
LEMMA HeaderKeepsClients ==
  ASSUME TypeOK, HeightsGrow, NEW c \in Producers, ClientsKept(c), NEW x \in ClientIds,
         NEW g, NEW new, NEW s, HeaderBlock(c, x, g, new, s)
  PROVE  ClientsKept(c)'
<1>0. c \in Counterparties /\ Latest(c) \in Store BY PeersTyped, LatestTyped
<1>1. s = Latest(c)' /\ s \in Store BY BlockEffect DEF HeaderBlock, Block
<1> SUFFICES ASSUME NEW t \in Store, t = Latest(c), NEW id \in ClientIds
             PROVE  /\ Opening(c)[ClientPath(id)] # Absent =>
                         SameClient(Opening(c)[ClientPath(id)], s[ClientPath(id)])
                    /\ \A h \in Height :
                         s[ConsensusPath(id, h)] # Absent =>
                           /\ ConsensusOf(s[ClientPath(id)], s[ConsensusPath(id, h)], h)
                           /\ h <= HeightOf(s[ClientPath(id)].chain)'
  BY <1>0, <1>1 DEF ClientsKept, SameClient, ConsensusOf, Opening, HeightOf
<1>2. \A q \in Path :
        s[q] = IF q = ConsensusPath(x, g)
                 THEN [kind |-> new.kind, chain |-> new.chain, height |-> g]
               ELSE IF q = ClientPath(x) THEN new ELSE t[q]
  BY DEF HeaderBlock
<1>3. /\ \A a, b, d : ClientPath(a) # ConsensusPath(b, d)
      /\ \A a, b : ClientPath(a) = ClientPath(b) => a = b
      /\ \A a, b, d, e : ConsensusPath(a, b) = ConsensusPath(d, e) => a = d /\ b = e
  BY DEF ClientPath, ConsensusPath
<1>4. ClientPath(id) \in Path /\ \A h \in Height : ConsensusPath(id, h) \in Path
  BY PathsTyped
<1>5. s[ClientPath(id)] = IF id = x THEN new ELSE t[ClientPath(id)] BY <1>2, <1>3, <1>4
<1>6. \A h \in Height :
        s[ConsensusPath(id, h)] = IF id = x /\ h = g
                                    THEN [kind |-> new.kind, chain |-> new.chain, height |-> g]
                                    ELSE t[ConsensusPath(id, h)]
  BY <1>2, <1>3, <1>4
<1>7. /\ SameClient(t[ClientPath(x)], new) /\ g <= HeightOf(new.chain) /\ g \in Height
  BY DEF HeaderBlock
<1>8. t[ClientPath(id)] # Absent =>
        /\ SameClient(t[ClientPath(id)], s[ClientPath(id)])
        /\ s[ClientPath(id)].kind = t[ClientPath(id)].kind
        /\ s[ClientPath(id)].chain = t[ClientPath(id)].chain
        /\ s[ClientPath(id)] # Absent
        /\ s[ClientPath(id)].chain \in Counterparties \cup {ProxyChain}
  <2>1. t[ClientPath(id)] # Absent => SameClient(t[ClientPath(id)], s[ClientPath(id)])
    BY <1>5, <1>7, SameClientEquivalence
  <2>2. t[ClientPath(id)] \in ClientState \cup {Absent} BY <1>4, StoreRead, PathsTyped
  <2>3. t[ClientPath(id)] # Absent =>
          t[ClientPath(id)].chain \in Counterparties \cup {ProxyChain}
    BY <2>2 DEF ClientState, TMClient, ProxyClient
  <2> QED BY <2>1, <2>3 DEF SameClient
<1>9. Opening(c)[ClientPath(id)] # Absent =>
        SameClient(Opening(c)[ClientPath(id)], s[ClientPath(id)])
  <2>1. Opening(c)[ClientPath(id)] # Absent =>
          SameClient(Opening(c)[ClientPath(id)], t[ClientPath(id)])
    BY DEF ClientsKept
  <2>2. Opening(c)[ClientPath(id)] # Absent => t[ClientPath(id)] # Absent
    BY <2>1 DEF SameClient
  <2> QED BY <1>8, <2>1, <2>2, SameClientEquivalence
<1>10. ASSUME NEW h \in Height, s[ConsensusPath(id, h)] # Absent
       PROVE  /\ ConsensusOf(s[ClientPath(id)], s[ConsensusPath(id, h)], h)
              /\ h <= HeightOf(s[ClientPath(id)].chain)'
  <2>1. /\ t[ClientPath(id)] # Absent
        /\ ConsensusOf(s[ClientPath(id)], s[ConsensusPath(id, h)], h)
        /\ h <= HeightOf(s[ClientPath(id)].chain)
    <3>1. CASE id = x /\ h = g
      <4>1. s[ClientPath(id)] = new /\ new # Absent /\ t[ClientPath(id)] # Absent
        BY <1>5, <1>7, <3>1 DEF SameClient
      <4>2. s[ConsensusPath(id, h)] = [kind |-> new.kind, chain |-> new.chain, height |-> g]
        BY <1>6, <3>1
      <4> QED BY <1>7, <3>1, <4>1, <4>2 DEF ConsensusOf
    <3>2. CASE ~ (id = x /\ h = g)
      <4>1. s[ConsensusPath(id, h)] = t[ConsensusPath(id, h)] BY <1>6, <3>2
      <4>2. /\ ConsensusOf(t[ClientPath(id)], t[ConsensusPath(id, h)], h)
            /\ h <= HeightOf(t[ClientPath(id)].chain)
        BY <1>10, <4>1 DEF ClientsKept
      <4> QED BY <1>8, <4>1, <4>2 DEF ConsensusOf
    <3> QED BY <3>1, <3>2
  <2> DEFINE chain == s[ClientPath(id)].chain
  <2>2. chain \in Counterparties \cup {ProxyChain} BY <1>8, <2>1
  <2>3. /\ HeightOf(chain) \in Nat /\ HeightOf(chain)' \in Nat
        /\ HeightOf(chain) <= HeightOf(chain)'
    BY <2>2, HeightOfGrows
  <2> QED BY <2>1, <2>3, BoundsTyped DEF Height
<1> QED BY <1>9, <1>10

-----------------------------------------------------------------------------
(* Steps of the proxy.                                                     *)

\* A step of the proxy in this composition is a step of the proxy keeper.
LEMMA ProxyStepIsNext ==
  ASSUME TypeOK, (\E u \in UpstreamClients : ProxyStep(u)) \/ Commit
  PROVE  /\ Next
         /\ UNCHANGED ledger
         /\ Len(blocks) <= Len(blocks')
         /\ \A i \in 1..Len(blocks') :
              blocks'[i] = proxy \/ \E k \in 1..Len(blocks) : blocks'[i] = blocks[k]
<1>0. blocks \in Seq([UpstreamClients -> Store]) /\ proxy \in [UpstreamClients -> Store]
  BY DEF TypeOK
<1>1. CASE Commit
  <2>1. blocks' = Append(blocks, proxy) BY <1>1 DEF Commit
  <2>2. Len(blocks') = Len(blocks) + 1 /\ Len(blocks) \in Nat BY <1>0, <2>1
  <2>3. ASSUME NEW i \in 1..Len(blocks')
        PROVE  blocks'[i] = proxy \/ \E k \in 1..Len(blocks) : blocks'[i] = blocks[k]
    <3>1. CASE i = Len(blocks) + 1 BY <1>0, <2>1, <3>1
    <3>2. CASE i \in 1..Len(blocks)
      <4>1. blocks'[i] = blocks[i] BY <1>0, <2>1, <3>2
      <4> QED BY <3>2, <4>1
    <3> QED BY <2>2, <3>1, <3>2
  <2> QED BY <1>1, <2>2, <2>3 DEF Next, Commit
<1>2. CASE \E u \in UpstreamClients : ProxyStep(u)
  <2>1. PICK u \in UpstreamClients : ProxyStep(u) BY <1>2
  <2>2. Len(ledger[Tracks[u]]) \in Height BY BoundsTyped DEF TypeOK
  <2>3. CASE UpdateClient(u, Len(ledger[Tracks[u]]))
    <3>1. Next BY <2>2, <2>3 DEF Next
    <3>2. UNCHANGED <<ledger, blocks>> BY <2>3 DEF UpdateClient
    <3> QED BY <1>0, <3>1, <3>2
  <2>4. CASE \E h \in Height : PacketMsg(u, h) /\ UNCHANGED <<ledger, blocks, consensus, headers>>
    <3>1. Next BY <2>4 DEF Next, Msg
    <3> QED BY <1>0, <2>4, <3>1
  <2> QED BY <2>1, <2>3, <2>4 DEF ProxyStep
<1> QED BY <1>1, <1>2

\* What a packet message stores was committed by the upstream, and no message of this
\* composition stores a channel end: a close of the upstream's end is not mirrored.
LEMMA PacketMsgCommitted ==
  ASSUME TypeOK, MirrorCommitted, NEW u \in UpstreamClients, NEW h \in Height,
         PacketMsg(u, h), UNCHANGED <<ledger, blocks, consensus, headers>>
  PROVE  CommittedIn(proxy', ledger)
<1>1. Mirrors(u, h) BY MsgMirrors DEF Msg
<1>2. PICK s \in Store :
        /\ proxy' = [proxy EXCEPT ![u] = s]
        /\ \A p \in Path :
             s[p] # proxy[u][p] =>
               s[p] # Absent /\ h \in consensus[u] /\ s[p] \in Attested(u, h, p)
  BY <1>1 DEF Mirrors
<1>3. PICK port \in PortIds, chan \in ChannelIds, seq \in Sequence : \E v :
        \E p \in {CommitmentPath(port, chan, seq), AckPath(port, chan, seq)} :
          /\ GetProxyChannel(u, port, chan) # Absent
          /\ proxy' = [proxy EXCEPT ![u] = [@ EXCEPT ![p] = v]]
  BY PacketMsgWrites
<1>4. PICK v : \E p \in {CommitmentPath(port, chan, seq), AckPath(port, chan, seq)} :
        proxy' = [proxy EXCEPT ![u] = [@ EXCEPT ![p] = v]]
  BY <1>3
<1>p. PICK p \in {CommitmentPath(port, chan, seq), AckPath(port, chan, seq)} :
        proxy' = [proxy EXCEPT ![u] = [@ EXCEPT ![p] = v]]
  BY <1>4
<1>5. p \in Path /\ p \in CommitmentPaths \cup AckPaths BY <1>p, PacketPaths
<1>6. \A t \in UpstreamClients, q \in ChannelPaths : proxy'[t][q] = proxy[t][q]
  <2> SUFFICES ASSUME NEW t \in UpstreamClients, NEW q \in ChannelPaths
               PROVE  proxy'[t][q] = proxy[t][q]
    OBVIOUS
  <2>1. q \in Path /\ q # p BY <1>5, KindsOfPaths, KindsDisjoint
  <2> QED BY <1>p, <1>5, <2>1, WriteEffect
<1>7. ASSUME NEW t \in UpstreamClients, NEW q \in CommitmentPaths \cup AckPaths,
             proxy'[t][q] # Absent
      PROVE  \E k \in 1..Len(ledger[Tracks[t]]) : proxy'[t][q] = ledger[Tracks[t]][k][q]
  <2>1. q \in Path BY KindsOfPaths
  <2>2. CASE proxy'[t][q] = proxy[t][q]
    BY <1>7, <2>2 DEF MirrorCommitted, CommittedIn
  <2>3. CASE proxy'[t][q] # proxy[t][q]
    <3>1. t = u /\ proxy'[t][q] = s[q] BY <1>2, <2>3 DEF TypeOK
    <3>2. h \in consensus[u] /\ s[q] \in Attested(u, h, q) BY <1>2, <2>1, <2>3, <3>1
    <3>3. h \in 1..Len(ledger[Tracks[u]]) /\ s[q] = ledger[Tracks[u]][h][q]
      BY <3>2, AttestedCommitted
    <3> QED BY <3>1, <3>3
  <2> QED BY <2>2, <2>3
<1> QED BY <1>6, <1>7 DEF CommittedIn, MirrorCommitted

\* Steps of the proxy keep the mirror committed.
LEMMA ProxyStepKeepsMirror ==
  ASSUME TypeOK, MirrorCommitted, (\E u \in UpstreamClients : ProxyStep(u)) \/ Commit
  PROVE  MirrorCommitted'
<1>1. /\ UNCHANGED ledger
      /\ \A i \in 1..Len(blocks') :
           blocks'[i] = proxy \/ \E k \in 1..Len(blocks) : blocks'[i] = blocks[k]
  BY ProxyStepIsNext
<1>2. CommittedIn(proxy', ledger)
  <2>1. CASE proxy' = proxy BY <2>1 DEF MirrorCommitted
  <2>2. CASE proxy' # proxy
    <3>1. PICK u \in UpstreamClients, h \in Height :
            PacketMsg(u, h) /\ UNCHANGED <<ledger, blocks, consensus, headers>>
      BY <2>2 DEF ProxyStep, Commit, UpdateClient
    <3> QED BY <3>1, PacketMsgCommitted
  <2> QED BY <2>1, <2>2
<1>3. \A i \in 1..Len(blocks') : CommittedIn(blocks'[i], ledger)
  BY <1>1 DEF MirrorCommitted
<1> QED BY <1>1, <1>2, <1>3 DEF MirrorCommitted

-----------------------------------------------------------------------------
(* What the chains read of each other.                                     *)

\* A channel end, as long as it is there, is the chain's one end, names the peer's, and
\* its connection's client follows the peer.
LEMMA EndFollowsPeer ==
  ASSUME TypeOK, NEW c \in Producers, EndsKept(c), ClientsKept(c),
         NEW port \in PortIds, NEW chan \in ChannelIds, NEW end, end # Absent,
         end = EndOf(c, port, chan)
  PROVE  /\ IsEnd(c, port, chan)
         /\ end \in Channel
         /\ end.counterparty.portId \in PortIds /\ end.counterparty.channelId \in ChannelIds
         /\ IsEnd(Peer(c), end.counterparty.portId, end.counterparty.channelId)
         /\ ClientOf(c, end) \in ClientIds
         /\ FollowsPeer(c, Latest(c)[ClientPath(ClientOf(c, end))])
<1> DEFINE p == ChannelPath(port, chan)
           first == Opening(c)[p]
           conn == Opening(c)[ConnectionPath(first.hop)]
           cs == Opening(c)[ClientPath(conn.clientId)]
<1>0. c \in Counterparties /\ Opening(c) \in Store /\ Latest(c) \in Store
  BY PeersTyped, OpeningTyped, LatestTyped
<1>1. Len(ledger[c]) \in 1..Len(ledger[c]) BY <1>0, BoundsTyped DEF TypeOK, Height
<1>2. p \in ChannelPaths /\ p \in Path BY ChannelPathTyped
<1>3. end \in Channel BY <1>0, StoreRead, PathsTyped DEF EndOf
<1>4. ClosedOrSame(first, end) BY <1>1, <1>2 DEF EndsKept, EndOf, Latest
<1>5. first # Absent BY <1>4, Zenon DEF ClosedOrSame
<1>6. IsEnd(c, port, chan) BY <1>5 DEF IsEnd
<1>7. /\ first \in Channel
      /\ first.counterparty.portId \in PortIds /\ first.counterparty.channelId \in ChannelIds
      /\ IsEnd(Peer(c), first.counterparty.portId, first.counterparty.channelId)
      /\ conn \in ConnectionEnd
      /\ FollowsPeer(c, cs)
  BY <1>6, OpeningEnd
<1>8. end.hop = first.hop /\ end.counterparty = first.counterparty
  BY <1>4, <1>7 DEF ClosedOrSame, Channel
<1>10. first.hop \in ConnectionIds BY <1>7 DEF Channel
<1>12. Latest(c)[ConnectionPath(end.hop)] = conn
  BY <1>1, <1>8, <1>10 DEF EndsKept, ConnectionPaths, Latest
<1>13. ClientOf(c, end) = conn.clientId /\ conn.clientId \in ClientIds
  BY <1>7, <1>12 DEF ClientOf, ConnectionEnd
<1>14. SameClient(cs, Latest(c)[ClientPath(conn.clientId)])
  BY <1>7, <1>13 DEF ClientsKept, FollowsPeer
<1>15. FollowsPeer(c, Latest(c)[ClientPath(conn.clientId)])
  BY <1>7, <1>14 DEF FollowsPeer, SameClient
<1> QED BY <1>3, <1>6, <1>7, <1>8, <1>13, <1>15

\* The upstream reads the store of the downstream itself.
LEMMA UpstreamReads ==
  ASSUME TypeOK, ClientsKept(UpstreamChain), NEW id \in ClientIds, NEW h \in Height,
         FollowsPeer(UpstreamChain, Latest(UpstreamChain)[ClientPath(id)]),
         Knows(UpstreamChain, id, h)
  PROVE  /\ h \in 1..Len(ledger[DownstreamChain])
         /\ \A p : ClientReads(UpstreamChain, id, h, p) = ledger[DownstreamChain][h][p]
<1> DEFINE cs == Latest(UpstreamChain)[ClientPath(id)]
           cons == Latest(UpstreamChain)[ConsensusPath(id, h)]
<1>1. UpstreamChain \in Producers /\ DownstreamChain \in Counterparties BY PeersTyped
<1>2. cs.kind = "tm" /\ cs.chain = DownstreamChain BY DEF FollowsPeer
<1>3. cons # Absent BY DEF Knows
<1>4. ConsensusOf(cs, cons, h) /\ h <= HeightOf(cs.chain) BY <1>1, <1>3 DEF ClientsKept
<1>5. HeightOf(DownstreamChain) = Len(ledger[DownstreamChain])
  BY <1>1, ConstantsAssumption DEF HeightOf
<1>6. h \in 1..Len(ledger[DownstreamChain]) /\ h <= Len(ledger[DownstreamChain])
  BY <1>1, <1>2, <1>4, <1>5, BoundsTyped DEF Height, TypeOK
<1>7. cons.kind = "tm" /\ cons.chain = DownstreamChain /\ cons.height = h
  BY <1>2, <1>4 DEF ConsensusOf
<1>8. ASSUME NEW p
      PROVE  ClientReads(UpstreamChain, id, h, p) = ledger[DownstreamChain][h][p]
  <2>1. DownstreamValue(cs, cons, p) = ledger[DownstreamChain][h][p]
    <3> HIDE DEF cs, cons
    <3> QED BY <1>1, <1>2, <1>6, <1>7 DEF DownstreamValue
  <2> QED BY <2>1 DEF ClientReads
<1> QED BY <1>6, <1>8

\* The downstream reads blocks of the proxy, below a client of the upstream.
LEMMA DownstreamReads ==
  ASSUME TypeOK, ClientsKept(DownstreamChain), NEW id \in ClientIds, NEW h \in Height,
         FollowsPeer(DownstreamChain, Latest(DownstreamChain)[ClientPath(id)]),
         Knows(DownstreamChain, id, h), NEW p,
         ClientReads(DownstreamChain, id, h, p) # Absent
  PROVE  \E u \in UpstreamClients :
           /\ Tracks[u] = UpstreamChain
           /\ h \in 1..Len(blocks)
           /\ ClientReads(DownstreamChain, id, h, p) = blocks[h][u][p]
<1> DEFINE cs == Latest(DownstreamChain)[ClientPath(id)]
           cons == Latest(DownstreamChain)[ConsensusPath(id, h)]
<1>1. DownstreamChain \in Producers BY PeersTyped
<1>2. /\ cs.kind = "proxy" /\ cs.chain = ProxyChain
      /\ cs.upstreamClientId \in UpstreamClients
      /\ Tracks[cs.upstreamClientId] = UpstreamChain
  BY DEF FollowsPeer
<1>3. cons # Absent BY DEF Knows
<1>4. ConsensusOf(cs, cons, h) /\ h <= HeightOf(cs.chain) BY <1>1, <1>3 DEF ClientsKept
<1>5. HeightOf(ProxyChain) = Len(blocks) BY DEF HeightOf
<1>6. h \in 1..Len(blocks)
  BY <1>2, <1>4, <1>5, BoundsTyped DEF Height, TypeOK
<1>7. cons.height = h BY <1>4 DEF ConsensusOf
<1>8. DownstreamValue(cs, cons, p) # Absent BY DEF ClientReads
<1>9. DownstreamValue(cs, cons, p) = blocks[h][cs.upstreamClientId][p]
  <2> HIDE DEF cs, cons
  <2> QED BY <1>2, <1>7, <1>8 DEF DownstreamValue
<1> QED BY <1>2, <1>6, <1>9 DEF ClientReads

\* A commitment or acknowledgement that a chain reads was committed by its peer.
LEMMA PeerCommitted ==
  ASSUME TypeOK, MirrorCommitted, NEW c \in Producers, ClientsKept(c), NEW id \in ClientIds,
         NEW h \in Height, FollowsPeer(c, Latest(c)[ClientPath(id)]), Knows(c, id, h),
         NEW p \in CommitmentPaths \cup AckPaths, ClientReads(c, id, h, p) # Absent
  PROVE  \E k \in 1..Len(ledger[Peer(c)]) : ClientReads(c, id, h, p) = ledger[Peer(c)][k][p]
<1>1. CASE c = UpstreamChain BY <1>1, UpstreamReads, PeersTyped
<1>2. CASE c = DownstreamChain
  <2>1. PICK u \in UpstreamClients :
           /\ Tracks[u] = UpstreamChain
           /\ h \in 1..Len(blocks)
           /\ ClientReads(DownstreamChain, id, h, p) = blocks[h][u][p]
    BY <1>2, DownstreamReads
  <2>2. CommittedIn(blocks[h], ledger) BY <2>1 DEF MirrorCommitted
  <2>3. \E k \in 1..Len(ledger[Tracks[u]]) : blocks[h][u][p] = ledger[Tracks[u]][k][p]
    BY <1>2, <2>1, <2>2 DEF CommittedIn
  <2> QED BY <1>2, <2>1, <2>3, PeersTyped
<1> QED BY <1>1, <1>2, RelayAssumption

\* The downstream never reads that the upstream's end is closed.
LEMMA MirrorNeverClosed ==
  ASSUME TypeOK, MirrorCommitted, ClientsKept(DownstreamChain), NEW id \in ClientIds,
         NEW h \in Height,
         FollowsPeer(DownstreamChain, Latest(DownstreamChain)[ClientPath(id)]),
         Knows(DownstreamChain, id, h), NEW port \in PortIds, NEW chan \in ChannelIds,
         NEW v, v = ClientReads(DownstreamChain, id, h, ChannelPath(port, chan)), v # Absent
  PROVE  v.state # "CLOSED"
<1> DEFINE p == ChannelPath(port, chan)
<1>1. PICK u \in UpstreamClients :
         /\ Tracks[u] = UpstreamChain
         /\ h \in 1..Len(blocks)
         /\ v = blocks[h][u][p]
  BY DownstreamReads
<1>2. p \in ChannelPaths BY ChannelPathTyped
<1>3. v = Opening(UpstreamChain)[p] BY <1>1, <1>2 DEF MirrorCommitted, CommittedIn
<1>4. IsEnd(UpstreamChain, port, chan) BY <1>3 DEF IsEnd
<1>5. v.state = "OPEN" BY <1>3, <1>4, PeersTyped, OpeningEnd
<1> QED BY <1>5

-----------------------------------------------------------------------------
(* Packets in a block.                                                     *)

\* The commitments of a packet that a block keeps or deletes are as they were sent; when
\* the sender is told of the packet, they are deleted.
LEMMA CommitmentsKept ==
  ASSUME TypeOK, NEW c \in Producers, NEW s, Block(c, s), NEW seq \in Sequence,
         CommittedAsSent(c, seq), sent'[c][seq] = sent[c][seq],
         \A port \in PortIds, chan \in ChannelIds :
           s[CommitmentPath(port, chan, seq)]
             \in {Absent, Latest(c)[CommitmentPath(port, chan, seq)]},
         \/ resolved'[c][seq] = resolved[c][seq]
         \/ /\ sent[c][seq] # Absent
            /\ \A port \in PortIds, chan \in ChannelIds :
                 s[CommitmentPath(port, chan, seq)] = Absent
  PROVE  CommittedAsSent(c, seq)'
<1>1. /\ Latest(c)' = s /\ Latest(c) = ledger[c][Len(ledger[c])]
      /\ Len(ledger[c]) \in 1..Len(ledger[c])
  BY BlockEffect DEF Latest
<1>2. /\ sent'[c][seq] # Absent => sent'[c][seq] \in SenderPayloads[c]
      /\ sent'[c][seq] = Absent => resolved'[c][seq] = "pending"
  BY DEF CommittedAsSent
<1>3. ASSUME NEW port \in PortIds, NEW chan \in ChannelIds
      PROVE  LET p == CommitmentPath(port, chan, seq) IN
             /\ \A i \in 1..Len(ledger'[c]) :
                  ledger'[c][i][p] # Absent =>
                    ledger'[c][i][p] = sent'[c][seq] /\ IsEnd(c, port, chan)
             /\ s[p] # Absent => resolved'[c][seq] = "pending"
  <2> DEFINE p == CommitmentPath(port, chan, seq)
  <2>1. /\ \A i \in 1..Len(ledger[c]) :
             ledger[c][i][p] # Absent => ledger[c][i][p] = sent[c][seq] /\ IsEnd(c, port, chan)
        /\ Latest(c)[p] # Absent => resolved[c][seq] = "pending"
    BY DEF CommittedAsSent
  <2>2. s[p] # Absent => s[p] = Latest(c)[p] /\ resolved'[c][seq] = resolved[c][seq]
    OBVIOUS
  <2> HIDE DEF p
  <2>3. ASSUME NEW i \in 1..Len(ledger'[c]), ledger'[c][i][p] # Absent
        PROVE  ledger'[c][i][p] = sent'[c][seq] /\ IsEnd(c, port, chan)
    <3>1. CASE i \in 1..Len(ledger[c]) /\ ledger'[c][i] = ledger[c][i]
      BY <2>1, <2>3, <3>1
    <3>2. CASE ledger'[c][i] = s BY <1>1, <2>1, <2>2, <2>3, <3>2
    <3> QED BY <3>1, <3>2, EveryBlock
  <2> QED BY <2>1, <2>2, <2>3 DEF p
<1> QED BY <1>1, <1>2, <1>3 DEF CommittedAsSent, IsEnd, Opening

\* A channel end that was closed stays closed in the next block.
LEMMA StaysClosedStep ==
  ASSUME TypeOK, NEW c \in Producers, EndsKept(c), NEW s, Block(c, s),
         NEW port \in PortIds, NEW chan \in ChannelIds, StaysClosed(c, port, chan)
  PROVE  /\ Closed(Latest(c), port, chan) => Closed(s, port, chan)
         /\ StaysClosed(c, port, chan)'
<1> DEFINE q == ChannelPath(port, chan)
<1>1. Latest(c)' = s /\ Latest(c) \in Store BY BlockEffect
<1>2. q \in ChannelPaths BY ChannelPathTyped
<1>3. ClosedOrSame(Latest(c)[q], s[q]) BY <1>2 DEF Block
<1>4. Closed(Latest(c), port, chan) => Closed(s, port, chan)
  <2>1. CASE s[q] = Latest(c)[q] BY <2>1 DEF Closed
  <2>2. CASE Latest(c)[q] # Absent /\ s[q] = [Latest(c)[q] EXCEPT !.state = "CLOSED"]
    <3>1. Latest(c)[q] \in Channel BY <1>1, <2>2, StoreRead, PathsTyped
    <3> QED BY <2>2, <3>1 DEF Closed, Channel
  <2> QED BY <1>3, <2>1, <2>2 DEF ClosedOrSame
<1>5. ASSUME NEW j \in 1..Len(ledger'[c]), Closed(ledger'[c][j], port, chan)
      PROVE  Closed(s, port, chan)
  <2>1. CASE j \in 1..Len(ledger[c]) /\ ledger'[c][j] = ledger[c][j]
    BY <1>4, <1>5, <2>1 DEF StaysClosed
  <2>2. CASE ledger'[c][j] = s BY <1>5, <2>2
  <2> QED BY <2>1, <2>2, EveryBlock
<1> QED BY <1>1, <1>4, <1>5 DEF StaysClosed, Closed

\* A packet whose receipt and acknowledgement a block keeps is received as before.
LEMMA ReceivedKept ==
  ASSUME TypeOK, NEW c \in Producers, NEW s, Block(c, s),
         NEW port \in PortIds, NEW chan \in ChannelIds, NEW seq \in Sequence,
         ReceivedWithReceipt(c, port, chan, seq), delivered'[c][seq] = delivered[c][seq],
         s[AckPath(port, chan, seq)] = Latest(c)[AckPath(port, chan, seq)],
         s[ReceiptPath(port, chan, seq)] = Latest(c)[ReceiptPath(port, chan, seq)]
  PROVE  ReceivedWithReceipt(c, port, chan, seq)'
<1> DEFINE a == AckPath(port, chan, seq)
           r == ReceiptPath(port, chan, seq)
           last == Len(ledger[c])
<1>1. /\ Latest(c) = ledger[c][last]
      /\ last \in Nat /\ last \in 1..last /\ Len(ledger'[c]) = last + 1
  BY BlockEffect DEF Latest
<1>2. ASSUME delivered'[c][seq] # Absent
      PROVE  \E i \in 1..Len(ledger'[c]) : ReceivedAt(c, port, chan, seq, i)'
  <2>1. PICK i \in 1..last : ReceivedAt(c, port, chan, seq, i)
    BY <1>2 DEF ReceivedWithReceipt
  <2>2. i \in 1..Len(ledger'[c]) BY <1>1
  <2>3. ASSUME NEW j \in 1..Len(ledger'[c]), i <= j
        PROVE  ledger'[c][j][r] # Absent
    <3>1. \A k \in 1..last : i <= k => ledger[c][k][r] # Absent
      BY <2>1 DEF ReceivedAt
    <3>2. Latest(c)[r] # Absent BY <1>1, <3>1
    <3>3. CASE j \in 1..last /\ ledger'[c][j] = ledger[c][j] BY <2>3, <3>1, <3>3
    <3>4. CASE ledger'[c][j] = s BY <3>2, <3>4
    <3> QED BY <3>3, <3>4, EveryBlock
  <2>4. Timeout[delivered'[c][seq]] = 0 \/ i < Timeout[delivered'[c][seq]]
    BY <2>1 DEF ReceivedAt
  <2>5. ASSUME NEW j \in 1..Len(ledger'[c]), j < i
        PROVE  ~ Closed(ledger'[c][j], port, chan)
    <3>1. j \in 1..last BY <1>1, <2>5
    <3>2. ledger'[c][j] = ledger[c][j] BY <3>1, BlockEffect
    <3> QED BY <2>1, <2>5, <3>1, <3>2 DEF ReceivedAt
  <2>6. ReceivedAt(c, port, chan, seq, i)' BY <2>3, <2>4, <2>5 DEF ReceivedAt, Closed
  <2> QED BY <2>2, <2>6
<1>3. ASSUME NEW j \in 1..Len(ledger'[c]), ledger'[c][j][a] # Absent
      PROVE  delivered'[c][seq] # Absent
  <2>1. \A k \in 1..last : ledger[c][k][a] # Absent => delivered[c][seq] # Absent
    BY DEF ReceivedWithReceipt
  <2>2. CASE j \in 1..last /\ ledger'[c][j] = ledger[c][j] BY <1>3, <2>1, <2>2
  <2>3. CASE ledger'[c][j] = s BY <1>1, <1>3, <2>1, <2>3
  <2> QED BY <2>2, <2>3, EveryBlock
<1> QED BY <1>2, <1>3 DEF ReceivedWithReceipt

\* A block that keeps the commitments keeps the sender's side.
LEMMA SenderKept ==
  ASSUME TypeOK, NEW c \in Producers, NEW s, Block(c, s), Sender(c),
         Keeps(CommitmentPaths, Latest(c), s),
         sent'[c] = sent[c], resolved'[c] = resolved[c]
  PROVE  Sender(c)'
<1> SUFFICES ASSUME NEW seq \in Sequence PROVE CommittedAsSent(c, seq)'
  BY DEF Sender
<1>1. CommittedAsSent(c, seq) BY DEF Sender
<1>2. \A port \in PortIds, chan \in ChannelIds :
        s[CommitmentPath(port, chan, seq)] = Latest(c)[CommitmentPath(port, chan, seq)]
  BY PacketPaths DEF Keeps
<1> QED BY <1>1, <1>2, CommitmentsKept

\* A block that keeps receipts and acknowledgements keeps the receiver's side.
LEMMA ReceiverKept ==
  ASSUME TypeOK, NEW c \in Producers, EndsKept(c), NEW s, Block(c, s), Receiver(c),
         Keeps(AckPaths \cup ReceiptPaths, Latest(c), s), delivered'[c] = delivered[c]
  PROVE  Receiver(c)'
<1> SUFFICES ASSUME NEW port \in PortIds, NEW chan \in ChannelIds, IsEnd(c, port, chan)
             PROVE  /\ StaysClosed(c, port, chan)'
                    /\ \A seq \in Sequence : ReceivedWithReceipt(c, port, chan, seq)'
  BY DEF Receiver, IsEnd, Opening
<1>1. /\ StaysClosed(c, port, chan)
      /\ \A seq \in Sequence : ReceivedWithReceipt(c, port, chan, seq)
  BY DEF Receiver
<1>2. StaysClosed(c, port, chan)' BY <1>1, StaysClosedStep
<1>3. ASSUME NEW seq \in Sequence PROVE ReceivedWithReceipt(c, port, chan, seq)'
  <2>1. /\ s[AckPath(port, chan, seq)] = Latest(c)[AckPath(port, chan, seq)]
        /\ s[ReceiptPath(port, chan, seq)] = Latest(c)[ReceiptPath(port, chan, seq)]
    BY PacketPaths DEF Keeps
  <2> QED BY <1>1, <2>1, ReceivedKept
<1> QED BY <1>2, <1>3

\* A packet that can no longer be received never can.
LEMMA ExpiredStays ==
  ASSUME TypeOK, NEW c \in Producers, NEW s, Block(c, s), NEW d \in Producers,
         EndsKept(d), Receiver(d), NEW payload \in Payloads, Expired(d, payload)
  PROVE  Expired(d, payload)'
<1>0. d \in Counterparties /\ TypeOK' /\ Grows /\ Timeout[payload] \in Nat
  BY PeersTyped, BlockGrows, RelayAssumption
<1>1. /\ Len(ledger[d]) \in Nat /\ Len(ledger'[d]) \in Nat
      /\ Len(ledger[d]) <= Len(ledger'[d])
  BY <1>0, BoundsTyped DEF TypeOK, Grows, Height
<1>2. CASE Timeout[payload] # 0 /\ Timeout[payload] <= Len(ledger[d])
  BY <1>0, <1>1, <1>2 DEF Expired
<1>3. CASE \A port \in PortIds, chan \in ChannelIds :
             IsEnd(d, port, chan) => Closed(Latest(d), port, chan)
  <2>1. ASSUME NEW port \in PortIds, NEW chan \in ChannelIds, IsEnd(d, port, chan)
        PROVE  Closed(Latest(d), port, chan)'
    <3>1. CASE d = c
      <4>1. Closed(s, port, chan)
        BY <1>3, <2>1, <3>1, StaysClosedStep DEF Receiver
      <4>2. Latest(d)' = s BY <3>1, BlockEffect
      <4> QED BY <4>1, <4>2 DEF Closed
    <3>2. CASE d # c
      <4>1. ledger'[d] = ledger[d] BY <1>0, <3>2, BlockEffect
      <4> QED BY <1>3, <2>1, <4>1 DEF Closed, Latest
    <3> QED BY <3>1, <3>2
  <2> QED BY <2>1 DEF Expired, IsEnd, Opening
<1> QED BY <1>2, <1>3 DEF Expired

\* Packets that timed out stay so while their applications are told nothing.
LEMMA TimedOutKept ==
  ASSUME RelayInv, NEW c \in Producers, NEW s, Block(c, s), NEW seq \in Sequence,
         resolved[UpstreamChain][seq] = "timedOut",
         sent'[UpstreamChain][seq] = sent[UpstreamChain][seq],
         delivered'[DownstreamChain][seq] = delivered[DownstreamChain][seq]
  PROVE  /\ sent'[UpstreamChain][seq] # Absent
         /\ delivered'[DownstreamChain][seq] = Absent
         /\ Expired(DownstreamChain, sent[UpstreamChain][seq])'
<1>1. /\ sent[UpstreamChain][seq] # Absent
      /\ delivered[DownstreamChain][seq] = Absent
      /\ Expired(DownstreamChain, sent[UpstreamChain][seq])
  BY DEF RelayInv, TimedOutExpired
<1>2. sent[UpstreamChain][seq] \in Payloads
  BY <1>1, PeersTyped DEF RelayInv, AppTypeOK
<1>3. EndsKept(DownstreamChain) /\ Receiver(DownstreamChain) /\ DownstreamChain \in Producers
  BY PeersTyped DEF RelayInv, ChainsInv, PacketsInv
<1>4. ASSUME NEW payload \in Payloads, Expired(DownstreamChain, payload)
      PROVE  Expired(DownstreamChain, payload)'
  BY <1>3, <1>4, ExpiredStays DEF RelayInv
<1>5. Expired(DownstreamChain, sent[UpstreamChain][seq])'
  <2> SUFFICES ASSUME NEW payload \in Payloads, payload = sent'[UpstreamChain][seq]
               PROVE  Expired(DownstreamChain, payload)'
    BY <1>2 DEF Expired, Closed, Latest, IsEnd, Opening
  <2> QED BY <1>1, <1>2, <1>4
<1> QED BY <1>1, <1>5

-----------------------------------------------------------------------------
(* The invariant is kept.                                                  *)

\* What a block of chain c keeps, whatever it is.
LEMMA BlockKeeps ==
  ASSUME RelayInv, NEW c \in Producers, NEW s, Block(c, s)
  PROVE  /\ TypeOK' /\ HeightsGrow /\ MirrorCommitted'
         /\ \A d \in Producers : EndsKept(d)'
         /\ \A d \in Producers \ {c} : ClientsKept(d)'
         /\ Keeps(ClientPaths \cup ConsensusPaths, Latest(c), s) => ClientsKept(c)'
<1>0. TypeOK /\ Producers \subseteq Counterparties BY PeersTyped DEF RelayInv
<1>1. TypeOK' /\ Grows /\ UNCHANGED <<blocks, proxy>> BY <1>0, BlockGrows DEF Block
<1>2. HeightsGrow
  <2>1. Len(blocks) <= Len(blocks') BY <1>1, BoundsTyped DEF TypeOK
  <2> QED BY <1>0, <1>1, <2>1, HeightsGrowStep
<1>3. MirrorCommitted'
  <2>1. CommittedIn(proxy, ledger) /\ \A i \in 1..Len(blocks) : CommittedIn(blocks[i], ledger)
    BY DEF RelayInv, MirrorCommitted
  <2>2. CommittedIn(proxy, ledger') BY <1>0, <1>1, <2>1, ViewStaysCommitted
  <2>3. \A i \in 1..Len(blocks) : CommittedIn(blocks[i], ledger')
    BY <1>0, <1>1, <2>1, ViewStaysCommitted
  <2> QED BY <1>1, <2>2, <2>3 DEF MirrorCommitted
<1>4. ASSUME NEW d \in Producers PROVE EndsKept(d)'
  <2>1. EndsKept(d) BY DEF RelayInv, ChainsInv
  <2>2. CASE d = c BY <1>0, <2>1, <2>2, EndsKeptStep
  <2>3. CASE d # c
    <3>1. ledger'[d] = ledger[d] BY <1>0, <2>3, BlockEffect
    <3> QED BY <2>1, <3>1 DEF EndsKept, ClosedOrSame, Opening
  <2> QED BY <2>2, <2>3
<1>5. ASSUME NEW d \in Producers, Keeps(ClientPaths \cup ConsensusPaths, Latest(d), Latest(d)')
      PROVE  ClientsKept(d)'
  BY <1>0, <1>2, <1>5, ClientsKeptStep DEF RelayInv, ChainsInv
<1>6. ASSUME NEW d \in Producers \ {c} PROVE ClientsKept(d)'
  <2>1. ledger'[d] = ledger[d] BY <1>0, BlockEffect
  <2>2. Latest(d)' = Latest(d) BY <2>1 DEF Latest
  <2> QED BY <1>5, <2>2 DEF Keeps
<1>7. Latest(c)' = s BY <1>0, BlockEffect
<1> QED BY <1>1, <1>2, <1>3, <1>4, <1>5, <1>6, <1>7

\* A chain that commits no block and whose applications are told nothing keeps its side
\* of the packets.
LEMMA IdleChain ==
  ASSUME NEW d, ledger'[d] = ledger[d], sent'[d] = sent[d], delivered'[d] = delivered[d],
         resolved'[d] = resolved[d], Sender(d), Receiver(d)
  PROVE  Sender(d)' /\ Receiver(d)'
<1>1. Latest(d)' = Latest(d) BY DEF Latest
<1>2. Sender(d)'
  BY <1>1 DEF Sender, CommittedAsSent, IsEnd, Opening
<1>3. Receiver(d)'
  <2>1. \A port, chan : StaysClosed(d, port, chan)' <=> StaysClosed(d, port, chan)
    BY <1>1 DEF StaysClosed, Closed
  <2>2. \A port, chan, seq, i :
          ReceivedAt(d, port, chan, seq, i)' <=> ReceivedAt(d, port, chan, seq, i)
    BY DEF ReceivedAt, Closed
  <2>3. \A port, chan, seq :
          ReceivedWithReceipt(d, port, chan, seq)' <=> ReceivedWithReceipt(d, port, chan, seq)
    BY <2>2 DEF ReceivedWithReceipt
  <2> QED BY <2>1, <2>3 DEF Receiver, IsEnd, Opening
<1> QED BY <1>2, <1>3

\* A block that concerns no packet keeps the invariant.
LEMMA QuietBlock ==
  ASSUME RelayInv, NEW c \in Producers, NEW s, Block(c, s), ClientsKept(c)',
         Keeps(CommitmentPaths \cup AckPaths \cup ReceiptPaths, Latest(c), s),
         UNCHANGED appVars
  PROVE  RelayInv'
<1>0. TypeOK /\ Producers \subseteq Counterparties /\ UNCHANGED <<sent, delivered, resolved>>
  BY PeersTyped DEF RelayInv, appVars
<1>1. /\ TypeOK' /\ MirrorCommitted' /\ \A d \in Producers : EndsKept(d)'
      /\ \A d \in Producers : ClientsKept(d)'
  BY BlockKeeps
<1>2. AppTypeOK' BY <1>0 DEF RelayInv, AppTypeOK
<1>3. \A d \in Producers : EndsKept(d) /\ Sender(d) /\ Receiver(d) /\ AsSent(d)
  BY DEF RelayInv, ChainsInv, PacketsInv
<1>4. \A d \in Producers : Sender(d)' /\ Receiver(d)'
  <2>1. Sender(c)' BY <1>0, <1>3, SenderKept DEF Keeps
  <2>2. Receiver(c)' BY <1>0, <1>3, ReceiverKept DEF Keeps
  <2>3. ASSUME NEW d \in Producers, d # c PROVE Sender(d)' /\ Receiver(d)'
    <3>1. ledger'[d] = ledger[d] BY <1>0, <2>3, BlockEffect
    <3> QED BY <1>0, <1>3, <3>1, IdleChain
  <2> QED BY <2>1, <2>2, <2>3
<1>5. \A d \in Producers : AsSent(d)' BY <1>0, <1>3 DEF AsSent, Peer
<1>6. TimedOutExpired' BY <1>0, TimedOutKept DEF TimedOutExpired
<1> QED BY <1>1, <1>2, <1>4, <1>5, <1>6 DEF RelayInv, ChainsInv, PacketsInv

\* A header keeps the invariant.
LEMMA HeaderKeepsInv ==
  ASSUME RelayInv, NEW c \in Producers, NEW id \in ClientIds, ChainHeader(c, id),
         UNCHANGED appVars
  PROVE  RelayInv'
<1>0. TypeOK /\ ClientsKept(c) BY DEF RelayInv, ChainsInv
<1>1. PICK h, new, s : HeaderBlock(c, id, h, new, s) BY <1>0, HeaderEffect
<1>2. Block(c, s) BY <1>1 DEF HeaderBlock
<1>3. ClientsKept(c)' BY <1>0, <1>1, <1>2, BlockKeeps, HeaderKeepsClients
<1>4. Keeps(CommitmentPaths \cup AckPaths \cup ReceiptPaths, Latest(c), s)
  <2> SUFFICES ASSUME NEW q \in CommitmentPaths \cup AckPaths \cup ReceiptPaths
               PROVE  s[q] = Latest(c)[q]
    BY DEF Keeps
  <2>1. q \in Path BY DEF Path
  <2>2. q[1] \in {"commitment", "ack", "receipt"} BY Tags
  <2>3. q # ClientPath(id) /\ q # ConsensusPath(id, h)
    BY <2>2 DEF ClientPath, ConsensusPath
  <2> QED BY <1>1, <2>1, <2>3 DEF HeaderBlock
<1> QED BY <1>2, <1>3, <1>4, QuietBlock

\* A block that closes a channel end keeps the invariant.
LEMMA CloseKeepsInv ==
  ASSUME RelayInv, NEW c \in Producers, NEW port \in PortIds, NEW chan \in ChannelIds,
         ChainClose(c, port, chan)
  PROVE  RelayInv'
<1> DEFINE old == Latest(c)
           p == ChannelPath(port, chan)
           end == [old[p] EXCEPT !.state = "CLOSED"]
           s == [old EXCEPT ![p] = end]
<1>0. TypeOK /\ c \in Counterparties BY PeersTyped DEF RelayInv
<1>1. old \in Store /\ p \in Path /\ p \in ChannelPaths
  BY <1>0, LatestTyped, ChannelPathTyped
<1>2. old[p] # Absent BY DEF ChainClose, EndOf
<1>3. old[p] \in Channel BY <1>1, <1>2, StoreRead, PathsTyped
<1>4. end \in Channel BY <1>3, ChannelTyped
<1>5. s \in Store BY <1>1, <1>4, StoreWrite, PathsTyped
<1>6. \A q \in Path : s[q] = IF q = p THEN end ELSE old[q] BY <1>1 DEF Store
<1>7. ChainBlock(c, s) /\ UNCHANGED appVars BY DEF ChainClose
<1>8. Block(c, s)
  <2>1. \A q \in ConnectionPaths : s[q] = old[q]
    <3> SUFFICES ASSUME NEW q \in ConnectionPaths PROVE s[q] = old[q] OBVIOUS
    <3>1. q # p BY <1>1, Tags
    <3> QED BY <1>6, <3>1, KindsOfPaths
  <2>2. \A q \in ChannelPaths : ClosedOrSame(old[q], s[q])
    <3> SUFFICES ASSUME NEW q \in ChannelPaths PROVE ClosedOrSame(old[q], s[q]) OBVIOUS
    <3>1. q \in Path BY KindsOfPaths
    <3>2. CASE q = p
      <4>1. s[q] = [old[q] EXCEPT !.state = "CLOSED"] BY <1>6, <3>1, <3>2
      <4> QED BY <1>2, <3>2, <4>1 DEF ClosedOrSame
    <3>3. CASE q # p
      <4>1. s[q] = old[q] BY <1>6, <3>1, <3>3
      <4> QED BY <4>1 DEF ClosedOrSame
    <3> QED BY <3>2, <3>3
  <2> HIDE DEF s
  <2> QED BY <1>5, <1>7, <2>1, <2>2 DEF ChainBlock, Block, ClosedOrSame
<1>9. \A q \in Path : q \notin ChannelPaths => s[q] = old[q] BY <1>1, <1>6
<1> HIDE DEF s
<1>10. Keeps(ClientPaths \cup ConsensusPaths, old, s)
  <2> SUFFICES ASSUME NEW q \in ClientPaths \cup ConsensusPaths PROVE s[q] = old[q]
    BY DEF Keeps
  <2>1. q \in Path /\ q \notin ChannelPaths BY KindsOfPaths, KindsDisjoint
  <2> QED BY <1>9, <2>1
<1>11. Keeps(CommitmentPaths \cup AckPaths \cup ReceiptPaths, old, s)
  <2> SUFFICES ASSUME NEW q \in CommitmentPaths \cup AckPaths \cup ReceiptPaths
               PROVE  s[q] = old[q]
    BY DEF Keeps
  <2>1. q \in Path BY DEF Path
  <2>2. q \notin ChannelPaths BY Tags
  <2> QED BY <1>9, <2>1, <2>2
<1>12. ClientsKept(c)' BY <1>8, <1>10, BlockKeeps
<1> QED BY <1>7, <1>8, <1>11, <1>12, QuietBlock

\* Store s is store t with path p changed to v.
Updated(s, t, p, v) == \A q \in Path : s[q] = IF q = p THEN v ELSE t[q]

\* A store with one path changed.
LEMMA StoreUpdate ==
  ASSUME NEW t \in Store, NEW p \in Path, NEW v \in ValueAt(p)
  PROVE  \E s \in Store : s = [t EXCEPT ![p] = v] /\ Updated(s, t, p, v)
<1>1. [t EXCEPT ![p] = v] \in Store BY StoreWrite
<1>2. Updated([t EXCEPT ![p] = v], t, p, v) BY DEF Store, Updated
<1> QED BY <1>1, <1>2

\* What a block that writes packet state of one sequence does.
LEMMA PacketBlock ==
  ASSUME TypeOK, NEW c \in Producers, NEW s \in Store, ChainBlock(c, s),
         NEW W \in SUBSET (CommitmentPaths \cup AckPaths \cup ReceiptPaths),
         \A q \in Path \ W : s[q] = Latest(c)[q]
  PROVE  Block(c, s) /\ Keeps(ClientPaths \cup ConsensusPaths, Latest(c), s)
<1>1. \A q \in ConnectionPaths \cup ChannelPaths \cup ClientPaths \cup ConsensusPaths :
        s[q] = Latest(c)[q]
  <2> SUFFICES ASSUME NEW q \in ConnectionPaths \cup ChannelPaths \cup ClientPaths
                                  \cup ConsensusPaths
               PROVE  s[q] = Latest(c)[q]
    OBVIOUS
  <2>1. q \in Path BY KindsOfPaths
  <2>2. q[1] \in {"connection", "channel", "clientState", "consensusState"} BY Tags
  <2>3. q \notin W BY <2>2, Tags
  <2> QED BY <2>1, <2>3
<1> QED BY <1>1 DEF Block, Keeps, ChainBlock, ClosedOrSame

\* What a block that writes one commitment does.
LEMMA CommitmentBlock ==
  ASSUME TypeOK, NEW c \in Producers, NEW port \in PortIds, NEW chan \in ChannelIds,
         NEW seq \in Sequence, NEW v, NEW s \in Store, ChainBlock(c, s),
         Updated(s, Latest(c), CommitmentPath(port, chan, seq), v)
  PROVE  /\ Block(c, s)
         /\ Keeps(ClientPaths \cup ConsensusPaths, Latest(c), s)
         /\ Keeps(AckPaths \cup ReceiptPaths, Latest(c), s)
         /\ \A q \in CommitmentPaths :
              s[q] = IF q = CommitmentPath(port, chan, seq) THEN v ELSE Latest(c)[q]
<1> DEFINE p == CommitmentPath(port, chan, seq)
<1>0. Latest(c) \in Store /\ p \in Path /\ p \in CommitmentPaths
  BY PeersTyped, LatestTyped, PacketPaths
<1>2. \A q \in Path : s[q] = IF q = p THEN v ELSE Latest(c)[q] BY DEF Updated
<1>3. \A q \in Path \ {p} : s[q] = Latest(c)[q] BY <1>2
<1>4. {p} \in SUBSET (CommitmentPaths \cup AckPaths \cup ReceiptPaths) BY <1>0
<1>5. Block(c, s) /\ Keeps(ClientPaths \cup ConsensusPaths, Latest(c), s)
  BY <1>3, <1>4, PacketBlock
<1>6. Keeps(AckPaths \cup ReceiptPaths, Latest(c), s)
  <2> SUFFICES ASSUME NEW q \in AckPaths \cup ReceiptPaths PROVE s[q] = Latest(c)[q]
    BY DEF Keeps
  <2>1. q \in Path BY DEF Path
  <2>2. q # p BY <1>0, Tags
  <2> QED BY <1>2, <2>1, <2>2
<1>7. \A q \in CommitmentPaths : s[q] = IF q = p THEN v ELSE Latest(c)[q]
  BY <1>2, KindsOfPaths
<1> QED BY <1>5, <1>6, <1>7

\* What telling one application of one packet changes.
LEMMA AppUpdate ==
  ASSUME NEW S, NEW f \in [Producers -> [Sequence -> S]], NEW c \in Producers,
         NEW seq \in Sequence, NEW v \in S, NEW g, g = [f EXCEPT ![c][seq] = v]
  PROVE  /\ g \in [Producers -> [Sequence -> S]]
         /\ \A d \in Producers \ {c} : g[d] = f[d]
         /\ g[c] = [f[c] EXCEPT ![seq] = v]
         /\ g[c][seq] = v
         /\ \A x \in Sequence \ {seq} : g[c][x] = f[c][x]
OBVIOUS

\* A chain has one channel end.
LEMMA OneEnd ==
  ASSUME NEW c \in Producers, NEW port \in PortIds, NEW chan \in ChannelIds,
         NEW x \in PortIds, NEW y \in ChannelIds, IsEnd(c, port, chan), IsEnd(c, x, y)
  PROVE  port = x /\ chan = y
BY OpeningAssumption

\* A sequence is sent once, on the chain's channel.
LEMMA SendFacts ==
  ASSUME RelayInv, NEW c \in Producers, NEW port \in PortIds, NEW chan \in ChannelIds,
         NEW seq \in Sequence, NEW payload \in SenderPayloads[c],
         SendPacket(c, port, chan, seq, payload)
  PROVE  /\ payload \in Payloads /\ payload # Absent
         /\ sent[c][seq] = Absent
         /\ IsEnd(c, port, chan)
<1>1. payload \in Payloads /\ payload # Absent BY PeersTyped, AbsentAssumption
<1>2. sent[c][seq] = Absent
  <2>1. (seq < seq) <=> (sent[c][seq] # Absent) BY DEF SendPacket
  <2>2. seq \in Int BY DEF Sequence
  <2> QED BY <2>1, <2>2
<1>3. EndOf(c, port, chan) # Absent BY DEF SendPacket
<1>4. IsEnd(c, port, chan) BY <1>3, EndFollowsPeer DEF RelayInv, ChainsInv
<1> QED BY <1>1, <1>2, <1>4

\* Sending a packet keeps the invariant.
LEMMA SendKeepsInv ==
  ASSUME RelayInv, NEW c \in Producers, NEW port \in PortIds, NEW chan \in ChannelIds,
         NEW seq \in Sequence, NEW payload \in SenderPayloads[c],
         SendPacket(c, port, chan, seq, payload)
  PROVE  RelayInv'
<1> DEFINE p == CommitmentPath(port, chan, seq)
<1>0. TypeOK /\ AppTypeOK /\ Producers \subseteq Counterparties
  BY PeersTyped DEF RelayInv
<1>1. /\ payload \in Payloads /\ payload # Absent
      /\ sent[c][seq] = Absent
      /\ IsEnd(c, port, chan)
  BY SendFacts
<1>s. PICK s \in Store :
        s = [Latest(c) EXCEPT ![p] = payload] /\ Updated(s, Latest(c), p, payload)
  BY <1>0, <1>1, LatestTyped, PathsTyped, StoreUpdate
<1>2. ChainBlock(c, s) /\ sent' = [sent EXCEPT ![c][seq] = payload]
        /\ UNCHANGED <<delivered, resolved>>
  BY <1>s DEF SendPacket
<1>3. /\ Block(c, s)
      /\ Keeps(ClientPaths \cup ConsensusPaths, Latest(c), s)
      /\ Keeps(AckPaths \cup ReceiptPaths, Latest(c), s)
      /\ \A q \in CommitmentPaths : s[q] = IF q = p THEN payload ELSE Latest(c)[q]
  <2>1. TypeOK /\ Updated(s, Latest(c), p, payload) /\ ChainBlock(c, s) BY <1>0, <1>2, <1>s
  <2>2. Block(c, s) BY <2>1, CommitmentBlock
  <2>3. Keeps(ClientPaths \cup ConsensusPaths, Latest(c), s) BY <2>1, CommitmentBlock, Zenon
  <2>4. Keeps(AckPaths \cup ReceiptPaths, Latest(c), s) BY <2>1, CommitmentBlock, Zenon
  <2>5. \A q \in CommitmentPaths : s[q] = IF q = p THEN payload ELSE Latest(c)[q]
    BY <2>1, CommitmentBlock
  <2> QED BY <2>2, <2>3, <2>4, <2>5
<1>4. /\ sent' \in [Producers -> [Sequence -> Payloads \cup {Absent}]]
      /\ \A d \in Producers \ {c} : sent'[d] = sent[d]
      /\ sent'[c][seq] = payload
      /\ \A x \in Sequence \ {seq} : sent'[c][x] = sent[c][x]
  <2> DEFINE S == Payloads \cup {Absent}
  <2>1. sent \in [Producers -> [Sequence -> S]] /\ payload \in S
    BY <1>0, <1>1 DEF AppTypeOK
  <2> HIDE DEF S
  <2>2. /\ sent' \in [Producers -> [Sequence -> S]]
        /\ \A d \in Producers \ {c} : sent'[d] = sent[d]
        /\ sent'[c][seq] = payload
        /\ \A x \in Sequence \ {seq} : sent'[c][x] = sent[c][x]
    BY <1>2, <2>1, AppUpdate
  <2> QED BY <2>2 DEF S
<1>5. AppTypeOK' BY <1>0, <1>2, <1>4 DEF AppTypeOK
<1>6. /\ TypeOK' /\ MirrorCommitted' /\ \A d \in Producers : EndsKept(d)'
      /\ \A d \in Producers : ClientsKept(d)'
  BY <1>3, BlockKeeps
<1>7. \A d \in Producers : EndsKept(d) /\ Sender(d) /\ Receiver(d) /\ AsSent(d)
  BY DEF RelayInv, ChainsInv, PacketsInv
<1>8. \A x \in Sequence : CommittedAsSent(c, x) BY <1>7 DEF Sender
<1>9. CommittedAsSent(c, seq)'
  <2>1. Latest(c)' = s BY <1>0, <1>3, BlockEffect
  <2>2. resolved'[c][seq] = "pending" BY <1>1, <1>2, <1>8 DEF CommittedAsSent
  <2>3. ASSUME NEW x \in PortIds, NEW y \in ChannelIds, NEW i \in 1..Len(ledger'[c]),
               ledger'[c][i][CommitmentPath(x, y, seq)] # Absent
        PROVE  ledger'[c][i][CommitmentPath(x, y, seq)] = payload /\ IsEnd(c, x, y)
    <3> DEFINE q == CommitmentPath(x, y, seq)
    <3>1. \A k \in 1..Len(ledger[c]) : ledger[c][k][q] = Absent
      BY <1>1, <1>8 DEF CommittedAsSent
    <3>2. Latest(c)[q] = Absent BY <1>0, <1>3, <3>1, BlockEffect DEF Latest
    <3>3. q \in CommitmentPaths BY PacketPaths
    <3>4. ledger'[c][i] = s BY <1>0, <1>3, <2>3, <3>1, EveryBlock
    <3>5. q = p BY <1>3, <2>3, <3>2, <3>3, <3>4
    <3>6. x = port /\ y = chan BY <3>5, SameKeys
    <3> QED BY <1>1, <1>3, <3>3, <3>4, <3>5, <3>6
  <2> QED BY <1>4, <2>1, <2>2, <2>3 DEF CommittedAsSent, IsEnd, Opening
<1>10. Sender(c)'
  <2> SUFFICES ASSUME NEW x \in Sequence, x # seq PROVE CommittedAsSent(c, x)'
    BY <1>9 DEF Sender
  <2>1. \A a \in PortIds, b \in ChannelIds :
          s[CommitmentPath(a, b, x)] = Latest(c)[CommitmentPath(a, b, x)]
    BY <1>3, PacketPaths, SameKeys
  <2> QED BY <1>0, <1>2, <1>3, <1>4, <1>8, <2>1, CommitmentsKept
<1>11. Receiver(c)' BY <1>0, <1>2, <1>3, <1>7, ReceiverKept
<1>12. ASSUME NEW d \in Producers, d # c PROVE Sender(d)' /\ Receiver(d)'
  <2>1. ledger'[d] = ledger[d] BY <1>0, <1>3, <1>12, BlockEffect
  <2> QED BY <1>2, <1>4, <1>7, <1>12, <2>1, IdleChain
<1>13. ASSUME NEW d \in Producers PROVE AsSent(d)'
  <2> SUFFICES ASSUME NEW x \in Sequence, delivered[d][x] # Absent
               PROVE  delivered[d][x] = sent'[Peer(d)][x]
    BY <1>2 DEF AsSent, Peer
  <2>1. delivered[d][x] = sent[Peer(d)][x] BY <1>7 DEF AsSent
  <2>2. Peer(d) \in Producers BY PeersTyped
  <2>3. ~ (Peer(d) = c /\ x = seq) BY <1>1, <2>1
  <2> QED BY <1>4, <2>1, <2>2, <2>3
<1>14. TimedOutExpired'
  <2> SUFFICES ASSUME NEW x \in Sequence, resolved[UpstreamChain][x] = "timedOut"
               PROVE  /\ sent'[UpstreamChain][x] # Absent
                      /\ delivered'[DownstreamChain][x] = Absent
                      /\ Expired(DownstreamChain, sent[UpstreamChain][x])'
    BY <1>2 DEF TimedOutExpired
  <2>1. sent[UpstreamChain][x] # Absent BY DEF RelayInv, TimedOutExpired
  <2>2. sent'[UpstreamChain][x] = sent[UpstreamChain][x] BY <1>1, <1>4, <2>1, PeersTyped
  <2> QED BY <1>2, <1>3, <2>2, TimedOutKept
<1> QED BY <1>5, <1>6, <1>10, <1>11, <1>12, <1>13, <1>14 DEF RelayInv, ChainsInv, PacketsInv

\* Telling the sender of a packet that is committed keeps the invariant, provided that a
\* packet of the upstream times out only undelivered and expired.
LEMMA ResolveKeepsInv ==
  ASSUME RelayInv, NEW c \in Producers, NEW port \in PortIds, NEW chan \in ChannelIds,
         NEW seq \in Sequence, NEW result \in {"acknowledged", "timedOut"},
         Latest(c)[CommitmentPath(port, chan, seq)] # Absent,
         Resolve(c, port, chan, seq, result),
         c = UpstreamChain /\ result = "timedOut" =>
           /\ delivered[DownstreamChain][seq] = Absent
           /\ Expired(DownstreamChain, sent[UpstreamChain][seq])
  PROVE  RelayInv'
<1> DEFINE p == CommitmentPath(port, chan, seq)
<1>0. TypeOK /\ AppTypeOK /\ Producers \subseteq Counterparties
  BY PeersTyped DEF RelayInv
<1>s. PICK s \in Store :
        s = [Latest(c) EXCEPT ![p] = Absent] /\ Updated(s, Latest(c), p, Absent)
  BY <1>0, LatestTyped, PathsTyped, StoreUpdate
<1>2. ChainBlock(c, s) /\ resolved' = [resolved EXCEPT ![c][seq] = result]
        /\ UNCHANGED <<sent, delivered>>
  BY <1>s DEF Resolve
<1>3. /\ Block(c, s)
      /\ Keeps(ClientPaths \cup ConsensusPaths, Latest(c), s)
      /\ Keeps(AckPaths \cup ReceiptPaths, Latest(c), s)
      /\ \A q \in CommitmentPaths : s[q] = IF q = p THEN Absent ELSE Latest(c)[q]
  <2>1. TypeOK /\ Updated(s, Latest(c), p, Absent) /\ ChainBlock(c, s) BY <1>0, <1>2, <1>s
  <2>2. Block(c, s) BY <2>1, CommitmentBlock
  <2>3. Keeps(ClientPaths \cup ConsensusPaths, Latest(c), s) BY <2>1, CommitmentBlock, Zenon
  <2>4. Keeps(AckPaths \cup ReceiptPaths, Latest(c), s) BY <2>1, CommitmentBlock, Zenon
  <2>5. \A q \in CommitmentPaths : s[q] = IF q = p THEN Absent ELSE Latest(c)[q]
    BY <2>1, CommitmentBlock
  <2> QED BY <2>2, <2>3, <2>4, <2>5
<1>4. /\ resolved' \in [Producers -> [Sequence -> {"pending", "acknowledged", "timedOut"}]]
      /\ \A d \in Producers \ {c} : resolved'[d] = resolved[d]
      /\ resolved'[c][seq] = result
      /\ \A x \in Sequence \ {seq} : resolved'[c][x] = resolved[c][x]
  <2> DEFINE S == {"pending", "acknowledged", "timedOut"}
  <2>1. resolved \in [Producers -> [Sequence -> S]] /\ result \in S
    BY <1>0 DEF AppTypeOK
  <2> HIDE DEF S
  <2>2. /\ resolved' \in [Producers -> [Sequence -> S]]
        /\ \A d \in Producers \ {c} : resolved'[d] = resolved[d]
        /\ resolved'[c][seq] = result
        /\ \A x \in Sequence \ {seq} : resolved'[c][x] = resolved[c][x]
    BY <1>2, <2>1, AppUpdate
  <2> QED BY <2>2 DEF S
<1>5. AppTypeOK' BY <1>0, <1>2, <1>4 DEF AppTypeOK
<1>6. /\ TypeOK' /\ MirrorCommitted' /\ \A d \in Producers : EndsKept(d)'
      /\ \A d \in Producers : ClientsKept(d)'
  BY <1>3, BlockKeeps
<1>7. \A d \in Producers : EndsKept(d) /\ Sender(d) /\ Receiver(d) /\ AsSent(d)
  BY DEF RelayInv, ChainsInv, PacketsInv
<1>8. \A x \in Sequence : CommittedAsSent(c, x) BY <1>7 DEF Sender
<1>9. \A x \in PortIds, y \in ChannelIds :
        Latest(c)[CommitmentPath(x, y, seq)] # Absent =>
          /\ IsEnd(c, x, y)
          /\ Latest(c)[CommitmentPath(x, y, seq)] = sent[c][seq]
  BY <1>0, <1>3, <1>8, BlockEffect DEF CommittedAsSent, Latest
<1>10. ASSUME NEW x \in PortIds, NEW y \in ChannelIds
       PROVE  s[CommitmentPath(x, y, seq)] = Absent
  <2>1. CommitmentPath(x, y, seq) \in CommitmentPaths BY PacketPaths
  <2>2. CASE Latest(c)[CommitmentPath(x, y, seq)] # Absent
    <3>1. x = port /\ y = chan BY <1>9, <2>2, OneEnd
    <3> QED BY <1>3, <2>1, <3>1
  <2>3. CASE Latest(c)[CommitmentPath(x, y, seq)] = Absent BY <1>3, <2>1, <2>3
  <2> QED BY <2>2, <2>3
<1>11. Sender(c)'
  <2> SUFFICES ASSUME NEW x \in Sequence PROVE CommittedAsSent(c, x)'
    BY DEF Sender
  <2>1. CASE x = seq
    <3>1. sent[c][seq] # Absent BY <1>9
    <3> QED BY <1>0, <1>2, <1>3, <1>8, <1>10, <2>1, <3>1, CommitmentsKept
  <2>2. CASE x # seq
    <3>1. \A a \in PortIds, b \in ChannelIds :
            s[CommitmentPath(a, b, x)] = Latest(c)[CommitmentPath(a, b, x)]
      BY <1>3, <2>2, PacketPaths, SameKeys
    <3> QED BY <1>0, <1>2, <1>3, <1>4, <1>8, <2>2, <3>1, CommitmentsKept
  <2> QED BY <2>1, <2>2
<1>12. Receiver(c)' BY <1>0, <1>2, <1>3, <1>7, ReceiverKept
<1>13. ASSUME NEW d \in Producers, d # c PROVE Sender(d)' /\ Receiver(d)'
  <2>1. ledger'[d] = ledger[d] BY <1>0, <1>3, <1>13, BlockEffect
  <2> QED BY <1>2, <1>4, <1>7, <1>13, <2>1, IdleChain
<1>14. \A d \in Producers : AsSent(d)' BY <1>2, <1>7 DEF AsSent, Peer
<1>15. TimedOutExpired'
  <2> SUFFICES ASSUME NEW x \in Sequence, resolved'[UpstreamChain][x] = "timedOut"
               PROVE  /\ sent'[UpstreamChain][x] # Absent
                      /\ delivered'[DownstreamChain][x] = Absent
                      /\ Expired(DownstreamChain, sent[UpstreamChain][x])'
    BY DEF TimedOutExpired
  <2>1. CASE resolved[UpstreamChain][x] = "timedOut"
    BY <1>2, <1>3, <2>1, TimedOutKept
  <2>2. CASE resolved[UpstreamChain][x] # "timedOut"
    <3>1. c = UpstreamChain /\ x = seq /\ result = "timedOut"
      BY <1>4, <2>2, PeersTyped
    <3>2. /\ sent[UpstreamChain][x] # Absent
          /\ delivered[DownstreamChain][x] = Absent
          /\ Expired(DownstreamChain, sent[UpstreamChain][x])
      BY <1>9, <3>1
    <3>3. DownstreamChain \in Producers /\ UpstreamChain \in Producers BY PeersTyped
    <3>4. sent[UpstreamChain][x] \in Payloads BY <1>0, <3>2, <3>3 DEF AppTypeOK
    <3>5. ASSUME NEW payload \in Payloads, Expired(DownstreamChain, payload)
          PROVE  Expired(DownstreamChain, payload)'
      BY <1>0, <1>3, <1>7, <3>3, <3>5, ExpiredStays
    <3>6. Expired(DownstreamChain, sent[UpstreamChain][x])'
      <4> SUFFICES ASSUME NEW payload \in Payloads, payload = sent'[UpstreamChain][x]
                   PROVE  Expired(DownstreamChain, payload)'
        BY <1>2, <3>4 DEF Expired, Closed, Latest, IsEnd, Opening
      <4> QED BY <1>2, <3>2, <3>5
    <3> QED BY <1>2, <3>2, <3>6
  <2> QED BY <2>1, <2>2
<1> QED BY <1>5, <1>6, <1>11, <1>12, <1>13, <1>14, <1>15 DEF RelayInv, ChainsInv, PacketsInv

\* A packet is received as its sender sent it, once, and not after it timed out.
LEMMA ReceiveFacts ==
  ASSUME RelayInv, NEW c \in Producers, NEW port \in PortIds, NEW chan \in ChannelIds,
         NEW seq \in Sequence, NEW payload \in Payloads, NEW h \in Height,
         ChainRecvPacket(c, port, chan, seq, payload, h)
  PROVE  /\ IsEnd(c, port, chan)
         /\ ~ Closed(Latest(c), port, chan)
         /\ payload # Absent
         /\ payload = sent[Peer(c)][seq]
         /\ delivered[c][seq] = Absent
         /\ c = DownstreamChain => resolved[UpstreamChain][seq] # "timedOut"
<1> DEFINE end == EndOf(c, port, chan)
           id == ClientOf(c, end)
           p == CommitmentPath(end.counterparty.portId, end.counterparty.channelId, seq)
<1>0. /\ TypeOK /\ AppTypeOK /\ MirrorCommitted /\ c \in Counterparties
      /\ Peer(c) \in Producers /\ Peer(c) \in Counterparties
      /\ EndsKept(c) /\ ClientsKept(c) /\ Sender(Peer(c)) /\ Receiver(c)
  BY PeersTyped DEF RelayInv, ChainsInv, PacketsInv
<1>1. /\ end # Absent /\ end.state = "OPEN"
      /\ Timeout[payload] = 0 \/ Len(ledger[c]) + 1 < Timeout[payload]
      /\ VerifyPresence(c, id, h, p, payload)
      /\ Latest(c)[ReceiptPath(port, chan, seq)] = Absent
  BY DEF ChainRecvPacket
<1>2. /\ IsEnd(c, port, chan)
      /\ end.counterparty.portId \in PortIds /\ end.counterparty.channelId \in ChannelIds
      /\ id \in ClientIds
      /\ FollowsPeer(c, Latest(c)[ClientPath(id)])
  BY <1>0, <1>1, EndFollowsPeer
<1>3. ~ Closed(Latest(c), port, chan) BY <1>1 DEF Closed, EndOf
<1>4. Knows(c, id, h) /\ payload # Absent /\ ClientReads(c, id, h, p) = payload
  BY <1>1 DEF VerifyPresence
<1>5. payload = sent[Peer(c)][seq]
  <2> HIDE DEF id
  <2>1. p \in CommitmentPaths BY <1>2, PacketPaths
  <2>2. \E k \in 1..Len(ledger[Peer(c)]) : ClientReads(c, id, h, p) = ledger[Peer(c)][k][p]
    BY <1>0, <1>2, <1>4, <2>1, PeerCommitted
  <2>3. PICK k \in 1..Len(ledger[Peer(c)]) : payload = ledger[Peer(c)][k][p]
    BY <1>4, <2>2
  <2>4. CommittedAsSent(Peer(c), seq) BY <1>0 DEF Sender
  <2> QED BY <1>2, <1>4, <2>3, <2>4 DEF CommittedAsSent
<1>6. delivered[c][seq] = Absent
  <2> SUFFICES ASSUME delivered[c][seq] # Absent PROVE FALSE OBVIOUS
  <2>1. ReceivedWithReceipt(c, port, chan, seq) BY <1>0, <1>2 DEF Receiver
  <2>2. PICK i \in 1..Len(ledger[c]) : ReceivedAt(c, port, chan, seq, i)
    BY <2>1 DEF ReceivedWithReceipt
  <2>3. Len(ledger[c]) \in 1..Len(ledger[c]) /\ i <= Len(ledger[c])
    BY <1>0, BoundsTyped DEF TypeOK, Height
  <2>4. ledger[c][Len(ledger[c])][ReceiptPath(port, chan, seq)] # Absent
    BY <2>2, <2>3 DEF ReceivedAt
  <2> QED BY <1>1, <2>4 DEF Latest
<1>7. ASSUME c = DownstreamChain, resolved[UpstreamChain][seq] = "timedOut" PROVE FALSE
  <2>1. Expired(DownstreamChain, sent[UpstreamChain][seq])
    BY <1>7 DEF RelayInv, TimedOutExpired
  <2>2. Expired(c, payload) BY <1>5, <1>7, <2>1, PeersTyped
  <2>3. Timeout[payload] \in Nat /\ Len(ledger[c]) \in Nat
    BY <1>0, BoundsTyped, RelayAssumption DEF TypeOK, Height
  <2>4. ~ (Timeout[payload] # 0 /\ Timeout[payload] <= Len(ledger[c])) BY <1>1, <2>3
  <2> QED BY <1>2, <1>3, <2>2, <2>4 DEF Expired
<1> QED BY <1>2, <1>3, <1>4, <1>5, <1>6, <1>7

\* What the block that receives a packet does.
LEMMA ReceiveBlock ==
  ASSUME TypeOK, NEW c \in Producers, NEW port \in PortIds, NEW chan \in ChannelIds,
         NEW seq \in Sequence, NEW payload, NEW h,
         ChainRecvPacket(c, port, chan, seq, payload, h)
  PROVE  \E s \in Store :
           /\ Block(c, s)
           /\ Keeps(ClientPaths \cup ConsensusPaths, Latest(c), s)
           /\ Keeps(CommitmentPaths, Latest(c), s)
           /\ s[ReceiptPath(port, chan, seq)] # Absent
           /\ Keeps(ReceiptPaths \ {ReceiptPath(port, chan, seq)}, Latest(c), s)
           /\ Keeps(AckPaths \ {AckPath(port, chan, seq)}, Latest(c), s)
<1> DEFINE r == ReceiptPath(port, chan, seq)
           a == AckPath(port, chan, seq)
           old == Latest(c)
<1>0. old \in Store /\ r \in Path /\ a \in Path /\ r \in ReceiptPaths /\ a \in AckPaths
  BY PeersTyped, LatestTyped, PacketPaths
<1>1. PICK ack \in Acks :
        ChainBlock(c, [old EXCEPT ![r] = Receipt, ![a] = CommitAcknowledgement(ack)])
  BY DEF ChainRecvPacket
<1>2. Receipt \in ValueAt(r) /\ CommitAcknowledgement(ack) \in ValueAt(a)
  BY PathsTyped DEF AckCommitments
<1>3. PICK t \in Store : t = [old EXCEPT ![r] = Receipt] /\ Updated(t, old, r, Receipt)
  BY <1>0, <1>2, StoreUpdate
<1>4. PICK s \in Store :
        s = [t EXCEPT ![a] = CommitAcknowledgement(ack)]
          /\ Updated(s, t, a, CommitAcknowledgement(ack))
  BY <1>0, <1>2, StoreUpdate
<1>5. ChainBlock(c, s) BY <1>1, <1>3, <1>4
<1>6. \A q \in Path \ {r, a} : s[q] = old[q] BY <1>3, <1>4 DEF Updated
<1>7. s[r] # Absent
  <2>1. r # a BY <1>0, Tags
  <2>2. s[r] = Receipt BY <1>0, <1>3, <1>4, <2>1 DEF Updated
  <2> QED BY <2>2, AbsentAssumption
<1>8. {r, a} \in SUBSET (CommitmentPaths \cup AckPaths \cup ReceiptPaths) BY <1>0
<1>9. Block(c, s) /\ Keeps(ClientPaths \cup ConsensusPaths, old, s)
  BY <1>5, <1>6, <1>8, PacketBlock
<1>10. Keeps(CommitmentPaths, old, s)
  <2> SUFFICES ASSUME NEW q \in CommitmentPaths PROVE s[q] = old[q] BY DEF Keeps
  <2>1. q \in Path /\ q # r /\ q # a BY <1>0, Tags, KindsOfPaths
  <2> QED BY <1>6, <2>1
<1>11. Keeps(ReceiptPaths \ {r}, old, s)
  <2> SUFFICES ASSUME NEW q \in ReceiptPaths \ {r} PROVE s[q] = old[q] BY DEF Keeps
  <2>1. q \in Path /\ q # a BY <1>0, Tags DEF Path
  <2> QED BY <1>6, <2>1
<1>12. Keeps(AckPaths \ {a}, old, s)
  <2> SUFFICES ASSUME NEW q \in AckPaths \ {a} PROVE s[q] = old[q] BY DEF Keeps
  <2>1. q \in Path /\ q # r BY <1>0, Tags DEF Path
  <2> QED BY <1>6, <2>1
<1> QED BY <1>7, <1>9, <1>10, <1>11, <1>12

\* Receiving a packet keeps the invariant.
LEMMA ReceiveKeepsInv ==
  ASSUME RelayInv, NEW c \in Producers, NEW port \in PortIds, NEW chan \in ChannelIds,
         NEW seq \in Sequence, NEW payload \in Payloads, NEW h \in Height,
         ChainRecvPacket(c, port, chan, seq, payload, h)
  PROVE  RelayInv'
<1> DEFINE last == Len(ledger[c])
<1>0. TypeOK /\ AppTypeOK /\ Producers \subseteq Counterparties
  BY PeersTyped DEF RelayInv
<1>1. /\ IsEnd(c, port, chan)
      /\ ~ Closed(Latest(c), port, chan)
      /\ payload # Absent
      /\ payload = sent[Peer(c)][seq]
      /\ c = DownstreamChain => resolved[UpstreamChain][seq] # "timedOut"
  BY ReceiveFacts
<1>2. /\ Timeout[payload] = 0 \/ last + 1 < Timeout[payload]
      /\ delivered' = [delivered EXCEPT ![c][seq] = payload]
      /\ UNCHANGED <<sent, resolved>>
  BY DEF ChainRecvPacket
<1>3. PICK s \in Store :
        /\ Block(c, s)
        /\ Keeps(ClientPaths \cup ConsensusPaths, Latest(c), s)
        /\ Keeps(CommitmentPaths, Latest(c), s)
        /\ s[ReceiptPath(port, chan, seq)] # Absent
        /\ Keeps(ReceiptPaths \ {ReceiptPath(port, chan, seq)}, Latest(c), s)
        /\ Keeps(AckPaths \ {AckPath(port, chan, seq)}, Latest(c), s)
  BY <1>0, ReceiveBlock
<1>4. /\ delivered' \in [Producers -> [Sequence -> Payloads \cup {Absent}]]
      /\ \A d \in Producers \ {c} : delivered'[d] = delivered[d]
      /\ delivered'[c][seq] = payload
      /\ \A x \in Sequence \ {seq} : delivered'[c][x] = delivered[c][x]
  <2> DEFINE S == Payloads \cup {Absent}
  <2>1. delivered \in [Producers -> [Sequence -> S]] /\ payload \in S
    BY <1>0 DEF AppTypeOK
  <2> HIDE DEF S
  <2>2. /\ delivered' \in [Producers -> [Sequence -> S]]
        /\ \A d \in Producers \ {c} : delivered'[d] = delivered[d]
        /\ delivered'[c][seq] = payload
        /\ \A x \in Sequence \ {seq} : delivered'[c][x] = delivered[c][x]
    BY <1>2, <2>1, AppUpdate
  <2> QED BY <2>2 DEF S
<1>5. AppTypeOK' BY <1>0, <1>2, <1>4 DEF AppTypeOK
<1>6. /\ TypeOK' /\ MirrorCommitted' /\ \A d \in Producers : EndsKept(d)'
      /\ \A d \in Producers : ClientsKept(d)'
  BY <1>3, BlockKeeps
<1>7. \A d \in Producers : EndsKept(d) /\ Sender(d) /\ Receiver(d) /\ AsSent(d)
  BY DEF RelayInv, ChainsInv, PacketsInv
<1>8. Sender(c)' BY <1>0, <1>2, <1>3, <1>7, SenderKept
<1>9. /\ StaysClosed(c, port, chan)
      /\ \A x \in Sequence : ReceivedWithReceipt(c, port, chan, x)
  BY <1>1, <1>7 DEF Receiver
<1>10. /\ last \in Nat /\ Len(ledger'[c]) = last + 1
       /\ \A i \in 1..last : ledger'[c][i] = ledger[c][i]
       /\ ledger'[c][last + 1] = s
  BY <1>0, <1>3, BlockEffect
<1>11. ReceivedWithReceipt(c, port, chan, seq)'
  <2>1. last + 1 \in 1..Len(ledger'[c]) BY <1>10
  <2>2. \A j \in 1..Len(ledger'[c]) :
          last + 1 <= j => ledger'[c][j][ReceiptPath(port, chan, seq)] # Absent
    BY <1>3, <1>10
  <2>3. Timeout[delivered'[c][seq]] = 0 \/ last + 1 < Timeout[delivered'[c][seq]]
    BY <1>2, <1>4
  <2>4. ASSUME NEW j \in 1..Len(ledger'[c]), j < last + 1
        PROVE  ~ Closed(ledger'[c][j], port, chan)
    <3>1. j \in 1..last BY <1>10, <2>4
    <3>2. ~ Closed(ledger[c][j], port, chan) BY <1>1, <1>9, <3>1 DEF StaysClosed
    <3> QED BY <1>10, <3>1, <3>2
  <2>5. \E i \in 1..Len(ledger'[c]) : ReceivedAt(c, port, chan, seq, i)'
    <3> DEFINE i == last + 1
    <3>1. i \in 1..Len(ledger'[c]) BY <2>1
    <3>2. /\ \A j \in 1..Len(ledger'[c]) :
               i <= j => ledger'[c][j][ReceiptPath(port, chan, seq)] # Absent
          /\ Timeout[delivered'[c][seq]] = 0 \/ i < Timeout[delivered'[c][seq]]
          /\ \A j \in 1..Len(ledger'[c]) : j < i => ~ Closed(ledger'[c][j], port, chan)
      BY <2>2, <2>3, <2>4
    <3> HIDE DEF i
    <3>3. PICK k \in 1..Len(ledger'[c]) : k = i BY <3>1
    <3>4. ReceivedAt(c, port, chan, seq, k)' BY <3>2, <3>3 DEF ReceivedAt, Closed
    <3> QED BY <3>4
  <2>6. delivered'[c][seq] # Absent BY <1>1, <1>4
  <2> QED BY <2>5, <2>6 DEF ReceivedWithReceipt
<1>12. Receiver(c)'
  <2> SUFFICES ASSUME NEW x \in PortIds, NEW y \in ChannelIds, IsEnd(c, x, y)
               PROVE  /\ StaysClosed(c, x, y)'
                      /\ \A z \in Sequence : ReceivedWithReceipt(c, x, y, z)'
    BY DEF Receiver, IsEnd, Opening
  <2>1. x = port /\ y = chan BY <1>1, OneEnd
  <2>2. StaysClosed(c, port, chan)' BY <1>0, <1>3, <1>7, <1>9, StaysClosedStep
  <2>3. ASSUME NEW z \in Sequence, z # seq PROVE ReceivedWithReceipt(c, port, chan, z)'
    <3>1. /\ ReceiptPath(port, chan, z) \in ReceiptPaths \ {ReceiptPath(port, chan, seq)}
          /\ AckPath(port, chan, z) \in AckPaths \ {AckPath(port, chan, seq)}
      BY <2>3, PacketPaths, SameKeys
    <3>2. /\ s[AckPath(port, chan, z)] = Latest(c)[AckPath(port, chan, z)]
          /\ s[ReceiptPath(port, chan, z)] = Latest(c)[ReceiptPath(port, chan, z)]
      BY <1>3, <3>1 DEF Keeps
    <3> QED BY <1>0, <1>3, <1>4, <1>9, <2>3, <3>2, ReceivedKept
  <2> QED BY <1>11, <2>1, <2>2, <2>3
<1>13. ASSUME NEW d \in Producers, d # c PROVE Sender(d)' /\ Receiver(d)'
  <2>1. ledger'[d] = ledger[d] BY <1>0, <1>3, <1>13, BlockEffect
  <2> QED BY <1>2, <1>4, <1>7, <1>13, <2>1, IdleChain
<1>14. ASSUME NEW d \in Producers PROVE AsSent(d)'
  <2> SUFFICES ASSUME NEW x \in Sequence, delivered'[d][x] # Absent
               PROVE  delivered'[d][x] = sent[Peer(d)][x]
    BY <1>2 DEF AsSent, Peer
  <2>1. CASE d = c /\ x = seq BY <1>1, <1>4, <2>1
  <2>2. CASE ~ (d = c /\ x = seq)
    <3>1. delivered'[d][x] = delivered[d][x] BY <1>4, <2>2
    <3> QED BY <1>7, <3>1 DEF AsSent
  <2> QED BY <2>1, <2>2
<1>15. TimedOutExpired'
  <2> SUFFICES ASSUME NEW x \in Sequence, resolved[UpstreamChain][x] = "timedOut"
               PROVE  /\ sent'[UpstreamChain][x] # Absent
                      /\ delivered'[DownstreamChain][x] = Absent
                      /\ Expired(DownstreamChain, sent[UpstreamChain][x])'
    BY <1>2 DEF TimedOutExpired
  <2>1. ~ (c = DownstreamChain /\ x = seq) BY <1>1
  <2>2. delivered'[DownstreamChain][x] = delivered[DownstreamChain][x]
    BY <1>4, <2>1, PeersTyped
  <2> QED BY <1>2, <1>3, <2>2, TimedOutKept
<1> QED BY <1>5, <1>6, <1>8, <1>12, <1>13, <1>14, <1>15 DEF RelayInv, ChainsInv, PacketsInv

-----------------------------------------------------------------------------
(* What the senders are told.                                              *)

\* A committed packet is pending and was sent.
LEMMA CommittedPending ==
  ASSUME RelayInv, NEW c \in Producers, NEW port \in PortIds, NEW chan \in ChannelIds,
         NEW seq \in Sequence, NEW v, v = Latest(c)[CommitmentPath(port, chan, seq)],
         v # Absent
  PROVE  /\ v = sent[c][seq] /\ v \in SenderPayloads[c]
         /\ resolved[c][seq] = "pending"
<1>1. TypeOK /\ c \in Counterparties /\ CommittedAsSent(c, seq)
  BY PeersTyped DEF RelayInv, PacketsInv, Sender
<1>2. Len(ledger[c]) \in 1..Len(ledger[c]) BY <1>1, BoundsTyped DEF TypeOK, Height
<1> QED BY <1>1, <1>2 DEF CommittedAsSent, Latest

\* Only a delivered packet is acknowledged.
LEMMA AcknowledgeFacts ==
  ASSUME RelayInv, NEW c \in Producers, NEW port \in PortIds, NEW chan \in ChannelIds,
         NEW seq \in Sequence, NEW ack, NEW h \in Height,
         ChainAcknowledgePacket(c, port, chan, seq, ack, h)
  PROVE  delivered[Peer(c)][seq] # Absent
<1> DEFINE end == EndOf(c, port, chan)
           id == ClientOf(c, end)
           a == AckPath(end.counterparty.portId, end.counterparty.channelId, seq)
<1>0. /\ TypeOK /\ MirrorCommitted /\ Peer(c) \in Producers
      /\ EndsKept(c) /\ ClientsKept(c) /\ Receiver(Peer(c))
  BY PeersTyped DEF RelayInv, ChainsInv, PacketsInv
<1>1. end # Absent /\ VerifyPresence(c, id, h, a, CommitAcknowledgement(ack))
  BY DEF ChainAcknowledgePacket
<1>2. /\ end.counterparty.portId \in PortIds /\ end.counterparty.channelId \in ChannelIds
      /\ IsEnd(Peer(c), end.counterparty.portId, end.counterparty.channelId)
      /\ id \in ClientIds
      /\ FollowsPeer(c, Latest(c)[ClientPath(id)])
  BY <1>0, <1>1, EndFollowsPeer
<1>3. Knows(c, id, h) /\ ClientReads(c, id, h, a) # Absent
  BY <1>1 DEF VerifyPresence
<1> HIDE DEF id
<1>4. a \in AckPaths BY <1>2, PacketPaths
<1>5. PICK k \in 1..Len(ledger[Peer(c)]) : ClientReads(c, id, h, a) = ledger[Peer(c)][k][a]
  BY <1>0, <1>2, <1>3, <1>4, PeerCommitted
<1>6. ledger[Peer(c)][k][a] # Absent BY <1>3, <1>5
<1> QED BY <1>0, <1>2, <1>6 DEF Receiver, ReceivedWithReceipt

\* A packet of the upstream times out only undelivered, past its timeout.
LEMMA TimeoutFacts ==
  ASSUME RelayInv, NEW port \in PortIds, NEW chan \in ChannelIds,
         NEW seq \in Sequence, NEW h \in Height,
         ChainTimeoutPacket(UpstreamChain, port, chan, seq, h)
  PROVE  /\ delivered[DownstreamChain][seq] = Absent
         /\ Expired(DownstreamChain, sent[UpstreamChain][seq])
<1> DEFINE end == EndOf(UpstreamChain, port, chan)
           id == ClientOf(UpstreamChain, end)
           x == end.counterparty.portId
           y == end.counterparty.channelId
           r == ReceiptPath(x, y, seq)
           payload == Latest(UpstreamChain)[CommitmentPath(port, chan, seq)]
<1>0. /\ TypeOK /\ UpstreamChain \in Producers /\ DownstreamChain \in Producers
      /\ DownstreamChain \in Counterparties /\ Peer(UpstreamChain) = DownstreamChain
      /\ EndsKept(UpstreamChain) /\ ClientsKept(UpstreamChain)
      /\ Receiver(DownstreamChain) /\ AsSent(DownstreamChain)
      /\ Peer(DownstreamChain) = UpstreamChain
  BY PeersTyped DEF RelayInv, ChainsInv, PacketsInv
<1>1. /\ end # Absent /\ payload # Absent
      /\ Timeout[payload] # 0 /\ h >= Timeout[payload]
      /\ VerifyAbsence(UpstreamChain, id, h, r)
  BY DEF ChainTimeoutPacket
<1>2. /\ x \in PortIds /\ y \in ChannelIds /\ IsEnd(DownstreamChain, x, y)
      /\ id \in ClientIds
      /\ FollowsPeer(UpstreamChain, Latest(UpstreamChain)[ClientPath(id)])
  BY <1>0, <1>1, EndFollowsPeer
<1>3. payload = sent[UpstreamChain][seq] /\ payload \in Payloads
  BY <1>0, <1>1, CommittedPending, PeersTyped
<1>4. /\ h \in 1..Len(ledger[DownstreamChain])
      /\ ledger[DownstreamChain][h][r] = Absent
  <2>1. Knows(UpstreamChain, id, h) /\ ClientReads(UpstreamChain, id, h, r) = Absent
    BY <1>1 DEF VerifyAbsence
  <2> HIDE DEF id, r
  <2> QED BY <1>0, <1>2, <2>1, UpstreamReads
<1> HIDE DEF end, payload
<1>5. Timeout[payload] \in Nat /\ h \in Nat /\ Len(ledger[DownstreamChain]) \in Nat
  BY <1>0, <1>3, RelayAssumption, BoundsTyped DEF TypeOK, Height
<1>6. Expired(DownstreamChain, payload) BY <1>1, <1>4, <1>5 DEF Expired
<1>7. delivered[DownstreamChain][seq] = Absent
  <2> SUFFICES ASSUME delivered[DownstreamChain][seq] # Absent PROVE FALSE OBVIOUS
  <2>1. delivered[DownstreamChain][seq] = payload BY <1>0, <1>3 DEF AsSent
  <2>2. PICK i \in 1..Len(ledger[DownstreamChain]) : ReceivedAt(DownstreamChain, x, y, seq, i)
    BY <1>0, <1>2 DEF Receiver, ReceivedWithReceipt
  <2>3. i < Timeout[payload] BY <1>1, <2>1, <2>2 DEF ReceivedAt
  <2>4. i <= h BY <1>1, <1>5, <2>3
  <2> QED BY <1>4, <2>2, <2>4 DEF ReceivedAt
<1> QED BY <1>3, <1>6, <1>7

\* A packet of the upstream times out on a closed channel only undelivered.
LEMMA TimeoutOnCloseFacts ==
  ASSUME RelayInv, NEW port \in PortIds, NEW chan \in ChannelIds,
         NEW seq \in Sequence, NEW h \in Height,
         ChainTimeoutOnClose(UpstreamChain, port, chan, seq, h)
  PROVE  /\ delivered[DownstreamChain][seq] = Absent
         /\ Expired(DownstreamChain, sent[UpstreamChain][seq])
<1> DEFINE end == EndOf(UpstreamChain, port, chan)
           id == ClientOf(UpstreamChain, end)
           x == end.counterparty.portId
           y == end.counterparty.channelId
           r == ReceiptPath(x, y, seq)
           q == ChannelPath(x, y)
<1>0. /\ TypeOK /\ UpstreamChain \in Producers /\ DownstreamChain \in Producers
      /\ DownstreamChain \in Counterparties /\ Peer(UpstreamChain) = DownstreamChain
      /\ EndsKept(UpstreamChain) /\ ClientsKept(UpstreamChain)
      /\ Receiver(DownstreamChain)
  BY PeersTyped DEF RelayInv, ChainsInv, PacketsInv
<1>1. /\ end # Absent
      /\ VerifyAbsence(UpstreamChain, id, h, r)
      /\ \E v : VerifyPresence(UpstreamChain, id, h, q, v) /\ v.state = "CLOSED"
  BY DEF ChainTimeoutOnClose
<1>2. /\ x \in PortIds /\ y \in ChannelIds /\ IsEnd(DownstreamChain, x, y)
      /\ id \in ClientIds
      /\ FollowsPeer(UpstreamChain, Latest(UpstreamChain)[ClientPath(id)])
  BY <1>0, <1>1, EndFollowsPeer
<1>3. /\ h \in 1..Len(ledger[DownstreamChain])
      /\ ledger[DownstreamChain][h][r] = Absent
      /\ Closed(ledger[DownstreamChain][h], x, y)
  <2>1. /\ Knows(UpstreamChain, id, h) /\ ClientReads(UpstreamChain, id, h, r) = Absent
        /\ ClientReads(UpstreamChain, id, h, q).state = "CLOSED"
    BY <1>1 DEF VerifyAbsence, VerifyPresence
  <2> HIDE DEF id, r
  <2> QED BY <1>0, <1>2, <2>1, UpstreamReads DEF Closed
<1> HIDE DEF end
<1>4. /\ StaysClosed(DownstreamChain, x, y)
      /\ ReceivedWithReceipt(DownstreamChain, x, y, seq)
  BY <1>0, <1>2 DEF Receiver
<1>5. Closed(Latest(DownstreamChain), x, y) BY <1>3, <1>4 DEF StaysClosed
<1>6. \A port1 \in PortIds, chan1 \in ChannelIds :
        IsEnd(DownstreamChain, port1, chan1) => Closed(Latest(DownstreamChain), port1, chan1)
  BY <1>0, <1>2, <1>5, OneEnd
<1>7. delivered[DownstreamChain][seq] = Absent
  <2> SUFFICES ASSUME delivered[DownstreamChain][seq] # Absent PROVE FALSE OBVIOUS
  <2>1. PICK i \in 1..Len(ledger[DownstreamChain]) : ReceivedAt(DownstreamChain, x, y, seq, i)
    BY <1>4 DEF ReceivedWithReceipt
  <2>2. i <= h \/ h < i BY <1>3
  <2> QED BY <1>3, <2>1, <2>2 DEF ReceivedAt
<1> QED BY <1>6, <1>7 DEF Expired

-----------------------------------------------------------------------------
(* Every step.                                                             *)

\* Steps of the proxy keep the invariant.
LEMMA ProxyKeepsInv ==
  ASSUME RelayInv, (\E u \in UpstreamClients : ProxyStep(u)) \/ Commit, UNCHANGED appVars
  PROVE  RelayInv'
<1>0. TypeOK /\ Producers \subseteq Counterparties /\ UNCHANGED <<sent, delivered, resolved>>
  BY PeersTyped DEF RelayInv, appVars
<1>1. Next /\ UNCHANGED ledger /\ Len(blocks) <= Len(blocks') BY <1>0, ProxyStepIsNext
<1>2. TypeOK' /\ Grows BY <1>0, <1>1, StepTyped
<1>3. HeightsGrow BY <1>0, <1>1, <1>2, HeightsGrowStep
<1>4. MirrorCommitted' BY <1>0, ProxyStepKeepsMirror DEF RelayInv
<1>5. AppTypeOK' BY <1>0 DEF RelayInv, AppTypeOK
<1>6. \A d : Latest(d)' = Latest(d) BY <1>1 DEF Latest
<1>7. ASSUME NEW d \in Producers PROVE EndsKept(d)' /\ ClientsKept(d)'
  <2>1. EndsKept(d) /\ ClientsKept(d) BY DEF RelayInv, ChainsInv
  <2>2. EndsKept(d)' BY <1>1, <2>1 DEF EndsKept, ClosedOrSame, Opening
  <2>3. Keeps(ClientPaths \cup ConsensusPaths, Latest(d), Latest(d)') BY <1>6 DEF Keeps
  <2> QED BY <1>0, <1>3, <2>1, <2>2, <2>3, ClientsKeptStep
<1>8. ASSUME NEW d \in Producers PROVE Sender(d)' /\ Receiver(d)' /\ AsSent(d)'
  <2>1. Sender(d) /\ Receiver(d) /\ AsSent(d) BY DEF RelayInv, PacketsInv
  <2>2. Sender(d)' /\ Receiver(d)' BY <1>0, <1>1, <2>1, IdleChain
  <2>3. AsSent(d)' BY <1>0, <2>1 DEF AsSent, Peer
  <2> QED BY <2>2, <2>3
<1>9. TimedOutExpired'
  BY <1>0, <1>1, <1>6 DEF RelayInv, TimedOutExpired, Expired, Closed, IsEnd, Opening
<1> QED BY <1>2, <1>4, <1>5, <1>7, <1>8, <1>9 DEF RelayInv, ChainsInv, PacketsInv

\* The downstream's packets carry no timeout.
NoBackwardTimeouts == \A payload \in SenderPayloads[DownstreamChain] : Timeout[payload] = 0

\* The downstream, whose packets carry no timeout, times out none of them: it never reads
\* that the upstream's end is closed.
LEMMA DownstreamNeverTimesOut ==
  ASSUME RelayInv, NoBackwardTimeouts, NEW port \in PortIds, NEW chan \in ChannelIds,
         NEW seq \in Sequence, NEW h \in Height
  PROVE  /\ ~ ChainTimeoutPacket(DownstreamChain, port, chan, seq, h)
         /\ ~ ChainTimeoutOnClose(DownstreamChain, port, chan, seq, h)
<1>0. /\ TypeOK /\ MirrorCommitted /\ DownstreamChain \in Producers
      /\ EndsKept(DownstreamChain) /\ ClientsKept(DownstreamChain)
  BY PeersTyped DEF RelayInv, ChainsInv
<1>1. ASSUME ChainTimeoutPacket(DownstreamChain, port, chan, seq, h) PROVE FALSE
  <2> DEFINE payload == Latest(DownstreamChain)[CommitmentPath(port, chan, seq)]
  <2>1. payload # Absent /\ Timeout[payload] # 0 BY <1>1 DEF ChainTimeoutPacket
  <2>2. payload \in SenderPayloads[DownstreamChain] BY <1>0, <2>1, CommittedPending
  <2> QED BY <2>1, <2>2 DEF NoBackwardTimeouts
<1>2. ASSUME ChainTimeoutOnClose(DownstreamChain, port, chan, seq, h) PROVE FALSE
  <2> DEFINE end == EndOf(DownstreamChain, port, chan)
             id == ClientOf(DownstreamChain, end)
             x == end.counterparty.portId
             y == end.counterparty.channelId
  <2>1. /\ end # Absent
        /\ \E v : /\ VerifyPresence(DownstreamChain, id, h, ChannelPath(x, y), v)
                 /\ v.state = "CLOSED"
    BY <1>2 DEF ChainTimeoutOnClose
  <2>2. /\ x \in PortIds /\ y \in ChannelIds /\ id \in ClientIds
        /\ FollowsPeer(DownstreamChain, Latest(DownstreamChain)[ClientPath(id)])
    BY <1>0, <2>1, EndFollowsPeer
  <2>3. PICK v : /\ Knows(DownstreamChain, id, h) /\ v # Absent /\ v.state = "CLOSED"
                 /\ v = ClientReads(DownstreamChain, id, h, ChannelPath(x, y))
    BY <2>1 DEF VerifyPresence
  <2> HIDE DEF id, x, y
  <2> QED BY <1>0, <2>2, <2>3, MirrorNeverClosed
<1> QED BY <1>1, <1>2

\* What a step of the composition shows to the applications.
AppSend(c, seq) ==
  \E payload \in Payloads :
    /\ sent[c][seq] = Absent
    /\ sent' = [sent EXCEPT ![c][seq] = payload]
    /\ UNCHANGED <<delivered, resolved>>

AppDeliver(c, seq) ==
  /\ sent[Peer(c)][seq] # Absent /\ delivered[c][seq] = Absent
  /\ c = DownstreamChain => resolved[UpstreamChain][seq] # "timedOut"
  /\ delivered' = [delivered EXCEPT ![c][seq] = sent[Peer(c)][seq]]
  /\ UNCHANGED <<sent, resolved>>

AppAcknowledge(c, seq) ==
  /\ delivered[Peer(c)][seq] # Absent /\ resolved[c][seq] = "pending"
  /\ resolved' = [resolved EXCEPT ![c][seq] = "acknowledged"]
  /\ UNCHANGED <<sent, delivered>>

AppTimeOut(c, seq) ==
  /\ sent[c][seq] # Absent /\ resolved[c][seq] = "pending"
  /\ c = UpstreamChain => delivered[DownstreamChain][seq] = Absent
  /\ c = DownstreamChain => ~ NoBackwardTimeouts
  /\ resolved' = [resolved EXCEPT ![c][seq] = "timedOut"]
  /\ UNCHANGED <<sent, delivered>>

AppStep ==
  \/ UNCHANGED appVars
  \/ \E c \in Producers, seq \in Sequence :
       AppSend(c, seq) \/ AppDeliver(c, seq) \/ AppAcknowledge(c, seq) \/ AppTimeOut(c, seq)

\* The packet handlers of a chain keep the invariant and show the applications what they
\* should see.
LEMMA PacketStepKeepsInv ==
  ASSUME RelayInv, NEW c \in Producers, ChainPacket(c)
  PROVE  RelayInv' /\ AppStep
<1>1. PICK port \in PortIds, chan \in ChannelIds, seq \in Sequence :
        \/ \E payload \in SenderPayloads[c] : SendPacket(c, port, chan, seq, payload)
        \/ \E payload \in Payloads, h \in Height :
             ChainRecvPacket(c, port, chan, seq, payload, h)
        \/ \E ack \in Acks, h \in Height :
             ChainAcknowledgePacket(c, port, chan, seq, ack, h)
        \/ \E h \in Height : ChainTimeoutPacket(c, port, chan, seq, h)
        \/ \E h \in Height : ChainTimeoutOnClose(c, port, chan, seq, h)
  BY DEF ChainPacket
<1>2. ASSUME NEW payload \in SenderPayloads[c], SendPacket(c, port, chan, seq, payload)
      PROVE  RelayInv' /\ AppStep
  <2>1. RelayInv' BY <1>2, SendKeepsInv
  <2>2. payload \in Payloads /\ sent[c][seq] = Absent BY <1>2, SendFacts
  <2>3. AppSend(c, seq) BY <1>2, <2>2 DEF AppSend, SendPacket
  <2> QED BY <2>1, <2>3 DEF AppStep
<1>3. ASSUME NEW payload \in Payloads, NEW h \in Height,
             ChainRecvPacket(c, port, chan, seq, payload, h)
      PROVE  RelayInv' /\ AppStep
  <2>1. RelayInv' BY <1>3, ReceiveKeepsInv
  <2>2. /\ payload # Absent /\ payload = sent[Peer(c)][seq] /\ delivered[c][seq] = Absent
        /\ c = DownstreamChain => resolved[UpstreamChain][seq] # "timedOut"
    BY <1>3, ReceiveFacts
  <2>3. /\ delivered' = [delivered EXCEPT ![c][seq] = payload]
        /\ UNCHANGED <<sent, resolved>>
    BY <1>3 DEF ChainRecvPacket
  <2>4. AppDeliver(c, seq) BY <2>2, <2>3 DEF AppDeliver
  <2> QED BY <2>1, <2>4 DEF AppStep
<1>4. ASSUME NEW result \in {"acknowledged", "timedOut"}, Resolve(c, port, chan, seq, result),
             Latest(c)[CommitmentPath(port, chan, seq)] # Absent
      PROVE  /\ sent[c][seq] # Absent /\ resolved[c][seq] = "pending"
             /\ resolved' = [resolved EXCEPT ![c][seq] = result]
             /\ UNCHANGED <<sent, delivered>>
  BY <1>4, CommittedPending DEF Resolve
<1>5. ASSUME NEW ack \in Acks, NEW h \in Height,
             ChainAcknowledgePacket(c, port, chan, seq, ack, h)
      PROVE  RelayInv' /\ AppStep
  <2>1. /\ Resolve(c, port, chan, seq, "acknowledged")
        /\ Latest(c)[CommitmentPath(port, chan, seq)] # Absent
    BY <1>5 DEF ChainAcknowledgePacket
  <2>2. RelayInv' BY <2>1, ResolveKeepsInv
  <2>3. delivered[Peer(c)][seq] # Absent BY <1>5, AcknowledgeFacts
  <2>4. AppAcknowledge(c, seq) BY <1>4, <2>1, <2>3 DEF AppAcknowledge
  <2> QED BY <2>2, <2>4 DEF AppStep
<1>6. ASSUME NEW h \in Height,
             \/ ChainTimeoutPacket(c, port, chan, seq, h)
             \/ ChainTimeoutOnClose(c, port, chan, seq, h)
      PROVE  RelayInv' /\ AppStep
  <2>1. /\ Resolve(c, port, chan, seq, "timedOut")
        /\ Latest(c)[CommitmentPath(port, chan, seq)] # Absent
    BY <1>6 DEF ChainTimeoutPacket, ChainTimeoutOnClose
  <2>2. c = UpstreamChain =>
          /\ delivered[DownstreamChain][seq] = Absent
          /\ Expired(DownstreamChain, sent[UpstreamChain][seq])
    BY <1>6, TimeoutFacts, TimeoutOnCloseFacts
  <2>3. RelayInv' BY <2>1, <2>2, ResolveKeepsInv
  <2>4. c = DownstreamChain => ~ NoBackwardTimeouts BY <1>6, DownstreamNeverTimesOut
  <2>5. AppTimeOut(c, seq) BY <1>4, <2>1, <2>2, <2>4 DEF AppTimeOut
  <2> QED BY <2>3, <2>5 DEF AppStep
<1> QED BY <1>1, <1>2, <1>3, <1>5, <1>6

\* Every step keeps the invariant and shows the applications what they should see.
LEMMA RelayStep ==
  ASSUME RelayInv, [RelayNext]_relayVars
  PROVE  RelayInv' /\ AppStep
<1>1. CASE \E c \in Producers : ChainPacket(c) BY <1>1, PacketStepKeepsInv
<1>2. CASE \E c \in Producers, port \in PortIds, chan \in ChannelIds : ChainClose(c, port, chan)
  <2>1. RelayInv' BY <1>2, CloseKeepsInv
  <2>2. UNCHANGED appVars BY <1>2 DEF ChainClose
  <2> QED BY <2>1, <2>2 DEF AppStep
<1>3. CASE (\E c \in Producers, id \in ClientIds : ChainHeader(c, id)) /\ UNCHANGED appVars
  BY <1>3, HeaderKeepsInv DEF AppStep
<1>4. CASE ((\E u \in UpstreamClients : ProxyStep(u)) \/ Commit) /\ UNCHANGED appVars
  BY <1>4, ProxyKeepsInv DEF AppStep
<1>5. CASE UNCHANGED relayVars
  <2>1. /\ UNCHANGED <<ledger, blocks, consensus, proxy, headers>>
        /\ UNCHANGED <<sent, delivered, resolved>>
    BY <1>5 DEF relayVars, vars, appVars
  <2>2. TypeOK' /\ AppTypeOK' BY <2>1 DEF RelayInv, TypeOK, AppTypeOK
  <2>3. MirrorCommitted' BY <2>1 DEF RelayInv, MirrorCommitted
  <2>4. \A d : Latest(d)' = Latest(d) /\ HeightOf(d)' = HeightOf(d)
    BY <2>1 DEF Latest, HeightOf
  <2>5. ASSUME NEW d \in Producers PROVE EndsKept(d)' /\ ClientsKept(d)'
    <3>1. EndsKept(d) /\ ClientsKept(d) BY DEF RelayInv, ChainsInv
    <3>2. EndsKept(d)' BY <2>1, <3>1 DEF EndsKept, ClosedOrSame, Opening
    <3>3. ClientsKept(d)'
      BY <2>4, <3>1 DEF ClientsKept, Opening, SameClient, ConsensusOf
    <3> QED BY <3>2, <3>3
  <2>6. ASSUME NEW d \in Producers PROVE Sender(d)' /\ Receiver(d)' /\ AsSent(d)'
    <3>1. Sender(d) /\ Receiver(d) /\ AsSent(d) BY DEF RelayInv, PacketsInv
    <3>2. Sender(d)' /\ Receiver(d)' BY <2>1, <3>1, IdleChain
    <3>3. AsSent(d)' BY <2>1, <3>1 DEF AsSent, Peer
    <3> QED BY <3>2, <3>3
  <2>7. TimedOutExpired'
    BY <2>1, <2>4 DEF RelayInv, TimedOutExpired, Expired, Closed, IsEnd, Opening
  <2>8. RelayInv' BY <2>2, <2>3, <2>5, <2>6, <2>7 DEF RelayInv, ChainsInv, PacketsInv
  <2> QED BY <1>5, <2>8 DEF AppStep, relayVars
<1> QED BY <1>1, <1>2, <1>3, <1>4, <1>5 DEF RelayNext

-----------------------------------------------------------------------------
(* The opening.                                                            *)

\* The histories begin with types.
LEMMA OpeningTypes == RelayInit => TypeOK /\ AppTypeOK
<1> SUFFICES ASSUME RelayInit PROVE TypeOK /\ AppTypeOK OBVIOUS
<1>1. ledger = InitLedger /\ consensus = [u \in UpstreamClients |-> {1}]
        /\ proxy = InitMirror /\ blocks = <<proxy>>
  BY DEF RelayInit
<1>2. /\ ledger \in [Counterparties -> Seq(Store)]
      /\ \A c \in Counterparties : Len(ledger[c]) = 1 /\ Len(ledger[c]) \in Height
  BY <1>1, InitLedgerAssumption, OpeningTyped
<1>3. 1 \in Height
  <2>1. MaxHeight \in Nat /\ MaxBlocks \in 1..MaxHeight BY ConstantsAssumption, Zenon
  <2> QED BY <2>1 DEF Height
<1>4. consensus \in [UpstreamClients -> SUBSET Height] BY <1>1, <1>3
<1>5. \A u \in UpstreamClients : consensus[u] \subseteq 1..Len(ledger[Tracks[u]])
  <2> SUFFICES ASSUME NEW u \in UpstreamClients
               PROVE  consensus[u] \subseteq 1..Len(ledger[Tracks[u]])
    OBVIOUS
  <2>1. Tracks[u] \in Counterparties BY BoundsTyped
  <2>2. Len(ledger[Tracks[u]]) = 1 BY <1>2, <2>1
  <2>3. consensus[u] = {1} BY <1>1
  <2> QED BY <2>2, <2>3
<1>6. proxy \in [UpstreamClients -> Store] BY <1>1, RelayAssumption
<1>7. blocks \in Seq([UpstreamClients -> Store]) /\ Len(blocks) = 1 BY <1>1, <1>6
<1>8. Len(blocks) \in 1..MaxBlocks BY <1>7, BoundsTyped
<1>9. headers \subseteq 1..Len(blocks) BY <1>7 DEF RelayInit, TrackHistoricalInfo
<1>10. TypeOK BY <1>2, <1>4, <1>5, <1>6, <1>7, <1>8, <1>9 DEF TypeOK
<1>11. AppTypeOK BY DEF RelayInit, AppTypeOK
<1> QED BY <1>10, <1>11

\* The clients of the opening.
LEMMA OpeningClients ==
  ASSUME RelayInit, NEW c \in Producers
  PROVE  ClientsKept(c)
<1>0. c \in Counterparties /\ Opening(c) \in Store /\ TypeOK
  BY PeersTyped, OpeningTyped, OpeningTypes
<1>1. Latest(c) = Opening(c) BY <1>0, OpeningTyped DEF RelayInit, Latest, Opening
<1> SUFFICES ASSUME NEW id \in ClientIds, NEW h \in Height,
                    Opening(c)[ConsensusPath(id, h)] # Absent
             PROVE  /\ ConsensusOf(Opening(c)[ClientPath(id)],
                                   Opening(c)[ConsensusPath(id, h)], h)
                    /\ h <= HeightOf(Opening(c)[ClientPath(id)].chain)
  BY <1>1, SameClientEquivalence DEF ClientsKept
<1> DEFINE cs == Opening(c)[ClientPath(id)]
           cons == Opening(c)[ConsensusPath(id, h)]
<1>2. h = 1 /\ cons.height = 1 /\ cons.kind = cs.kind BY OpeningAssumption
<1>3. Coherent(Opening(c))
  BY <1>0, OpeningTyped, InitHistoryAssumption DEF LegalHistory, Opening
<1>4. cs # Absent /\ cons.chain = cs.chain BY <1>3 DEF Coherent
<1>5. cs \in ClientState /\ cons \in ConsensusState
  BY <1>0, <1>4, StoreRead, PathsTyped
<1>6. cs.chain \in Counterparties \cup {ProxyChain}
  BY <1>5 DEF ClientState, TMClient, ProxyClient
<1> HIDE DEF cs, cons
<1>7. ConsensusOf(cs, cons, h)
  <2>1. cons = [kind |-> cons.kind, chain |-> cons.chain, height |-> cons.height]
    BY <1>5 DEF ConsensusState
  <2> QED BY <1>2, <1>4, <2>1 DEF ConsensusOf
<1>8. h <= HeightOf(cs.chain)
  <2>1. CASE cs.chain = ProxyChain
    BY <1>0, <1>2, <2>1, BoundsTyped DEF HeightOf, TypeOK
  <2>2. CASE cs.chain # ProxyChain
    BY <1>0, <1>2, <1>6, <2>2, BoundsTyped DEF HeightOf, TypeOK, Height
  <2> QED BY <2>1, <2>2
<1> QED BY <1>7, <1>8 DEF cs, cons

\* The invariant holds when the packets start.
LEMMA RelayInvInit == RelayInit => RelayInv
<1> SUFFICES ASSUME RelayInit PROVE RelayInv OBVIOUS
<1>1. TypeOK /\ AppTypeOK BY OpeningTypes
<1>2. ASSUME NEW c \in Counterparties
      PROVE  Len(ledger[c]) = 1 /\ ledger[c][1] = Opening(c) /\ Latest(c) = Opening(c)
  BY OpeningTyped DEF RelayInit, Latest, Opening
<1>3. ASSUME NEW c \in Counterparties, NEW i \in 1..Len(ledger[c])
      PROVE  ledger[c][i] = Opening(c)
  BY <1>2, <1>3
<1>4. Producers \subseteq Counterparties BY PeersTyped
<1>5. \A c \in Producers : EndsKept(c) BY <1>3, <1>4 DEF EndsKept, ClosedOrSame
<1>6. \A c \in Producers : ClientsKept(c) BY OpeningClients
<1>7. MirrorCommitted
  <2>1. proxy = InitMirror /\ blocks = <<proxy>> BY DEF RelayInit
  <2>2. CommittedIn(InitMirror, ledger)
    <3> SUFFICES ASSUME NEW u \in UpstreamClients
                 PROVE  /\ \A p \in ChannelPaths :
                             InitMirror[u][p] \in {Absent, Opening(Tracks[u])[p]}
                        /\ \A p \in CommitmentPaths \cup AckPaths :
                             InitMirror[u][p] # Absent =>
                               \E k \in 1..Len(ledger[Tracks[u]]) :
                                 InitMirror[u][p] = ledger[Tracks[u]][k][p]
      BY DEF CommittedIn
    <3>1. \A p \in ChannelPaths \cup CommitmentPaths \cup AckPaths :
            InitMirror[u][p] \in {Absent, Opening(Tracks[u])[p]}
      BY OpeningAssumption
    <3>2. Tracks[u] \in Counterparties BY BoundsTyped
    <3>3. 1 \in 1..Len(ledger[Tracks[u]]) /\ ledger[Tracks[u]][1] = Opening(Tracks[u])
      BY <1>2, <3>2
    <3> QED BY <3>1, <3>3
  <2>3. \A i \in 1..Len(blocks) : blocks[i] = InitMirror BY <2>1
  <2> QED BY <2>1, <2>2, <2>3 DEF MirrorCommitted
<1>8. \A c \in Producers, seq \in Sequence :
        sent[c][seq] = Absent /\ delivered[c][seq] = Absent /\ resolved[c][seq] = "pending"
  BY DEF RelayInit
<1>9. \A c \in Producers, port \in PortIds, chan \in ChannelIds, seq \in Sequence :
        /\ Opening(c)[CommitmentPath(port, chan, seq)] = Absent
        /\ Opening(c)[AckPath(port, chan, seq)] = Absent
  BY OpeningAssumption
<1>10. ASSUME NEW c \in Producers PROVE Sender(c)
  <2>1. \A i \in 1..Len(ledger[c]) : ledger[c][i] = Opening(c) BY <1>3, <1>4
  <2>2. Latest(c) = Opening(c) BY <1>2, <1>4
  <2> QED BY <1>8, <1>9, <2>1, <2>2 DEF Sender, CommittedAsSent
<1>11. ASSUME NEW c \in Producers PROVE Receiver(c)
  <2>1. \A i \in 1..Len(ledger[c]) : ledger[c][i] = Opening(c) BY <1>3, <1>4
  <2>2. Latest(c) = Opening(c) BY <1>2, <1>4
  <2>3. \A port, chan : StaysClosed(c, port, chan) BY <2>1, <2>2 DEF StaysClosed
  <2>4. \A port \in PortIds, chan \in ChannelIds, seq \in Sequence :
          ReceivedWithReceipt(c, port, chan, seq)
    BY <1>8, <1>9, <2>1 DEF ReceivedWithReceipt
  <2> QED BY <2>3, <2>4 DEF Receiver
<1>12. \A c \in Producers : AsSent(c) BY <1>8 DEF AsSent
<1>13. TimedOutExpired BY <1>8, PeersTyped DEF TimedOutExpired
<1> QED BY <1>1, <1>5, <1>6, <1>7, <1>10, <1>11, <1>12, <1>13
        DEF RelayInv, ChainsInv, PacketsInv

-----------------------------------------------------------------------------
(* The refinements.                                                        *)

\* What the applications see of the packets from the upstream is a step of PacketDelivery.
LEMMA ForwardStep ==
  ASSUME AppTypeOK, AppStep
  PROVE  [Forward!Next]_(Forward!deliveryVars)
<1>0. /\ UpstreamChain \in Producers /\ DownstreamChain \in Producers
      /\ UpstreamChain # DownstreamChain /\ Producers = {UpstreamChain, DownstreamChain}
      /\ Peer(UpstreamChain) = DownstreamChain /\ Peer(DownstreamChain) = UpstreamChain
  BY PeersTyped, RelayAssumption
<1>1. CASE UNCHANGED appVars BY <1>1 DEF appVars, Forward!deliveryVars
<1>2. ASSUME NEW c \in Producers, NEW seq \in Sequence, AppSend(c, seq)
      PROVE  [Forward!Next]_(Forward!deliveryVars)
  <2>1. PICK payload \in Payloads :
          /\ sent[c][seq] = Absent
          /\ sent' = [sent EXCEPT ![c][seq] = payload]
          /\ UNCHANGED <<delivered, resolved>>
    BY <1>2 DEF AppSend
  <2>2. sent'[UpstreamChain] = IF UpstreamChain = c
                                 THEN [sent[c] EXCEPT ![seq] = payload]
                                 ELSE sent[UpstreamChain]
    BY <1>0, <2>1 DEF AppTypeOK
  <2>3. CASE c = UpstreamChain
    BY <2>1, <2>2, <2>3 DEF Forward!Next, Forward!Send
  <2>4. CASE c # UpstreamChain
    BY <2>1, <2>2, <2>4 DEF Forward!deliveryVars
  <2> QED BY <2>3, <2>4
<1>3. ASSUME NEW c \in Producers, NEW seq \in Sequence, AppDeliver(c, seq)
      PROVE  [Forward!Next]_(Forward!deliveryVars)
  <2>1. /\ sent[Peer(c)][seq] # Absent /\ delivered[c][seq] = Absent
        /\ c = DownstreamChain => resolved[UpstreamChain][seq] # "timedOut"
        /\ UNCHANGED <<sent, resolved>>
    BY <1>3 DEF AppDeliver
  <2>2. delivered'[DownstreamChain] = IF DownstreamChain = c
                                 THEN [delivered[c] EXCEPT ![seq] = sent[Peer(c)][seq]]
                                 ELSE delivered[DownstreamChain]
    BY <1>0, <1>3 DEF AppTypeOK, AppDeliver
  <2>3. CASE c = DownstreamChain
    BY <1>0, <2>1, <2>2, <2>3 DEF Forward!Next, Forward!Deliver
  <2>4. CASE c # DownstreamChain
    BY <2>1, <2>2, <2>4 DEF Forward!deliveryVars
  <2> QED BY <2>3, <2>4
<1>4. ASSUME NEW c \in Producers, NEW seq \in Sequence, AppAcknowledge(c, seq)
      PROVE  [Forward!Next]_(Forward!deliveryVars)
  <2>1. /\ delivered[Peer(c)][seq] # Absent /\ resolved[c][seq] = "pending"
        /\ UNCHANGED <<sent, delivered>>
    BY <1>4 DEF AppAcknowledge
  <2>2. resolved'[UpstreamChain] = IF UpstreamChain = c
                                 THEN [resolved[c] EXCEPT ![seq] = "acknowledged"]
                                 ELSE resolved[UpstreamChain]
    BY <1>0, <1>4 DEF AppTypeOK, AppAcknowledge
  <2>3. CASE c = UpstreamChain
    BY <1>0, <2>1, <2>2, <2>3 DEF Forward!Next, Forward!Acknowledge
  <2>4. CASE c # UpstreamChain
    BY <2>1, <2>2, <2>4 DEF Forward!deliveryVars
  <2> QED BY <2>3, <2>4
<1>5. ASSUME NEW c \in Producers, NEW seq \in Sequence, AppTimeOut(c, seq)
      PROVE  [Forward!Next]_(Forward!deliveryVars)
  <2>1. /\ sent[c][seq] # Absent /\ resolved[c][seq] = "pending"
        /\ c = UpstreamChain => delivered[DownstreamChain][seq] = Absent
        /\ UNCHANGED <<sent, delivered>>
    BY <1>5 DEF AppTimeOut
  <2>2. resolved'[UpstreamChain] = IF UpstreamChain = c
                                 THEN [resolved[c] EXCEPT ![seq] = "timedOut"]
                                 ELSE resolved[UpstreamChain]
    BY <1>0, <1>5 DEF AppTypeOK, AppTimeOut
  <2>3. CASE c = UpstreamChain
    BY <1>0, <2>1, <2>2, <2>3 DEF Forward!Next, Forward!TimeOut
  <2>4. CASE c # UpstreamChain
    BY <2>1, <2>2, <2>4 DEF Forward!deliveryVars
  <2> QED BY <2>3, <2>4
<1> QED BY <1>1, <1>2, <1>3, <1>4, <1>5 DEF AppStep

\* No packet of the downstream timed out.
NoneTimedOut == \A seq \in Sequence : resolved[DownstreamChain][seq] # "timedOut"

\* The same for the packets from the downstream, when they carry no timeout.
LEMMA BackwardStep ==
  ASSUME AppTypeOK, AppStep, NoBackwardTimeouts, NoneTimedOut
  PROVE  [Backward!Next]_(Backward!deliveryVars) /\ NoneTimedOut'
<1>0. /\ UpstreamChain \in Producers /\ DownstreamChain \in Producers
      /\ UpstreamChain # DownstreamChain /\ Producers = {UpstreamChain, DownstreamChain}
      /\ Peer(UpstreamChain) = DownstreamChain /\ Peer(DownstreamChain) = UpstreamChain
  BY PeersTyped, RelayAssumption
<1>1. CASE UNCHANGED appVars BY <1>1 DEF appVars, Backward!deliveryVars, NoneTimedOut
<1>2. ASSUME NEW c \in Producers, NEW seq \in Sequence, AppSend(c, seq)
      PROVE  [Backward!Next]_(Backward!deliveryVars) /\ NoneTimedOut'
  <2>1. PICK payload \in Payloads :
          /\ sent[c][seq] = Absent
          /\ sent' = [sent EXCEPT ![c][seq] = payload]
          /\ UNCHANGED <<delivered, resolved>>
    BY <1>2 DEF AppSend
  <2>2. sent'[DownstreamChain] = IF DownstreamChain = c
                                 THEN [sent[c] EXCEPT ![seq] = payload]
                                 ELSE sent[DownstreamChain]
    BY <1>0, <2>1 DEF AppTypeOK
  <2>3. NoneTimedOut' BY <2>1 DEF NoneTimedOut
  <2>4. CASE c = DownstreamChain
    BY <2>1, <2>2, <2>3, <2>4 DEF Backward!Next, Backward!Send
  <2>5. CASE c # DownstreamChain
    BY <2>1, <2>2, <2>3, <2>5 DEF Backward!deliveryVars
  <2> QED BY <2>4, <2>5
<1>3. ASSUME NEW c \in Producers, NEW seq \in Sequence, AppDeliver(c, seq)
      PROVE  [Backward!Next]_(Backward!deliveryVars) /\ NoneTimedOut'
  <2>1. /\ sent[Peer(c)][seq] # Absent /\ delivered[c][seq] = Absent
        /\ resolved[DownstreamChain][seq] # "timedOut"
        /\ UNCHANGED <<sent, resolved>>
    BY <1>3 DEF AppDeliver, NoneTimedOut
  <2>2. delivered'[UpstreamChain] = IF UpstreamChain = c
                                 THEN [delivered[c] EXCEPT ![seq] = sent[Peer(c)][seq]]
                                 ELSE delivered[UpstreamChain]
    BY <1>0, <1>3 DEF AppTypeOK, AppDeliver
  <2>3. NoneTimedOut' BY <2>1 DEF NoneTimedOut
  <2>4. CASE c = UpstreamChain
    BY <1>0, <2>1, <2>2, <2>3, <2>4 DEF Backward!Next, Backward!Deliver
  <2>5. CASE c # UpstreamChain
    BY <2>1, <2>2, <2>3, <2>5 DEF Backward!deliveryVars
  <2> QED BY <2>4, <2>5
<1>4. ASSUME NEW c \in Producers, NEW seq \in Sequence, AppAcknowledge(c, seq)
      PROVE  [Backward!Next]_(Backward!deliveryVars) /\ NoneTimedOut'
  <2>1. /\ delivered[Peer(c)][seq] # Absent /\ resolved[c][seq] = "pending"
        /\ UNCHANGED <<sent, delivered>>
    BY <1>4 DEF AppAcknowledge
  <2>2. resolved'[DownstreamChain] = IF DownstreamChain = c
                                 THEN [resolved[c] EXCEPT ![seq] = "acknowledged"]
                                 ELSE resolved[DownstreamChain]
    BY <1>0, <1>4 DEF AppTypeOK, AppAcknowledge
  <2>3. NoneTimedOut' BY <1>0, <2>2 DEF NoneTimedOut, AppTypeOK
  <2>4. CASE c = DownstreamChain
    BY <1>0, <2>1, <2>2, <2>3, <2>4 DEF Backward!Next, Backward!Acknowledge
  <2>5. CASE c # DownstreamChain
    BY <2>1, <2>2, <2>3, <2>5 DEF Backward!deliveryVars
  <2> QED BY <2>4, <2>5
<1>5. ASSUME NEW c \in Producers, NEW seq \in Sequence, AppTimeOut(c, seq)
      PROVE  [Backward!Next]_(Backward!deliveryVars) /\ NoneTimedOut'
  <2>1. c # DownstreamChain /\ UNCHANGED <<sent, delivered>> BY <1>5 DEF AppTimeOut
  <2>2. resolved'[DownstreamChain] = resolved[DownstreamChain]
    BY <1>0, <1>5, <2>1 DEF AppTypeOK, AppTimeOut
  <2> QED BY <2>1, <2>2 DEF Backward!deliveryVars, NoneTimedOut
<1> QED BY <1>1, <1>2, <1>3, <1>4, <1>5 DEF AppStep

\* Packets from the upstream to the downstream, proved to the downstream through the
\* mirror of the proxy (RecvPacket), are delivered at most once and as they were sent,
\* acknowledged only when delivered and timed out only when never delivered, for any
\* number of packets, blocks, headers and acknowledgements and in any order of messages.
THEOREM RelayImplementsForward == RelaySpec => ForwardDelivery
<1>1. RelayInit => RelayInv /\ Forward!Init
  <2>1. RelayInit => Forward!Init BY PeersTyped DEF RelayInit, Forward!Init
  <2> QED BY <2>1, RelayInvInit
<1>2. RelayInv /\ [RelayNext]_relayVars
        => RelayInv' /\ [Forward!Next]_(Forward!deliveryVars)
  BY RelayStep, ForwardStep DEF RelayInv
<1> QED BY <1>1, <1>2, PTL DEF RelaySpec, ForwardDelivery, Forward!Spec

\* Packets from the downstream to the upstream, whose acknowledgements come back through
\* the mirror of the proxy (AcknowledgePacket), have the same guarantees if they carry no
\* timeout: the proxy mirrors no receipt and no closed channel end.
THEOREM RelayImplementsBackward == NoBackwardTimeouts => (RelaySpec => BackwardDelivery)
<1> SUFFICES ASSUME NoBackwardTimeouts PROVE RelaySpec => BackwardDelivery OBVIOUS
<1>1. RelayInit => RelayInv /\ NoneTimedOut /\ Backward!Init
  <2>1. RelayInit => NoneTimedOut /\ Backward!Init
    BY PeersTyped DEF RelayInit, Backward!Init, NoneTimedOut
  <2> QED BY <2>1, RelayInvInit
<1>2. RelayInv /\ NoneTimedOut /\ [RelayNext]_relayVars
        => RelayInv' /\ NoneTimedOut' /\ [Backward!Next]_(Backward!deliveryVars)
  BY RelayStep, BackwardStep DEF RelayInv
<1> QED BY <1>1, <1>2, PTL DEF RelaySpec, BackwardDelivery, Backward!Spec
=============================================================================
