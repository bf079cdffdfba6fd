# A TLA+ model of the IBC proxy

The repository implements an *IBC proxy*: a Cosmos SDK module that lets a chain verify the
state of an upstream chain and commit it again under a store prefix of its own, so that a
downstream chain which cannot (or does not want to) run a light client of the upstream can
follow it with a light client of the proxy chain only. This directory models the proxy's
message handlers, the light clients they rest on, packets end to end, restarts, and the wire
format of the messages, checks them with TLC and proves the central safety properties with
TLAPS.

Names used throughout: **A** is the upstream chain, **B** the downstream chain, **P** the
proxy chain, **D** another proxy chain; *upstream client* is P's own light client of A
(`upstreamClientID` in the code); *mirror* is what P stores for A.

## 1. Inventory

| Component (under `src/`) | State | Operations | Interacts with |
|---|---|---|---|
| Proxy keeper, `modules/proxy/keeper/{client,connection,channel,packet}.go` | the proxy store: per upstream prefix and upstream client, a copy of parts of the upstream's IBC store | `ClientState`; `ConnOpenTry/Ack/Confirm/Finalize`; `ChanOpenTry/Ack/Confirm/Finalize`; `RecvPacket`; `AcknowledgePacket` | reads light clients through the client keeper, verifies proofs, writes the proxy store |
| Verification and proxy store, `proxy.go`, `commitment.go`, `keeper.go`, `types/keys.go` | the same store | `VerifyAndProxy*`, `SetProxy*`, `GetProxy*` | called by the handlers |
| Message server, `msg_server.go`, `types/msgs.go` | none | unpacks each of the eleven messages and calls its handler | SDK transactions: a failed one leaves no trace |
| Self-client validation, `client_keeper.go` | none; reads the headers of P that the staking module keeps | `ValidateSelfClient`, which looks through a multiv wrapper; `getSelfConsensusState` | ibc-go's connection keeper and `produceVerificationArgs` |
| xx-multiv client, `modules/light-clients/xx-multiv` | a wrapped client, a depth, a prefix | delegates everything except `VerifyClientState` and `VerifyClientConsensusState`, which follow the upstream's client to another proxy (head, branches, leaf) | used by P to verify A |
| xx-proxy client, `modules/light-clients/xx-proxy` | a wrapped client of P, the upstream client's name, the IBC and the proxy prefix | verification under the path of the proxy store; header, misbehaviour, substitute and upgrade handling of the wrapped client | held by B; used by P itself inside `ConnOpenTry/Ack` |
| Relayer, `testing/{proxy,multiv,coordinator}.go` | none | drives handshakes and packets | submits headers to clients and messages to A, P and B |
| Chains A, B, D (ibc-go) | IBC stores, one per height | client creation, update, upgrade and substitution; connection, channel and packet handlers | proofs of their blocks |
| Genesis, `genesis.go`, `module.go` | none | `InitGenesis` does nothing, `ExportGenesis` exports nothing: a restart from an export loses the proxy store | the light clients live in ibc-go's genesis and survive; the staking module's genesis has no historical headers, so P forgets its own earlier consensus states |
| Codecs, `types/tx.pb.go`, `multiv.pb.go`, `proxy.pb.go`, `codec.go`, and `UnpackInterfaces` in `msgs.go` and the client types | buffer, index and message of a running `Unmarshal`; the cached value of each `Any` | `Marshal`, `Size`, `Unmarshal`, `skipTx`, `UnpackInterfaces`, `GetSigners` | every message and every stored client state goes through them |
| Simulation app, `testing/simapp` | - | wiring and command line | - |

What is hard here. Every message to the proxy carries proofs at a height its sender chooses:
any block of A that P's client knows, however old. So messages may be stale, repeated, in
any order and from several relayers, while A, D and P produce blocks. The handlers rely on
earlier mirror state (`ConnOpenConfirm` rebuilds the opened end from the mirrored one,
channel handlers look at the mirrored connection, packet handlers at the mirrored channel),
so the order in which mirror state was written matters. `ConnOpenTry` and `ConnOpenAck`
refuse an existing end, but `ChanOpenTry` and `ChanOpenAck` do not. Two of the checks span
three chains: a multiv verification goes through a client on A into a block of D;
`ConnOpenTry` checks that B holds a client of P, in a block of B that A's client vouches
for, or in P's own committed mirror of B. Packets cross three chains, each of which may be
behind the others, while the mirror keeps what it once took over. The wrapped light clients
store their states in two encodings, and not every operation reads through the same one. The
generated codecs come in three separately written parts per message (`Size`,
`MarshalToSizedBuffer`, `Unmarshal`) that must agree.

What makes each component correct:

* keeper and store: everything mirrored was verified (`MirrorSound`); a connection is
  mirrored only if both ends follow each other through this proxy (`MutualTracking`);
  connections never go back (`ConnectionForwardOnly`); channels rest on connections
  (`ChannelBehindConnection`), packets on channels (`PacketBehindChannel`); readers of
  different blocks agree on open ends (`OpenEndsAgree`) and on packets
  (`PacketMirrorStable`); a mirrored client stays the same client
  (`ClientMirrorStable`); a relayer that keeps working gets its handshake and its packets
  through (`ConnectionRecovered` and `ConnectionConfirmed`, also after a restart,
  `ChannelConfirmed`, `PacketMirrored`, `AckMirrored`), except for the connections that a
  restart puts out of reach (`OpenedStaysLost`); as a whole it implements an abstract
  mirror (`ImplementsMirror`);
* multiv verification: the client state that is mirrored is the one at the end of the lookup
  (`MirrorSound` with multiv clients);
* proxy client on B with the keeper: packets between A and B are delivered at most once,
  unchanged and with one fate (`ForwardDelivery`, `BackwardDelivery`);
* client updates: the latest state stays usable (`LatestUsable`), nothing stored is replaced
  (`ConsensusImmutable`), a frozen or expired client vouches for nothing new
  (`HaltedVouchesNothingNew`), wrappers stay (`WrapperKept`);
* codecs: no buffer makes them panic (`NeverPanics`) or loop (`DecodeEnds`), what was sent
  is what is decoded (`DecodedAsSent`), a cut buffer loses only whole fields
  (`CutLosesWholeFields`), handlers find the interface values that were sent
  (`HandlerReadsUnpacked`).

`PROJECT.json` lists the hazards line by line, with the properties that cover each.

## 2. Modules

| Module | Content |
|---|---|
| `ProxyTypes` | constants and their assumptions, commitment paths, stored values |
| `Chains` | the chains around the proxy: append-only histories of IBC stores, extended by the handlers of ibc-go |
| `ProxyKeeper` | P: its clients, its proxy store, its committed blocks, the eleven handlers, and the safety properties; composed with `Chains` |
| `VerifiedMirror` | abstract: light clients gather facts, the proxy repeats only those and publishes its mirror |
| `MirrorRefinement` | the refinement mapping from `ProxyKeeper` to `VerifiedMirror` |
| `Relayer` | the fairness of one working relayer, and the liveness properties |
| `Restart` | `Relayer` with restarts of P from an exported genesis |
| `PacketDelivery` | abstract: what two applications expect of the packets of one direction |
| `Relay` | A, P and B on an open channel, packets both ways, with the proofs and timeouts that ibc-go's packet handlers demand; `ProxyKeeper`'s packet handlers in the middle |
| `LightClients` | xx-multiv, xx-proxy and bare Tendermint clients under ibc-go's client keeper: creation, headers, forks, misbehaviour, expiry, substitution, upgrade |
| `Protobuf` | the helpers that all generated codecs share |
| `TxMessages`, `LightClientMessages` | struct, `Marshal`, `Size` and `Unmarshal` of each message |
| `Wire` | a message from its sender's `Marshal` to the message server |
| `MCProxyKeeper`, `MCRestart`, `MCRelay`, `MCWire` | initial histories and values of the deployments that the `.cfg` files check |
| `ProxyKeeperProofs` | proofs of `TypeOK`, `MirrorSound` and `ImplementsMirror` |
| `ProxyHandshakeProofs` | proofs of `ConnectionForwardOnly`, `ChannelBehindConnection`, `PacketBehindChannel` |
| `ChainHistoryProofs` | the histories of the chains stay legal; proofs of `OpenEndsAgree` and `PacketMirrorStable` |
| `MutualTrackingProofs` | proofs of `MutualTracking` and `ClientMirrorStable` |
| `RelayProofs` | proofs that `Relay` implements `PacketDelivery` in both directions |
| `LightClientsProofs` | proofs of the five properties of `LightClients` |
| `WireProofs` | proofs of `NeverPanics`, `DecodeEnds` and `HandlerReadsUnpacked` |
| `WireRoundTripProofs` | proofs of `DecodedAsSent` and `CutLosesWholeFields` |

### State

| Variable | Code |
|---|---|
| `ledger[c]` | the IBC stores chain `c` committed, by height; a light client can prove what is in a block it knows |
| `consensus[u]` | the heights for which upstream client `u` on P holds a consensus state; empty before `MsgCreateClient` |
| `proxy[u]` | `Keeper.ProxyStore(ctx, upstreamPrefix, u)`, in the block being built |
| `blocks` | the proxy stores P committed, by height; what a proxy client can prove |
| `headers` | the heights of P whose header the staking module keeps, which `getSelfConsensusState` can return: the last `HistoricalEntries` |
| `sent`, `delivered`, `resolved` (`Relay`) | what the applications of A and B sent, were given, and were told of their packets |
| `restarts`, `opened` (`Restart`) | how often P was restarted; history for `OpenedStaysLost`: the connections that were open on the upstream at a restart |
| `client`, `cons` (`LightClients`) | client state (its wrappers, latest height, frozen or not) and consensus states (their encoding, the block they stand for, whether processed time and height are stored) of each client |
| `now`, `origin`, `substituted` (`LightClients`) | time, counted in blocks of the followed chain; histories for the properties |
| `data`, `index`, `message` (`Wire`) | `dAtA`, `iNdEx` and `m` of the generated `Unmarshal` |
| `offset`, `depth` (`Wire`) | `iNdEx` (from the start of the skipped field) and `depth` of a running `skipTx` |
| `cached`, `status` (`Wire`) | the `Any` fields with a cached value; where the message is |
| `sent`, `intact`, `iterations`, `round` (`Wire`) | histories for the properties; `iterations` counts the runs of both loops |

### Correspondence

* One action per handler, under its name (`ProxyClientState` is `Keeper.ClientState`). An
  action is enabled exactly when the handler returns no error.
* Cryptography is perfect. A proof verifies exactly for the value the chain committed at
  that height. An argument that a handler only compares with a proven value is written as
  that value (for example the connection end of `ConnOpenTry`, which the code assembles from
  the message and then verifies); an argument that can differ from the proof stays an
  argument (`cpConn` of `ConnOpenConfirm`, the destination of a packet).
* `ConnOpenTry` and `ConnOpenAck` are `ProxyNewConnection` with the expected state; the two
  handlers are the same code up to that state and the counterparty's connection, which both
  take from the message and verify as part of the end. All their checks (existence, state,
  client, consensus state, the two downstream proofs, connection) are conjuncts; because a
  failed transaction is discarded, their order is not observable.
* `ProduceVerificationArgs`: a proxy client (not inside a multiv wrapper) with this chain's
  prefixes, of this chain, at most at its height, whose `upstreamClientId` is the one that
  everything is then stored under; `hp` must be a height whose header this chain still
  keeps (`headers`). `TrackHistoricalInfo`, the begin blocker of the staking module
  (external), adds the current header and drops those that leave the window of
  `HistoricalEntries`.
* `DownstreamValue` covers the two kinds of client A may hold of B: a Tendermint client,
  also in a multiv wrapper, or a proxy client of P, through which P reads its own mirror of
  B in a committed block.
* `VerifyProxyState` is the multiv lookup, a walk that takes the same step (`Follow`) for
  the head and for each branch, with depth 0 or 1. Client state and consensus state come
  with separate proofs and so may come from different heights of the head: both are
  quantified independently.
* Acknowledgements are hashed, on verification and again on storing, as in the code;
  `CommitPacket` does not cover source and destination.
* A version is the set of orderings it supports, a connection end has a set of versions:
  this is what `validateChannelOrder` tells apart. A channel end has one hop, since all
  channel handlers refuse any other number.
* `Relay`: the light client of a chain is in its own store, and `ClientReads` is what its
  verification functions compare with: the counterparty's store, or for B's proxy client the
  mirror in a block of P. Proofs of absence are part of it. ibc-go's handlers are external
  and modelled from their conditions on channel state, commitments, receipts, heights and
  proofs. The histories start with connection and channel open and mirrored.
* Clients on A, B and D (`Chains`, external): `ChainCreateClient`, `ChainUpdateClient`,
  `ChainUpgradeClient`, which drops a multiv wrapper and stores a sentinel consensus state
  that is of no block, and `ChainSubstituteClient`, which copies a bare Tendermint consensus
  state, below an xx-proxy client too. Two states are of the same client (`SameClient`) when
  kind, chain and, for proxy clients, upstream client and prefixes agree; the wrapper may be
  gone.
* `Restart`: a restart is one step that installs what `ExportGenesis` returns, an empty
  proxy store, and commits it as the next block; A, B and P's light clients stay as they
  are. The header of that block is the first that P knows of itself again. So `ConnOpenTry`
  and `ConnOpenAck` fail after a restart until B has a header of the restarted P, A a header
  of that B, and P a header of that A, the round that `Coordinator.UpdateClients` makes.
* `LightClients`: each operation asks which store the wrapper hands on. Through
  `proxyExtractorStore` (status, headers, verification) a wrapped consensus state decodes
  and a bare one panics; without it (misbehaviour, substitution, upgrade) it is the other
  way round. A panic or error discards the transaction, so it is a disabled action. One
  consequence of the code that the model shows: misbehaviour and upgrade messages of an
  xx-proxy client always fail, and such a client is frozen only by a conflicting header.
* Codecs: the bytes and 7-bit groups of the encoding are real, and a definition per message
  and direction lists tags, order and presence conditions as the generated code does.
  `Unmarshal` is one step per field. An embedded message is its own encoding, so merging is
  appending. A batch of several messages in one buffer is protobuf's merge, which
  `Unmarshal` into a non-empty message performs. Skipping is one step per run of
  `skipTx`'s loop, with its group depth.

### What is abstracted

The upstream prefix is folded into the chain (each chain has one). `proofProxyHeight` only
keys a throw-away store that holds exactly one consensus state, so it has no effect and is
left out. Connection delay periods and the channel's version string are left out: the first
only postpones a message, the second is compared by the proof alone.

In `ProxyKeeper` and the modules above it, the connection and channel handlers of A, B and D
write without asking for proofs of their counterparty, and clients are created, updated,
upgraded and substituted without the conditions that `LightClients` models (status,
signatures, plan, governance). In these steps the model has more histories than the real
chains, and the safety results hold for the real ones. Which clients are created later or
serviced is a constant (`NewClients`, `ServicedClients`): the theorems hold for every choice,
the runs `both_side` and `self_proxy` make one. Three things are left out of the histories:

* consensus states of A, B and D, and of P's upstream clients, are never pruned. This leaves
  more proofs to submit, so a safety result covers the pruned case; the liveness results do
  not rest on it, because the relayer they assume proves only at the latest height
  (section 3);
* P's own upstream clients are not upgraded or substituted in `ProxyKeeper` (`LightClients`
  has these steps for all kinds of client), so `MultiV` and `Tracks` are fixed per client;
* B and D are fixed in the runs in which they are not listed in `Producers`.

In `Relay` the packet handlers of A and B do demand their proofs.

## 3. Runs

| Run | Deployment | Distinct states | Shows |
|---|---|---|---|
| `connection` | A directly verified; B holds a sound proxy client and one created with a foreign prefix; two upstream clients of A; P keeps its last two headers | 27 617 | `TypeOK`, `MirrorSound`, `MutualTracking`, `ConnectionForwardOnly` over connection handshakes, also with crossing hellos |
| `both_side` | A reaches B through D, or through D and then E; P verifies A with multiv clients of depth 0 and 1; A's client of D may be substituted | 50 684 | the mirrored client is the one of B at the end of the walk, never the head or a branch, and stays the same client (`ClientMirrorStable`) |
| `self_proxy` | A reaches B through P itself, or by a direct client that it creates later and upgrades | 144 475 | `MutualTracking` when the downstream check reads P's own committed mirror |
| `channel` | as the first, with a connection A opened before | 7 618 | `ChannelBehindConnection`, `OpenEndsAgree` under stale messages and closing channels; `ImplementsMirror` |
| `packet` | the same, two packets, two contents, one acknowledgement content | 60 586 | `MirrorSound`, `PacketBehindChannel`, `PacketMirrorStable` |
| `connection_live` | a connection in INIT on A, two versions, one restart of P; A and B produce blocks, A follows B and B follows P | 9 233 | `ConnectionRecovered`, `ConnectionConfirmed`, `OpenedStaysLost` |
| `channel_live` | an opened connection, one packet | 15 578 | `ChannelConfirmed`, `PacketMirrored`, `AckMirrored` |
| `relay` | A, P and B, a packet each way, A's with a timeout; either end may close | 173 441 | both directions implement `PacketDelivery` |
| `light_client` | a multiv, a proxy and a bare client | 227 424 | the five properties of `LightClients` |
| `wire` | all 17 messages, whole, merged, extended, cut, and arbitrary short buffers | 153 910 | the five properties of `Wire` |
| `packet_open` | as `packet` | stops at the violation | the first finding of section 6 |
| `relay_timeout` | as `relay`, with a timeout on B's packet | stops at the violation | the second finding of section 6 |

Deadlock is checked in every run of `ProxyKeeper` and `Restart` and never reached: when the
height bounds are exhausted, messages can still be repeated. It is not checked in `relay`
and `light_client`, where time and heights run out, nor in `wire`, where a message ends its
way.

**Bounds.** `MaxHeight` bounds the blocks of A, B and D, `MaxBlocks` those of P,
`MaxSequence` the packets. With `MaxHeight = 4` a connection on A goes INIT, OPEN with a
block to spare between creation and each step, so proofs from before and after every step
coexist; with `MaxHeight = 6` and two blocks already used to open the connection a channel
goes INIT, OPEN, (packets) CLOSED, or INIT, TRYOPEN, OPEN, CLOSED. Two blocks of P are what
it takes for P to commit a mirror and to change it afterwards. Two packets and two contents
are what it takes to confuse packets. Two upstream clients are what it takes to mirror one
upstream twice. Only A's own identifiers are opened (`OwnConnectionIds`, `OwnChannelIds`);
the others occur as counterparties. No symmetry is used: the identifiers play different
roles. In `both_side`, A is the only producer; D starts with two blocks, the second with a
newer client state of B, and A's clients move from the first to the second, so heads and
leaves of different blocks meet.

`relay` has one packet in each direction (`MaxPackets = 2`), A's with timeout height 4 of
B's five: it can be received, time out, or be received late, while P is up to three blocks
behind. A second packet in a direction only adds independent keys (`packet` covers their
confusion). `MaxRestarts = 1`: a second restart starts from a state that the first can
reach. In `connection_live` the height bounds are such that they never stop the relayer:
beside the blocks it starts with, A needs one block per handshake step and one for a client
update, B one for a client update, and P one for its restart. `HistoricalEntries = 2` in
`connection` lets P forget headers that B still knows; elsewhere the window is wider than
the history. In `light_client` the trusting period is 2 and the upgrade comes after block 2 of 5,
so clients expire, are pruned, are substituted, and meet the upgrade both with and without a
newer header. In `wire`, `uint64` and `int` have 15 bits and `int32` and `uint32` 8 (64 and
32 in the build; 15 and 64 both leave one bit for the last group of a varint), so that
negative lengths and overflowing sums occur in buffers of four bytes. Every field has the
zero value, a short value and one whose length takes two varint bytes (an `Any` each of
three types); a message has one field, all, or all but one; two messages in one buffer give
the merges; buffers are cut at every byte up to `MaxCut = 24`, which is within or after a
tag, a length and a value of every kind of field, and by their last byte. Five unknown
fields, one per wire type, come before and after. The arbitrary buffers include groups that
never end.

**Fairness.** The proxy has no background work: everything that must happen eventually is
submitted by a relayer, so the liveness properties assume one (`Relayer!Fairness`), modelled
on `testing/proxy.go`. It updates the upstream client to the latest header, submits the
message that completes a handshake, and relays packets and acknowledgements. The chains,
other relayers and the block production of P have no fairness. Weak fairness is enough for
messages that stay valid until submitted. `RelayPacket` needs strong fairness: `RecvPacket`
compares the destination with the mirrored channel end, and anyone may replay a stale
`ChanOpenTry` that puts this end back to INIT with an empty counterparty; the relayer must
retry after the channel is confirmed again. A replayed message cannot starve it for ever,
which `PacketMirrored` shows. All its proofs are at the latest height that the client knows
(`ProofHeights`), so that it never rests on a height that may have been pruned.

`RestartSpec` asks the same of the relayer, and in addition that it updates the clients on A
and B to the latest header (`RelayPeerHeader`) and submits `ConnOpenTry` or `ConnOpenAck`
while the mirror lacks the connection (`RelayNewConnection`). A restart, P's blocks and the
handshake on A are not fair: they may never happen. Three properties say what this achieves.

* `ConnectionRecovered`: a connection that A has begun is mirrored in the end, before or
  after a restart, unless A opens it first.
* `ConnectionConfirmed`: a mirrored connection that A opens is confirmed in the end, unless
  a restart loses it. It excludes a mirror with other versions than the upstream's:
  `ConnOpenConfirm` cannot rebuild such an end, and `ConnOpenTry` refuses to take the mirror
  again, so a connection whose version the counterparty narrowed after the mirror was taken
  stays unconfirmed. The proxy has no message that would repair it.
* `OpenedStaysLost`: the other side of the exception of `ConnectionRecovered`. What A had
  opened before a restart is never mirrored again (section 6).

That `Unmarshal` ends is stated as the invariant `DecodeEnds` (its loop and the loop of
`skipTx` together run at most twice per byte) and needs no fairness.

## 4. Mutants

Beside a definition that models code there may be a variant, named after it, whose comment
says which slip it makes: a plausible one in that code (a dropped check, a forgotten field,
a wrong key). No specification uses them; replacing the original by the variant must violate
the property `PROJECT.json` pairs it with, which shows that the property depends on that
code.

## 5. Proofs

All theorems hold for every value of the constants that satisfies the named assumptions:
any number of chains, clients, heights, channels and packets, and multiv clients of depth 0
and 1. TLC evaluates the assumptions in every run.

* `ConstantsAssumption`, `VersionsAssumption`, `AbsentAssumption` (`ProxyTypes`) and
  `NoneAssumption` (`LightClients`): identifiers are well formed (the empty string is no
  identifier, the proxy is not its own counterparty), and `Absent` and `None` are no values.
* `InitLedgerAssumption` (`Chains`): the initial histories and the clients created later are
  typed. `HistoricalEntriesAssumption` (`ProxyKeeper`) and `RestartAssumption` (`Restart`):
  the window of headers and the number of restarts are natural numbers.
* `InitHistoryAssumption` (`Chains`): the initial histories are `LegalHistory`, that is, an
  open end changes only by closing, a client keeps its kind, chain and prefixes (through
  updates, upgrades and substitutions), a sequence is used for one packet, an
  acknowledgement stays, and a consensus state is of its client's chain. The blocks with which a run begins were written by the same ibc-go handlers as the
  later ones, and the first lemmas of `ChainHistoryProofs` prove that these handlers keep a
  history legal.
* `RelayAssumption`, `OpeningAssumption` (`Relay`): the state in which a relayer's handshake
  ends. The two ends are open, name each other, and rest on clients that follow the other
  chain (A's a Tendermint client of B, B's a proxy client of P's mirror of A) and have not
  been substituted; no packet was sent yet; the mirror agrees with A's block.

* `WidthAssumption` (`Protobuf`): a word has 7k + 1 bits, as 64 is; an `int32` has no more
  bits than a word and at least six, so that every field number is one (no message has more
  than 16 fields). `WireAssumption` (`Wire`): what is sent are messages of their Go types,
  with slices whose length is an `int`, whose embedded messages their own `Unmarshal` takes;
  buffers are bytes; and a newer sender's fields are encodings of one field, with a number
  that no message has.

The theorems, and the argument of each:

* `TypeCorrect` (`Spec => []TypeOK`). `TypeOK` is inductive. The part with content is that
  light clients know only heights that exist, and that ends rebuilt by the handlers are
  again connection and channel ends.
* `MirrorIsSound` (`Spec => []MirrorSound`), with `TypeOK`. Two facts carry it: `Attested`
  grows (histories are append-only and clients only learn heights, so whatever a client
  vouched for once it vouches for always), and every handler writes only values attested at
  its proof height. The first is one lemma for all steps; the second is one lemma per
  handler. Committing a block copies a sound store.
* `ConnectionsOnlyAdvance` (`Spec => ConnectionForwardOnly`). Per handler: the connection
  path it writes, if any, changes as `Advances` allows; all other connection paths stay.
* `ChannelsBehindConnections` and `PacketsBehindChannels`. The inductive invariant is
  `TypeOK` with both properties. Neither can be broken by a connection message because of
  `Advances`: an open connection stays as it is, and one that opens keeps its versions,
  which is why the ordering check made once stays true. Channel messages rewrite channel
  ends, also backwards, but never remove them, and check the connection again.
* `KeeperImplementsMirror` (`Spec => ImplementsMirror`). The mapping takes as known of a
  client every value attested at a height it holds. Initially nothing is known and the
  mirror is empty. A block of another chain or a header is `Learn`, because what is attested
  grows (`FactsGrow`, from the lemma behind `MirrorIsSound`); a message is `Adopt` below its
  upstream client, because what each handler writes is attested at its proof height;
  `Commit` is `Publish`. `TypeOK` is the only invariant needed.

* `OpenEndsAlwaysAgree` and `PacketMirrorIsStable` (`Spec => []OpenEndsAgree`,
  `Spec => PacketMirrorStable`). The inductive invariant `HistoryInv` is `TypeOK`,
  `MirrorSound` and `LegalHistories` (every chain's history is a `LegalHistory`). Two open
  ends in two views were each attested at some height of the same upstream history; the
  later of the two heights still has the end of the earlier one, because what is open only
  closes. The same holds for acknowledgements; for commitments, which A deletes, it is that
  a sequence is used once. `MirrorSound` alone does not give this: two sound values of
  different heights may differ.
* `ConnectionsTrackMutually` (`Spec => []MutualTracking`), with `HistoryInv /\
  MutualTracking` as the inductive invariant. When a connection is first mirrored, the
  downstream check finds a proxy client of P for this upstream client in a block of the
  chain at the other end. Afterwards `ClientState` may replace the mirrored client state by
  another attested one, `ConnOpenConfirm` and `ConnOpenFinalize` rebuild the end, chains and
  clients move on. The mirrored client remains the same client (`SameClient`, from
  `LegalHistories`, also through a multiv walk), the rebuilt end keeps its client and the
  counterparty's client, and what a client sees (`SeenClients`) only grows.
* `ClientMirrorIsStable` (`Spec => ClientMirrorStable`), from `HistoryInv`: two multiv walks
  from two heights meet the same client at every stage (`SitesSame`), so they end at two
  states of one client, in whatever order they are mirrored.
* `RelayImplementsForward` (`RelaySpec => ForwardDelivery`). The inductive invariant
  `RelayInv` says, besides the types: the chains keep the connections of the opening and
  their channel ends up to closing (`EndsKept`); clients only follow heights that exist
  (`ClientsKept`); every view of the proxy holds only packet state that some block of A
  committed (`MirrorCommitted`); commitments are those of the packets sent and are gone once
  the packet is resolved (`Sender`); a delivered packet has a receipt in every block since
  one that was in time and before closing (`Receiver`); what is delivered was sent
  (`AsSent`); and a packet that A timed out was not delivered and B can no longer receive it
  (`TimedOutExpired`). The last is what makes a timeout at A and a late receipt at B exclude
  each other although neither chain sees the other's present. TLC checked `RelayInv` on the
  instance of run `relay` before it was proved. Every step then maps to one of the abstract
  steps or a stutter (`ForwardStep`).
* `RelayImplementsBackward` (`NoBackwardTimeouts => (RelaySpec => BackwardDelivery)`), from
  the same invariant. The hypothesis says that B's packets carry no timeout. It holds in
  run `relay`; run `relay_timeout` drops it and shows the violation, so it cannot be left
  out (section 6). `DownstreamNeverTimesOut` is where it is used: B can time out neither by
  height, nor because A closed its end, which the mirror never shows.
* `LightClientsTypeCorrect`, `LatestIsUsable`, `ConsensusIsImmutable`,
  `HaltedClientsVouchForNothingNew`, `WrappersKept`, for the three kinds of client and any
  trusting period, upgrade height and time bound. The inductive invariant `LightClientsInv`
  adds to the types that an unsubstituted client holds a decodable state at its latest
  height, that no state is stored above the latest height, and that a substituted xx-proxy
  client holds a bare state at its latest height. The second is what keeps an update or
  upgrade from meeting a state it would replace, the third why such a client stays halted.

* `CodecNeverPanics` and `UnmarshalEnds` (`WireSpec /\ []BufferFits => []NeverPanics`,
  `... => []DecodeEnds`), for words of any width, all 17 messages with values of any size,
  any cut and any bytes. `BufferFits` says that the length of a buffer is an `int`, which Go
  guarantees of a slice and the model, where buffers are joined freely, does not. The
  inductive invariant `WireInv` says, besides the types: messages hold no more bytes than
  the decoder has passed (`MessagesFit`), so that they can be marshalled again; the runs of
  the two loops are paid for by the bytes they passed (`RunsPaid`); nothing panicked. That
  `Marshal` never writes more than `Size()` bytes is one lemma per message
  (`Sized<Message>`), put together from one lemma per kind of field. That a length read from
  the buffer never leaves its bounds is `ReadLengthTyped`: a negative or overflowing length
  is refused for every width of a word.
* `HandlersReadUnpacked` (`WireSpec => []HandlerReadsUnpacked`). The inductive invariant
  `CacheFilled` says what is cached after `UnpackInterfaces`; `ReadsAreUnpacked` compares,
  message by message, what handlers read with what is unpacked.

* `WholeBuffersRoundTrip` and `CutBuffersLoseWholeFields` (`WireSpec /\ []BufferFits =>
  []DecodedAsSent`, `... => []CutLosesWholeFields`), again for words of any width, all 17
  messages with values of any size, any batch of them joined in one buffer and merged by the
  decoder, and a second round of what was decoded. `Unmarshal` and `skipTx` are looked at as
  a decoder whose states are tuples (`Dec`, `Skp`) with a step relation (`Steps`):
  1. A varint that is written is read back (`ReadEncoded`, for every value of a word),
     hence so are tags, lengths and numbers, signed ones included.
  2. What `Marshal` writes is, for each of the messages, the pieces of its fields in the
     order of their numbers (`MarshalJoined`); a field that is absent writes nothing.
  3. Wherever a buffer holds such a piece, the decoder has a way (`Path`) to its end that
     merges the field and leaves the others alone (`FieldRead`); joined over the fields this
     is the message (`MessageRead`), over the messages the batch (`BatchRead`). A field
     unknown to the message is skipped by its runs of `skipTx` and changes nothing
     (`UnknownRead`).
  4. The decoder is deterministic (`StepsSame`), so the actions of `Wire` follow that way; a
     step depends only on the bytes up to where it ends (`StepsLocal`), so in a buffer that
     was cut they follow it as far as the bytes reach, and what they have merged by then are
     whole fields, or the first elements of a repeated one (`Arising`).

  The inductive invariant is `WireInv /\ RoundTrip`: the decoder is on its way through an
  encoding of what was sent, of which the buffer is a beginning, the whole if it is intact
  (`Reading`); when it has ended, the message is the meaning of what was sent, or on the way
  to it (`Ended`); and whatever was decoded can be marshalled and decoded again
  (`Resendable`), which is what makes the second round work.

What recursive functions compute is proved with two principles that `WireProofs` derives
from the well-foundedness of the natural numbers, stated with sets instead of predicates
(`SetInduction`, `SetRecursion`).

Only model-checked:

* the liveness properties (`ConnectionRecovered`, `ConnectionConfirmed`,
  `ChannelConfirmed`, `PacketMirrored`, `AckMirrored`): fairness is out of the prover's
  reach;
* `OpenedStaysLost`, about `RestartSpec`.

Every other property that a passing run checks is a theorem. The theorems about
`ProxyKeeper` are about its `Spec`, without restarts.

## 6. Findings

**Packets below ends that are not open.** `RecvPacket` and `AcknowledgePacket` carry the
comment (`modules/proxy/keeper/packet.go:40-42`, `81-83`) "to receive a packet, connection
and channel must both be open". The code looks both up and checks that they exist, not their
states. Run `packet_open` shows a commitment of a packet, sent by A from a TRYOPEN end,
mirrored below a TRYOPEN end. What holds instead is `PacketBehindChannel`. The mirror
remains sound: the commitment is one that A really stored.

**Timeouts through the proxy.** The README describes the proxy client as a replacement for a
client of the upstream ("The `downstream` chain uses a `Proxy Client` to verifies the
commitment instead of verifying the `upstream` chain's directly", `README.md:30`) and the
proxy's commitments as "mapped one-to-one to various status indicators [...] as in IBC"
(`README.md:68`). No message mirrors receipts, so `VerifyPacketReceiptAbsence` of a proxy
client (`modules/light-clients/xx-proxy/types/client_state.go:150`) succeeds at every height
of P, and ibc-go compares the packet's timeout with P's height. Run `relay_timeout` shows B
timing out a packet that A has received. Packets from A to B, and packets from B without a
timeout, are not affected (`relay`).

**Restarts.** An observation rather than a finding, since no document says otherwise: a
connection that A had opened when P was restarted from an exported genesis is lost for good
(`OpenedStaysLost`). The messages that take over a connection need a block of A in which it
is in INIT or TRYOPEN; in such a block A knows only blocks of B from before the restart, and
these only headers of P that the restarted P no longer keeps. `ConnOpenConfirm` and
`ConnOpenFinalize` need the mirror that was lost. Connections that A has not opened yet are
recovered (`ConnectionRecovered`).

## 7. Not modelled

* `VerifyAndProxyPacketReceiptAbsence`, `VerifyAndProxyNextSequenceRecv` and their setters
  (`keeper/proxy.go:308-422`, `keeper/commitment.go:157-183`): no message calls them.
  Ordered channels in `Relay` need the second and are left out with it.
* multiv lookups with two or more branches. An upstream client on P that is itself a proxy
  client (a chain of proxies mirroring one another's mirrors), a multiv leaf in P's own IBC
  store, and a downstream client of another proxy's mirror.
* `ZeroCustomFields` and the metadata export of the wrapped clients, plain delegations.
  Exports at zero height.
* Pruning of consensus states on A, B and D and of P's upstream clients in `ProxyKeeper`,
  and upgrades and substitutions of P's own upstream clients there (`LightClients` has
  both); see "What is abstracted".
* The key layout as bytes: paths are tuples, so that different paths have different keys is
  assumed.
* Empty messages (responses, `Params`, `GenesisState`), descriptors, reflection and gRPC
  stubs of the generated code; the simulation application and the command line.

## 8. Plan

1. (done) `ProxyTypes`, `Chains`, `ProxyKeeper`, `Relayer`, their runs and first theorems.
2. (done) `VerifiedMirror` and the refinement, as a run and as a theorem; multiv depth 1.
3. (done) `Relay` and `PacketDelivery`; `Restart`; `LightClients`.
4. (done) the codecs: `Protobuf`, `TxMessages`, `LightClientMessages`, `Wire`.
5. (done) Proofs of `MutualTracking`, `OpenEndsAgree` and `PacketMirrorStable` with the
   history invariants of `Chains` they need.
6. (done) Proofs of `LightClients`, and of the refinements of `PacketDelivery`.
7. (done) The step invariants of `Wire`: that `Unmarshal` neither panics nor runs longer
   than its buffer; and the round trip, that a whole buffer is decoded to what was sent and
   a cut one loses whole fields.
8. (done) Clients of the other chains that are created later, upgraded and substituted; the
   window of headers that P keeps, and its loss in a restart.
9. Key layout: that the keys the keeper writes are those the proxy client reads, and are
   injective over prefixes, upstream clients and paths.
