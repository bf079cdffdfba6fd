---------------------------- MODULE LightClients ----------------------------
(***************************************************************************)
(* The life of the light clients of one chain: creation, headers,          *)
(* misbehaviour, expiry, substitution by governance and upgrade.  xx-multiv*)
(* and xx-proxy wrap another client and hand every operation on to it; at  *)
(* the bottom is a Tendermint client, and around them the client keeper,   *)
(* both of ibc-go (external to src/).  An operation that returns an error  *)
(* or panics changes nothing and is a disabled action.                     *)
(*                                                                         *)
(* Time is counted in blocks of the chain that the clients follow: block h *)
(* has time h.  A fork is a second block that the validators signed at a   *)
(* height.                                                                 *)
(***************************************************************************)
EXTENDS Integers

CONSTANTS
  Clients,         \* client identifiers
  Multiv,          \* the clients created as xx-multiv
  Proxied,         \* the clients created as xx-proxy (below xx-multiv if they are both)
  TrustingPeriod,
  UpgradeHeight,   \* the last block before the followed chain upgrades
  MaxTime,         \* bound on time and on heights
  None             \* no client, no consensus state

ASSUME LightClientsAssumption ==
  /\ Multiv \subseteq Clients /\ Proxied \subseteq Clients
  /\ TrustingPeriod \in Nat \ {0}
  /\ MaxTime \in Nat /\ UpgradeHeight \in 1..(MaxTime - 1)

VARIABLES
  now,         \* the time, and the height of the followed chain
  client,      \* client -> client state
  cons,        \* client -> height -> consensus state
  origin,      \* client -> the height it was created at
  substituted  \* the clients that governance has substituted

clientVars == <<now, client, cons, origin, substituted>>

Heights == 1..MaxTime

\* No block has this height: it is that of the state committed for the upgrade.
SentinelHeight == UpgradeHeight + 1

Roots == {"block", "fork", "sentinel"}

ClientStates == [multiv: BOOLEAN, proxy: BOOLEAN, latest: Heights, frozen: BOOLEAN]

\* metadata: the processed time and height that packet proofs ask for.
ConsensusStates == [kind: {"tm", "proxy"}, root: Roots, metadata: BOOLEAN]

ASSUME NoneAssumption == None \notin ClientStates /\ None \notin ConsensusStates

-----------------------------------------------------------------------------
(* What the Tendermint client reads.                                       *)

\* The consensus state decodes as the type that the reader expects.  Through
\* proxyExtractorStore the reader takes the inner state out of an xx-proxy one.
Decodes(state, extractor) ==
  state # None /\ state.kind = (IF extractor THEN "proxy" ELSE "tm")

Expired(h) == now >= h + TrustingPeriod

\* Tendermint's Status, with or without the extractor.
TMStatus(cs, states, extractor) ==
  IF cs.frozen THEN "Frozen"
  ELSE IF ~ Decodes(states[cs.latest], extractor) THEN "Unknown"
  ELSE IF Expired(cs.latest) THEN "Expired"
  ELSE "Active"

\* Mutant: a frozen client is reported as active.
StatusNeverFrozen(cs, states) == TMStatus([cs EXCEPT !.frozen = FALSE], states, cs.proxy)

\* Status: both wrappers delegate it, xx-proxy with the extractor.
Status(cs, states) == TMStatus(cs, states, cs.proxy)

StatusOf(id) == Status(client[id], cons[id])

\* The kind of the consensus states that client cs stores.
KindOf(cs) == IF cs.proxy THEN "proxy" ELSE "tm"

\* The heights at which the Verify functions accept proofs, with the root they check
\* against.  No Status is asked for.
Verifiable(id) ==
  IF client[id] = None THEN {}
  ELSE {<<h, cons[id][h].root>> :
          h \in {g \in 1..client[id].latest :
                   /\ Decodes(cons[id][g], client[id].proxy)
                   /\ cons[id][g].root # "sentinel"}}

-----------------------------------------------------------------------------
(* Operations.                                                             *)

\* Initialize: the wrappers check that their fields are there and do not initialize the
\* inner client, which would store the metadata of the first height.
Initialize(id, h) ==
  /\ client' = [client EXCEPT ![id] =
       [multiv |-> id \in Multiv, proxy |-> id \in Proxied, latest |-> h,
        frozen |-> FALSE]]
  /\ cons' = [cons EXCEPT ![id][h] =
       [kind |-> IF id \in Proxied THEN "proxy" ELSE "tm", root |-> "block",
        metadata |-> id \notin Multiv \cup Proxied]]

\* MsgCreateClient with a header of the chain.
CreateClient(id, h) ==
  /\ client[id] = None
  /\ h \in 1..now /\ h # SentinelHeight
  /\ Initialize(id, h)
  /\ origin' = [origin EXCEPT ![id] = h]
  /\ UNCHANGED <<now, substituted>>

\* A header of height h is valid from trusted height t, read with or without the
\* extractor: within the trusting period and in the same revision of the chain.
ValidHeader(id, h, t, extractor) ==
  /\ h \in 1..now /\ h # SentinelHeight
  /\ t < h
  /\ (t <= UpgradeHeight) <=> (h <= UpgradeHeight)
  /\ Decodes(cons[id][t], extractor)
  /\ ~ Expired(t)

\* The first height with metadata, if it is expired: an update removes it.
Pruned(id) ==
  {h \in Heights :
     /\ cons[id][h] # None /\ cons[id][h].metadata
     /\ \A g \in 1..(h - 1) : cons[id][g] = None \/ ~ cons[id][g].metadata
     /\ Expired(h)}

\* Mutant: xx-proxy returns the inner consensus state without its wrapper.
AcceptUnwrapped(id, h, root) ==
  /\ client' = [client EXCEPT ![id].latest = IF h > @ THEN h ELSE @]
  /\ cons' = [cons EXCEPT ![id] =
       [g \in Heights |->
          IF g = h THEN [kind |-> "tm", root |-> root, metadata |-> TRUE]
          ELSE IF g \in Pruned(id) THEN None ELSE @[g]]]

\* Mutant: the latest height is one too high.
AcceptNextHeight(id, h, root) ==
  /\ client' = [client EXCEPT ![id].latest = IF h >= @ THEN h + 1 ELSE @]
  /\ cons' = [cons EXCEPT ![id] =
       [g \in Heights |->
          IF g = h THEN [kind |-> KindOf(client[id]), root |-> root, metadata |-> TRUE]
          ELSE IF g \in Pruned(id) THEN None ELSE @[g]]]

\* A new header: the client state and the consensus state are packed into the wrappers
\* again.
Accept(id, h, root) ==
  /\ client' = [client EXCEPT ![id].latest = IF h > @ THEN h ELSE @]
  /\ cons' = [cons EXCEPT ![id] =
       [g \in Heights |->
          IF g = h THEN [kind |-> KindOf(client[id]), root |-> root, metadata |-> TRUE]
          ELSE IF g \in Pruned(id) THEN None ELSE @[g]]]

\* The client is frozen and keeps its consensus states.
Freeze(id) ==
  /\ client' = [client EXCEPT ![id].frozen = TRUE]
  /\ UNCHANGED cons

\* A header that contradicts a held one freezes the client.  The keeper, which does not
\* know the reason, stores the new consensus state unless the new client state says that
\* it is frozen.
Contradict(id, h, root) ==
  IF Status([client[id] EXCEPT !.frozen = TRUE], cons[id]) = "Frozen"
    THEN Freeze(id)
    ELSE /\ client' = [client EXCEPT ![id].frozen = TRUE]
         /\ cons' = [cons EXCEPT ![id][h].root = root]

\* MsgUpdateClient.  CheckHeaderAndUpdateState of a wrapper calls the inner client's,
\* xx-proxy's with the extractor.  A header that the client holds already changes
\* nothing, and one that contradicts what it holds freezes it.
UpdateClient(id, h, root, t) ==
  /\ client[id] # None
  /\ StatusOf(id) = "Active"
  /\ LET held == cons[id][h] IN
       \/ held = None /\ ValidHeader(id, h, t, client[id].proxy) /\ Accept(id, h, root)
       \/ /\ Decodes(held, client[id].proxy)
          /\ held.root # root
          /\ ValidHeader(id, h, t, client[id].proxy)
          /\ Contradict(id, h, root)
  /\ UNCHANGED <<now, origin, substituted>>

\* MsgSubmitMisbehaviour with the block and the fork of height h.  xx-proxy does not pass
\* its extractor on, so the inner client cannot decode the trusted states of a proxy
\* client.
SubmitMisbehaviour(id, h, t) ==
  /\ client[id] # None
  /\ StatusOf(id) = "Active"
  /\ ValidHeader(id, h, t, FALSE)
  /\ Freeze(id)
  /\ UNCHANGED <<now, origin, substituted>>

\* CheckSubstituteAndUpdateState of the inner client, which neither wrapper gives an
\* extractor: it must see itself frozen or expired.
SubstituteAllowed(id) == TMStatus(client[id], cons[id], FALSE) \in {"Frozen", "Expired"}

\* Mutant: the client state of the substitute replaces the wrapped one.
SubstituteStateUnwrapped(id, by) == client[by]

\* The inner client state after a substitution, in the subject's wrappers.
SubstituteState(id, by) == [client[id] EXCEPT !.frozen = FALSE, !.latest = client[by].latest]

\* A governance proposal to let the state of client `by`, a bare Tendermint client (the
\* inner client accepts no other), replace that of a client that is not active.  The
\* consensus state is copied as it is.
ClientUpdateProposal(id, by) ==
  /\ client[id] # None /\ client[by] # None
  /\ StatusOf(id) \notin {"Active", "Unknown"}
  /\ StatusOf(by) = "Active"
  /\ client[id].latest < client[by].latest
  /\ ~ client[by].multiv /\ ~ client[by].proxy
  /\ cons[by][client[by].latest].metadata
  /\ SubstituteAllowed(id)
  /\ client' = [client EXCEPT ![id] = SubstituteState(id, by)]
  /\ cons' = [cons EXCEPT ![id][client[by].latest] = cons[by][client[by].latest]]
  /\ substituted' = substituted \cup {id}
  /\ UNCHANGED <<now, origin>>

\* MsgUpgradeClient, from the last block before the upgrade: the wrappers return what the
\* inner client returns, a Tendermint client; xx-proxy passes no extractor.
UpgradeClient(id) ==
  /\ client[id] # None
  /\ StatusOf(id) = "Active"
  /\ client[id].latest = UpgradeHeight
  /\ Decodes(cons[id][UpgradeHeight], FALSE)
  /\ client' = [client EXCEPT ![id] =
       [multiv |-> FALSE, proxy |-> FALSE, latest |-> SentinelHeight, frozen |-> FALSE]]
  /\ cons' = [cons EXCEPT ![id][SentinelHeight] =
       [kind |-> "tm", root |-> "sentinel", metadata |-> TRUE]]
  /\ UNCHANGED <<now, origin, substituted>>

Tick ==
  /\ now < MaxTime
  /\ now' = now + 1
  /\ UNCHANGED <<client, cons, origin, substituted>>

-----------------------------------------------------------------------------
LightClientsInit ==
  /\ now = 1
  /\ client = [id \in Clients |-> None]
  /\ cons = [id \in Clients |-> [h \in Heights |-> None]]
  /\ origin = [id \in Clients |-> 0]
  /\ substituted = {}

LightClientsNext ==
  \/ Tick
  \/ \E id \in Clients :
       \/ \E h \in Heights : CreateClient(id, h)
       \/ \E h, t \in Heights, root \in {"block", "fork"} : UpdateClient(id, h, root, t)
       \/ \E h, t \in Heights : SubmitMisbehaviour(id, h, t)
       \/ \E by \in Clients : ClientUpdateProposal(id, by)
       \/ UpgradeClient(id)

LightClientsSpec == LightClientsInit /\ [][LightClientsNext]_clientVars

-----------------------------------------------------------------------------
(* Properties.                                                             *)

\* Type correctness of the clients and their consensus states.
LightClientsTypeOK ==
  /\ now \in Heights
  /\ client \in [Clients -> ClientStates \cup {None}]
  /\ cons \in [Clients -> [Heights -> ConsensusStates \cup {None}]]
  /\ origin \in [Clients -> 0..MaxTime]
  /\ substituted \subseteq Clients

\* Unless it was substituted, a client can decode the consensus state of its latest
\* height, and once that is not the height it was created at, check packet proofs there:
\* update, freezing, pruning and upgrade keep client state and consensus states in step,
\* also when an upgrade drops the wrapper.  (A substituted xx-proxy client holds a bare
\* Tendermint state at its latest height, on which proxyExtractorStore panics.)
LatestUsable ==
  \A id \in Clients \ substituted :
    client[id] # None =>
      LET state == cons[id][client[id].latest] IN
      /\ Decodes(state, client[id].proxy)
      /\ client[id].latest # origin[id] => state.metadata

\* A consensus state, once stored, is never replaced by another block or by another
\* encoding, whatever headers come later: it can only expire and be pruned.  A header
\* that contradicts it freezes the client instead, through either wrapper.
ConsensusImmutable ==
  [][\A id \in Clients, h \in Heights :
       cons[id][h] # None =>
         \/ cons'[id][h] = cons[id][h]
         \/ cons'[id][h] = None /\ Expired(h)]_clientVars

\* Frozen, expired, or an xx-proxy client after a substitution.
Halted(id) ==
  /\ client[id] # None
  /\ \/ client[id].frozen
     \/ Expired(client[id].latest)
     \/ client[id].proxy /\ id \in substituted

\* The proxy keeper verifies with the upstream client's states without asking for its
\* Status.  A client that is frozen or expired vouches for nothing that it did not vouch
\* for before, until it is substituted, and an xx-proxy client not even then.
HaltedVouchesNothingNew ==
  [][\A id \in Clients :
       Halted(id) =>
         \/ Verifiable(id)' \subseteq Verifiable(id)
         \/ id \in substituted' /\ ~ client[id].proxy]_clientVars

\* A client keeps its wrappers through updates, misbehaviour and substitution.  Only the
\* upgrade of the followed chain drops the multiv wrapper, and an xx-proxy client never
\* becomes anything else.
WrapperKept ==
  [][\A id \in Clients :
       client[id] # None =>
         /\ client'[id].proxy = client[id].proxy
         /\ \/ client'[id].multiv = client[id].multiv
            \/ client[id].latest = UpgradeHeight /\ client'[id].latest = SentinelHeight
         ]_clientVars
=============================================================================
