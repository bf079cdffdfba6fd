------------------------------ MODULE MCRelay -------------------------------
(***************************************************************************)
(* Instances of Relay for TLC: upstream A, downstream B and proxy P after  *)
(* the handshakes, with connection c0-c1 and channel ch0-ch1 open at both  *)
(* ends and mirrored on P.                                                 *)
(***************************************************************************)
EXTENDS Relay, TLC

CONSTANTS pa, pb   \* the payloads of A and of B

TracksA == [u \in UpstreamClients |-> "A"]
NoBranches == [u \in MultiV |-> 0]
NoneOpens == [c \in Counterparties |-> {}]

EndOfConnection(client, cpClient, cpConn) ==
  [state |-> "OPEN", clientId |-> client, versions |-> Versions,
   counterparty |-> [clientId |-> cpClient, connectionId |-> cpConn]]

EndOfChannel(hop, cpChan) ==
  [state |-> "OPEN", ordering |-> "UNORDERED", hop |-> hop,
   counterparty |-> [portId |-> "transfer", channelId |-> cpChan]]

StoreA == [EmptyStore EXCEPT
  ![ClientPath("toB")] = [kind |-> "tm", multiv |-> TRUE, chain |-> "B", latest |-> 1],
  ![ConsensusPath("toB", 1)] = [kind |-> "tm", chain |-> "B", height |-> 1],
  ![ConnectionPath("c0")] = EndOfConnection("toB", "toP", "c1"),
  ![ChannelPath("transfer", "ch0")] = EndOfChannel("c0", "ch1")]

StoreB == [EmptyStore EXCEPT
  ![ClientPath("toP")] =
     [kind |-> "proxy", multiv |-> FALSE, chain |-> "P", latest |-> 1,
      upstreamClientId |-> "u1", ibcPrefix |-> "ibc", proxyPrefix |-> "proxy"],
  ![ConsensusPath("toP", 1)] = [kind |-> "proxy", chain |-> "P", height |-> 1],
  ![ConnectionPath("c1")] = EndOfConnection("toP", "toB", "c0"),
  ![ChannelPath("transfer", "ch1")] = EndOfChannel("c1", "ch0")]

OpenLedger == "A" :> <<StoreA>> @@ "B" :> <<StoreB>>
OpenMirror == "u1" :> StoreA

\* A's packet times out at height 4 of B.  B's packets never do, or time out at height 4
\* of A.
Sends == "A" :> {pa} @@ "B" :> {pb}
ForwardTimeout == pa :> 4 @@ pb :> 0
BackwardTimeout == pa :> 0 @@ pb :> 4
=============================================================================
