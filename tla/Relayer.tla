------------------------------ MODULE Relayer -------------------------------
(***************************************************************************)
(* The progress that the proxy owes a relayer.  The messages are those of  *)
(* ProxyKeeper, from anyone, stale and repeated ones included; fairness is *)
(* asked only of one relayer that works like testing/proxy.go: it keeps    *)
(* the upstream client at the latest header and submits the message that   *)
(* completes a handshake or carries a packet, always with proofs at the    *)
(* latest height the client knows.  Progress so never rests on an older    *)
(* height, which the client may have pruned.                               *)
(***************************************************************************)
EXTENDS ProxyKeeper, FiniteSetsExt

Submit(A) == A /\ UNCHANGED <<ledger, blocks, consensus, headers>>

\* The height of the relayer's proofs: the latest that upstream client u knows.
ProofHeights(u) == IF consensus[u] = {} THEN {} ELSE {Max(consensus[u])}

\* UpdateClient with the latest header of the upstream.
RelayHeader(u) == UpdateClient(u, Len(ledger[Tracks[u]]))

\* ProxyConnectionOpenConfirm or ProxyConnectionOpenFinalize, with the counterparty
\* connection found there.
RelayConnection(u, id) ==
  \E h \in ProofHeights(u) :
    \/ \E cpConn \in ConnectionIds : Submit(ConnOpenConfirm(u, id, cpConn, h))
    \/ Submit(ConnOpenFinalize(u, id, h))

\* ProxyChannelOpenConfirm or ProxyChannelOpenFinalize.
RelayChannel(u, port, chan) ==
  \E h \in ProofHeights(u) :
    \/ \E cpChan \in ChannelIds : Submit(ChanOpenConfirm(u, port, chan, cpChan, h))
    \/ Submit(ChanOpenFinalize(u, port, chan, h))

\* ProxyRecvPacket for the packet as it was sent: its destination is the counterparty of
\* the upstream's channel end, not what the proxy has mirrored of it.
RelayPacket(u, port, chan, seq) ==
  \E h \in ProofHeights(u), payload \in Payloads :
    LET end == ledger[Tracks[u]][h][ChannelPath(port, chan)] IN
    /\ end # Absent
    /\ end.counterparty.channelId # ""
    /\ Submit(RecvPacket(u,
         [sourcePort |-> port, sourceChannel |-> chan, sequence |-> seq,
          destPort |-> end.counterparty.portId,
          destChannel |-> end.counterparty.channelId, payload |-> payload], h))

\* ProxyAcknowledgePacket.
RelayAck(u, port, chan, seq) ==
  \E h \in ProofHeights(u), ack \in Acks :
    Submit(AcknowledgePacket(u, port, chan, seq, ack, h))

\* Weak fairness is enough where a message stays valid until somebody submits it.  A
\* packet message is refused while a replayed ChanOpenTry has put the mirrored channel
\* end back to INIT, so the relayer must go on retrying it: strong fairness.
Fairness ==
  \A u \in UpstreamClients :
    /\ WF_vars(RelayHeader(u))
    /\ \A id \in ConnectionIds : WF_vars(RelayConnection(u, id))
    /\ \A port \in PortIds, chan \in ChannelIds :
         /\ WF_vars(RelayChannel(u, port, chan))
         /\ \A seq \in Sequence :
              /\ SF_vars(RelayPacket(u, port, chan, seq))
              /\ WF_vars(RelayAck(u, port, chan, seq))

FairSpec == Spec /\ Fairness

-----------------------------------------------------------------------------
Upstream(u, p) == Latest(Tracks[u])[p]

\* A connection or channel end exists and is in the given state.
In(end, state) == end # Absent /\ end.state = state

\* A mirrored channel end over an open mirrored connection opens on the proxy once the
\* upstream has opened it, unless the upstream closes it first; stale ChanOpenTry and
\* ChanOpenAck messages that keep taking the mirror back cannot prevent it.
ChannelConfirmed ==
  \A u \in UpstreamClients, port \in PortIds, chan \in ChannelIds :
    LET mirror == GetProxyChannel(u, port, chan)
        end == Upstream(u, ChannelPath(port, chan)) IN
    /\ mirror # Absent /\ In(end, "OPEN")
    /\ ConnectionOpen(GetProxyConnection(u, mirror.hop))
    ~> In(mirror, "OPEN") \/ In(end, "CLOSED")

\* A packet commitment on a channel that is mirrored over an open mirrored connection,
\* and that the upstream has opened, reaches the proxy unless the upstream deletes the
\* commitment or closes the channel first.
PacketMirrored ==
  \A u \in UpstreamClients, port \in PortIds, chan \in ChannelIds, seq \in Sequence :
    LET channel == GetProxyChannel(u, port, chan)
        end == Upstream(u, ChannelPath(port, chan))
        p == CommitmentPath(port, chan, seq) IN
    /\ channel # Absent /\ In(end, "OPEN")
    /\ ConnectionOpen(GetProxyConnection(u, channel.hop))
    /\ Upstream(u, p) # Absent
    ~> proxy[u][p] # Absent \/ Upstream(u, p) = Absent \/ In(end, "CLOSED")

\* An acknowledgement written on a mirrored channel reaches the proxy.
AckMirrored ==
  \A u \in UpstreamClients, port \in PortIds, chan \in ChannelIds, seq \in Sequence :
    LET p == AckPath(port, chan, seq) IN
    GetProxyChannel(u, port, chan) # Absent /\ Upstream(u, p) # Absent
    ~> proxy[u][p] # Absent
=============================================================================
