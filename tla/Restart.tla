------------------------------ MODULE Restart -------------------------------
(***************************************************************************)
(* The proxy chain restarted from an exported genesis.  The IBC module's   *)
(* genesis holds the light clients with their consensus states, and the    *)
(* chain goes on at the next height under the same name.  The genesis of   *)
(* the proxy module is empty and that of the staking module has no         *)
(* historical headers: the mirror is lost, and so is the chain's knowledge *)
(* of its own earlier consensus states, while upstream and downstream are  *)
(* where they were.  To mirror a connection again, the downstream has to   *)
(* learn a header of the restarted chain, the upstream a header of that    *)
(* downstream, and the proxy a header of that upstream.                    *)
(***************************************************************************)
EXTENDS Relayer

CONSTANT MaxRestarts   \* bound on the restarts

ASSUME RestartAssumption == MaxRestarts \in Nat

VARIABLES
  restarts,   \* the number of restarts
  opened      \* <<upstream client, connection>> that were open on the upstream at one

restartVars == <<vars, restarts, opened>>
restartHistory == <<restarts, opened>>

\* ExportGenesis: the genesis of the proxy module, for a given mirror.
ExportGenesis(mirror) == [u \in UpstreamClients |-> EmptyStore]

\* InitGenesis with what ExportGenesis returned; the first block of the restarted chain
\* commits it, and is the first whose header the staking module keeps.
RestartChain ==
  /\ restarts < MaxRestarts
  /\ Len(blocks) < MaxBlocks
  /\ restarts' = restarts + 1
  /\ opened' = opened \cup
       {c \in UpstreamClients \X ConnectionIds :
          In(Upstream(c[1], ConnectionPath(c[2])), "OPEN")}
  /\ proxy' = ExportGenesis(proxy)
  /\ blocks' = Append(blocks, proxy')
  /\ headers' = TrackHistoricalInfo({Len(blocks')}, Len(blocks'))
  /\ UNCHANGED <<ledger, consensus>>

\* UpdateClient on the upstream or the downstream, with the latest header of the chain
\* that the client follows.
RelayPeerHeader(c, id) ==
  LET cs == Latest(c)[ClientPath(id)] IN
  /\ cs # Absent
  /\ ChainUpdateClient(c, id, HeightOf(cs.chain))
  /\ UNCHANGED <<blocks, consensus, proxy, headers>>

\* ProxyConnectionOpenTry or ProxyConnectionOpenAck, with the latest consensus states of
\* upstream and downstream, and one of the proxy that both it and the downstream know.
RelayNewConnection(u, id) ==
  \E h \in ProofHeights(u), hc \in Height, hp \in headers :
    LET end == ledger[Tracks[u]][h][ConnectionPath(id)] IN
    /\ end # Absent
    /\ hc = ledger[Tracks[u]][h][ClientPath(end.clientId)].latest
    /\ \/ Submit(ConnOpenTry(u, id, h, hc, hp))
       \/ Submit(ConnOpenAck(u, id, h, hc, hp))

RestartInit == Init /\ restarts = 0 /\ opened = {}

RestartNext == (Next /\ UNCHANGED restartHistory) \/ RestartChain

\* A restart may never happen, so it is not fair, and neither are the blocks of the proxy
\* and the handshake of the upstream.  The relayer is as in Relayer; it also updates the
\* clients of upstream and downstream and repeats the first message of a connection.
RestartSpec ==
  /\ RestartInit /\ [][RestartNext]_restartVars
  /\ \A c \in Producers, id \in ClientIds :
       WF_restartVars(RelayPeerHeader(c, id) /\ UNCHANGED restartHistory)
  /\ \A u \in UpstreamClients :
       /\ WF_restartVars(RelayHeader(u) /\ UNCHANGED restartHistory)
       /\ \A id \in ConnectionIds :
            /\ WF_restartVars(RelayNewConnection(u, id) /\ UNCHANGED restartHistory)
            /\ WF_restartVars(RelayConnection(u, id) /\ UNCHANGED restartHistory)

-----------------------------------------------------------------------------
\* A connection whose handshake the upstream has begun is mirrored in the end, also when a
\* restart has lost the mirror and the chain's own headers, unless the upstream opens it
\* first.
ConnectionRecovered ==
  \A u \in UpstreamClients, id \in ConnectionIds :
    LET end == Upstream(u, ConnectionPath(id)) IN
    In(end, "INIT") \/ In(end, "TRYOPEN")
    ~> GetProxyConnection(u, id) # Absent \/ In(end, "OPEN")

\* A connection that is mirrored before it is open, and that the upstream opens with the
\* versions it was mirrored with, is open on the proxy in the end, unless a restart loses
\* the mirror: the end that ConnOpenConfirm or ConnOpenFinalize rebuilds from the mirrored
\* one is the upstream's, whichever way the upstream took to OPEN.
ConnectionConfirmed ==
  \A u \in UpstreamClients, id \in ConnectionIds :
    LET mirror == GetProxyConnection(u, id)
        end == Upstream(u, ConnectionPath(id)) IN
    mirror # Absent /\ In(end, "OPEN") /\ end.versions = mirror.versions
    ~> mirror = Absent \/ mirror.state = "OPEN"

\* A connection that the upstream had opened when the proxy chain was restarted is never
\* mirrored again, however clients are updated afterwards: the blocks of the upstream that
\* still show it in INIT or TRYOPEN lead to blocks of the downstream that know no header
\* of the restarted chain.
OpenedStaysLost ==
  \A c \in opened : GetProxyConnection(c[1], c[2]) = Absent
=============================================================================
