--------------------------- MODULE MCProxyKeeper ----------------------------
(***************************************************************************)
(* Instances of ProxyKeeper for TLC.  Chain A is the upstream, B the       *)
(* downstream, P the proxy chain and D another proxy.                      *)
(***************************************************************************)
EXTENDS Relayer, MirrorRefinement, TLC

TMClientOf(c, mv) == [kind |-> "tm", multiv |-> mv, chain |-> c, latest |-> 1]

ProxyClientOf(c, up, prefix) ==
  [kind |-> "proxy", multiv |-> FALSE, chain |-> c, latest |-> 1,
   upstreamClientId |-> up, ibcPrefix |-> "ibc", proxyPrefix |-> prefix]

NoBranches == [u \in MultiV |-> 0]

NoneOpens == [c \in Counterparties |-> {}]
OnlyAOpens == [c \in Counterparties |-> IF c = "A" THEN {"c0"} ELSE {}]

\* The store of a chain that has created the given clients at height 1.
WithClients(clients) ==
  [p \in Path |->
     IF p[1] = "clientState" /\ p[2] \in DOMAIN clients THEN clients[p[2]]
     ELSE IF p[1] = "consensusState" /\ p[2][1] \in DOMAIN clients /\ p[2][2] = 1
       THEN [kind |-> clients[p[2][1]].kind, chain |-> clients[p[2][1]].chain,
             height |-> 1]
     ELSE Absent]

-----------------------------------------------------------------------------
(* TestOneSideProxy: A verifies B directly with a multiv client; B holds a *)
(* client of P for u1 and one that was created with a foreign prefix.      *)

AllTrackA == [u \in UpstreamClients |-> "A"]

OneSideA == WithClients("toB" :> TMClientOf("B", TRUE))
OneSideB == WithClients("sound" :> ProxyClientOf("P", "u1", "proxy")
                          @@ "foreign" :> ProxyClientOf("P", "u2", "other"))

OneSideLedger == "A" :> <<OneSideA>> @@ "B" :> <<OneSideB>>

-----------------------------------------------------------------------------
(* TestBothSideProxy: A reaches B through proxy D, and P verifies A with a *)
(* multiv client that follows A's client to D (u1).  For u2, of depth 1,   *)
(* A reaches B through D and then E.  D has updated its client of B since. *)

OneBranch == "u1" :> 0 @@ "u2" :> 1

BothSideB == WithClients("sound" :> ProxyClientOf("P", "u1", "proxy")
                           @@ "other" :> ProxyClientOf("P", "u2", "proxy"))
BothSideD == WithClients("dB" :> TMClientOf("B", TRUE)
                           @@ "dE" :> ProxyClientOf("E", "eB", "proxy"))

BothSideLedger ==
  "A" :> <<WithClients("viaD" :> ProxyClientOf("D", "dB", "proxy")
                         @@ "viaE" :> ProxyClientOf("D", "dE", "proxy"))>>
    @@ "B" :> <<BothSideB, BothSideB>>
    @@ "D" :> <<BothSideD,
                [BothSideD EXCEPT ![ClientPath("dB")].latest = 2,
                   ![ConsensusPath("dB", 2)] =
                      [kind |-> "tm", chain |-> "B", height |-> 2]]>>
    @@ "E" :> <<WithClients("eB" :> TMClientOf("B", TRUE))>>

-----------------------------------------------------------------------------
(* A reaches B through P as well: P mirrors B below w, and reads its own   *)
(* mirror when it checks the downstream.                                   *)

SelfTracks == "u1" :> "A" @@ "w" :> "B"

SelfLedger ==
  "A" :> <<WithClients("viaP" :> ProxyClientOf("P", "w", "proxy"))>>
    @@ "B" :> <<WithClients("sound" :> ProxyClientOf("P", "u1", "proxy"))>>

\* Later, A creates a client that verifies B directly.
LaterClient == {<<"toB", TMClientOf("B", TRUE)>>}

-----------------------------------------------------------------------------
(* As OneSide, with a connection that A opened before.                     *)

Handshake(state, cpConn) ==
  [state |-> state, clientId |-> "toB", versions |-> Versions,
   counterparty |-> [clientId |-> "sound", connectionId |-> cpConn]]

OpenedA ==
  <<[OneSideA EXCEPT ![ConnectionPath("c0")] = Handshake("INIT", "")],
    [OneSideA EXCEPT ![ConnectionPath("c0")] = Handshake("OPEN", "c1")]>>

SoundB == <<WithClients("sound" :> ProxyClientOf("P", "u1", "proxy"))>>

\* A has begun a handshake, with a version that the counterparty may narrow.
BegunA ==
  <<[OneSideA EXCEPT ![ConnectionPath("c0")] =
       [Handshake("INIT", "") EXCEPT !.versions = {{"ORDERED", "UNORDERED"}}]]>>

BegunLedger == "A" :> BegunA @@ "B" :> SoundB
OpenedLedger == "A" :> OpenedA @@ "B" :> SoundB
=============================================================================
