------------------------- MODULE LightClientsProofs -------------------------
(***************************************************************************)
(* Theorems of LightClients for every set of clients, every nesting of the *)
(* wrappers, every trusting period and every upgrade height.               *)
(***************************************************************************)
EXTENDS LightClients, TLAPS

-----------------------------------------------------------------------------
(* The inductive invariant.                                                *)

\* LatestUsable, for one client.
UsableLatest(id) ==
  client[id] # None /\ id \notin substituted =>
    LET state == cons[id][client[id].latest] IN
    /\ Decodes(state, client[id].proxy)
    /\ client[id].latest # origin[id] => state.metadata

\* A client holds no consensus state above its latest height, and none before it is
\* created.
NothingAbove(id) ==
  \A h \in Heights : cons[id][h] # None => client[id] # None /\ h <= client[id].latest

\* A substituted client exists.  If it is an xx-proxy client, governance has left it with
\* a bare Tendermint state at its latest height, unfrozen: a state that it cannot decode.
SubstitutedStuck(id) ==
  id \in substituted =>
    /\ client[id] # None
    /\ client[id].proxy =>
         LET state == cons[id][client[id].latest] IN
         ~ client[id].frozen /\ Decodes(state, FALSE)

Consistent(id) == UsableLatest(id) /\ NothingAbove(id) /\ SubstitutedStuck(id)

LightClientsInv == LightClientsTypeOK /\ \A id \in Clients : Consistent(id)

-----------------------------------------------------------------------------
(* What an operation does to one client.                                   *)

States == [Heights -> ConsensusStates \cup {None}]

\* Client id becomes cs with consensus states st; the other clients are left alone.
Changes(id, cs, st) ==
  /\ client' = [client EXCEPT ![id] = cs]
  /\ cons' = [cons EXCEPT ![id] = st]

\* A client created at height h.
Created(id, h, cs, st) ==
  /\ Changes(id, cs, st)
  /\ cs.latest = h
  /\ Decodes(st[h], cs.proxy)
  /\ \A g \in Heights \ {h} : st[g] = cons[id][g]

\* A header accepted at height h, and expired consensus states pruned.
Accepted(id, h, cs, st) ==
  /\ Changes(id, cs, st)
  /\ cs.latest = IF h > client[id].latest THEN h ELSE client[id].latest
  /\ cs.proxy = client[id].proxy
  /\ cs.multiv = client[id].multiv
  /\ cs.frozen = client[id].frozen
  /\ Decodes(st[h], cs.proxy) /\ st[h].metadata
  /\ \A g \in Heights \ {h} : st[g] = cons[id][g] \/ (st[g] = None /\ Expired(g))

\* A client frozen with the consensus states it had.
Halts(id, cs) ==
  /\ Changes(id, cs, cons[id])
  /\ cs.latest = client[id].latest
  /\ cs.proxy = client[id].proxy
  /\ cs.multiv = client[id].multiv

\* A client that governance moved to height h of another.
Replaced(id, h, cs, st) ==
  /\ Changes(id, cs, st)
  /\ client[id] # None
  /\ client[id].latest < h
  /\ cs.latest = h
  /\ cs.proxy = client[id].proxy
  /\ cs.multiv = client[id].multiv
  /\ ~ cs.frozen
  /\ Decodes(st[h], FALSE)
  /\ \A g \in Heights \ {h} : st[g] = cons[id][g]

\* A client moved across the upgrade.
Upgraded(id, cs, st) ==
  /\ Changes(id, cs, st)
  /\ client[id] # None
  /\ client[id].proxy = FALSE
  /\ client[id].latest = UpgradeHeight
  /\ cs.latest = SentinelHeight
  /\ cs.proxy = FALSE
  /\ Decodes(st[SentinelHeight], FALSE) /\ st[SentinelHeight].metadata
  /\ \A g \in Heights \ {SentinelHeight} : st[g] = cons[id][g]

\* The heights are an interval that holds the height reserved for the upgrade.
LEMMA HeightsTyped ==
  /\ MaxTime \in Nat /\ 1 \in Heights
  /\ UpgradeHeight \in Heights /\ SentinelHeight \in Heights
  /\ UpgradeHeight < SentinelHeight
  /\ \A h \in Heights : h \in Nat /\ h + TrustingPeriod \in Nat
BY LightClientsAssumption DEF Heights, SentinelHeight

\* The fields of a client that exists, and its consensus states.
LEMMA ClientTyped ==
  ASSUME LightClientsTypeOK, NEW id \in Clients
  PROVE  /\ cons[id] \in States
         /\ client[id] # None =>
              /\ client[id] \in ClientStates
              /\ client[id].latest \in Heights
              /\ client[id].frozen \in BOOLEAN
              /\ client[id].proxy \in BOOLEAN
              /\ client[id].multiv \in BOOLEAN
              /\ cons[id][client[id].latest] \in ConsensusStates \cup {None}
<1>1. client[id] \in ClientStates \cup {None} /\ cons[id] \in States
  BY DEF LightClientsTypeOK, States
<1>2. ASSUME client[id] # None
      PROVE  /\ client[id] \in ClientStates
             /\ client[id].latest \in Heights
             /\ client[id].frozen \in BOOLEAN
             /\ client[id].proxy \in BOOLEAN
             /\ client[id].multiv \in BOOLEAN
  BY <1>1, <1>2 DEF ClientStates
<1> QED BY <1>1, <1>2 DEF States

\* An active client is not frozen, its latest consensus state is of its kind and has not
\* expired.
LEMMA ActiveMeans ==
  ASSUME NEW id, StatusOf(id) = "Active"
  PROVE  /\ ~ client[id].frozen
         /\ Decodes(cons[id][client[id].latest], client[id].proxy)
         /\ ~ Expired(client[id].latest)
BY DEF StatusOf, Status, TMStatus

\* Every operation keeps the types, given what it writes.
LEMMA ChangesTyped ==
  ASSUME LightClientsTypeOK, NEW id \in Clients, NEW cs \in ClientStates,
         NEW st \in States, Changes(id, cs, st)
  PROVE  /\ client' \in [Clients -> ClientStates \cup {None}]
         /\ cons' \in [Clients -> [Heights -> ConsensusStates \cup {None}]]
         /\ client'[id] = cs /\ cons'[id] = st
         /\ \A j \in Clients \ {id} : client'[j] = client[j] /\ cons'[j] = cons[j]
BY DEF LightClientsTypeOK, States, Changes

\* MsgCreateClient.
LEMMA CreateEffect ==
  ASSUME LightClientsTypeOK, NEW id \in Clients, NEW h \in Heights, CreateClient(id, h)
  PROVE  \E cs \in ClientStates, st \in States : Created(id, h, cs, st)
<1> DEFINE cs == [multiv |-> id \in Multiv, proxy |-> id \in Proxied, latest |-> h,
                  frozen |-> FALSE]
           new == [kind |-> IF id \in Proxied THEN "proxy" ELSE "tm", root |-> "block",
                   metadata |-> id \notin Multiv \cup Proxied]
           st == [cons[id] EXCEPT ![h] = new]
<1>1. cs \in ClientStates BY DEF ClientStates
<1>2. new \in ConsensusStates BY DEF ConsensusStates, Roots
<1>3. cons[id] \in States BY ClientTyped
<1>4. Changes(id, cs, st) BY DEF CreateClient, Initialize, Changes
<1>5. new.kind = (IF cs.proxy THEN "proxy" ELSE "tm") OBVIOUS
<1>6. new # None BY <1>2, NoneAssumption
<1> HIDE DEF new, cs
<1>7. st \in States BY <1>2, <1>3 DEF States
<1>8. st[h] = new /\ \A g \in Heights \ {h} : st[g] = cons[id][g]
  BY <1>3 DEF States
<1>9. cs.latest = h BY DEF cs
<1> HIDE DEF st
<1> QED BY <1>1, <1>4, <1>5, <1>6, <1>7, <1>8, <1>9 DEF Decodes, Created

\* A header that the client did not hold.
LEMMA AcceptEffect ==
  ASSUME LightClientsTypeOK, NEW id \in Clients, NEW h \in Heights,
         NEW root \in {"block", "fork"}, client[id] # None, Accept(id, h, root)
  PROVE  \E cs \in ClientStates, st \in States : Accepted(id, h, cs, st)
<1> DEFINE old == client[id]
           cs == [old EXCEPT !.latest = IF h > @ THEN h ELSE @]
           new == [kind |-> KindOf(old), root |-> root, metadata |-> TRUE]
           st == [g \in Heights |-> IF g = h THEN new
                                    ELSE IF g \in Pruned(id) THEN None ELSE cons[id][g]]
<1>1. old \in ClientStates /\ cons[id] \in States BY ClientTyped
<1>2. new \in ConsensusStates BY DEF ConsensusStates, Roots, KindOf
<1>3. client' = [client EXCEPT ![id] = cs] BY DEF Accept
<1>4. cons' = [cons EXCEPT ![id] = st] BY DEF Accept, LightClientsTypeOK
<1>5. new # None BY <1>2, NoneAssumption
<1>6. new.kind = KindOf(old) /\ new.metadata OBVIOUS
<1> HIDE DEF new, old
<1>7. /\ cs \in ClientStates
      /\ cs.latest = IF h > old.latest THEN h ELSE old.latest
      /\ cs.proxy = old.proxy /\ cs.multiv = old.multiv /\ cs.frozen = old.frozen
  BY <1>1 DEF ClientStates
<1>8. st \in States BY <1>1, <1>2 DEF States
<1>9. st[h] = new OBVIOUS
<1>10. \A g \in Pruned(id) : Expired(g) BY DEF Pruned
<1>11. \A g \in Heights \ {h} : st[g] = cons[id][g] \/ (st[g] = None /\ Expired(g))
  BY <1>10
<1>12. Decodes(st[h], cs.proxy) /\ st[h].metadata
  BY <1>5, <1>6, <1>7, <1>9 DEF Decodes, KindOf
<1> HIDE DEF st, cs
<1> QED BY <1>3, <1>4, <1>7, <1>8, <1>11, <1>12 DEF old, Changes, Accepted

\* A freeze.
LEMMA FreezeEffect ==
  ASSUME LightClientsTypeOK, NEW id \in Clients, client[id] # None, Freeze(id)
  PROVE  \E cs \in ClientStates : Halts(id, cs)
<1> DEFINE old == client[id]
           cs == [old EXCEPT !.frozen = TRUE]
<1>1. old \in ClientStates BY ClientTyped
<1>2. client' = [client EXCEPT ![id] = cs] /\ cons' = cons BY DEF Freeze
<1>3. cons' = [cons EXCEPT ![id] = cons[id]] BY <1>2 DEF LightClientsTypeOK
<1> HIDE DEF old
<1>4. /\ cs \in ClientStates /\ cs.latest = old.latest
      /\ cs.proxy = old.proxy /\ cs.multiv = old.multiv
  BY <1>1 DEF ClientStates
<1> HIDE DEF cs
<1> QED BY <1>2, <1>3, <1>4 DEF old, Changes, Halts

\* A contradicting header freezes the client and replaces nothing.
LEMMA ContradictFreezes ==
  ASSUME LightClientsTypeOK, NEW id \in Clients, NEW h, NEW root, client[id] # None,
         Contradict(id, h, root)
  PROVE  Freeze(id)
<1> DEFINE old == client[id]
           cs == [old EXCEPT !.frozen = TRUE]
<1>1. old \in ClientStates BY ClientTyped
<1>2. cs.frozen
  <2> HIDE DEF old
  <2> QED BY <1>1 DEF ClientStates
<1>3. Status(cs, cons[id]) = "Frozen" BY <1>2 DEF Status, TMStatus
<1> QED BY <1>3 DEF Contradict

\* A substitution by governance.
LEMMA ProposalEffect ==
  ASSUME LightClientsTypeOK, NEW id \in Clients, NEW by \in Clients,
         ClientUpdateProposal(id, by)
  PROVE  \E cs \in ClientStates, st \in States, h \in Heights : Replaced(id, h, cs, st)
<1> DEFINE old == client[id]
           h == client[by].latest
           cs == [old EXCEPT !.frozen = FALSE, !.latest = h]
           st == [cons[id] EXCEPT ![h] = cons[by][h]]
<1>1. /\ client[id] # None /\ client[by] # None
      /\ client[id].latest < h
      /\ ~ client[by].proxy
      /\ StatusOf(by) = "Active"
      /\ client' = [client EXCEPT ![id] = cs]
      /\ cons' = [cons EXCEPT ![id] = st]
  BY DEF ClientUpdateProposal, SubstituteState
<1>2. /\ old \in ClientStates /\ cons[id] \in States
      /\ h \in Heights /\ cons[by][h] \in ConsensusStates \cup {None}
  BY <1>1, ClientTyped
<1>3. Decodes(cons[by][h], FALSE) BY <1>1, ActiveMeans DEF Decodes
<1> HIDE DEF old, h
<1>4. /\ cs \in ClientStates /\ cs.latest = h
      /\ cs.proxy = old.proxy /\ cs.multiv = old.multiv /\ ~ cs.frozen
  BY <1>2 DEF ClientStates
<1>5. st \in States BY <1>2 DEF States
<1>6. st[h] = cons[by][h] /\ \A g \in Heights \ {h} : st[g] = cons[id][g]
  BY <1>2 DEF States
<1>7. Decodes(st[h], FALSE) BY <1>3, <1>6
<1> HIDE DEF cs, st
<1> QED BY <1>1, <1>2, <1>4, <1>5, <1>6, <1>7 DEF old, Changes, Replaced

\* An upgrade: only a client without the xx-proxy wrapper gets through it.
LEMMA UpgradeEffect ==
  ASSUME LightClientsTypeOK, NEW id \in Clients, UpgradeClient(id)
  PROVE  \E cs \in ClientStates, st \in States : Upgraded(id, cs, st)
<1> DEFINE cs == [multiv |-> FALSE, proxy |-> FALSE, latest |-> SentinelHeight,
                  frozen |-> FALSE]
           new == [kind |-> "tm", root |-> "sentinel", metadata |-> TRUE]
           st == [cons[id] EXCEPT ![SentinelHeight] = new]
<1>1. /\ client[id] # None
      /\ StatusOf(id) = "Active"
      /\ client[id].latest = UpgradeHeight
      /\ Decodes(cons[id][UpgradeHeight], FALSE)
      /\ Changes(id, cs, st)
  BY DEF UpgradeClient, Changes
<1>2. client[id].proxy = FALSE
  <2>1. Decodes(cons[id][UpgradeHeight], client[id].proxy) BY <1>1, ActiveMeans
  <2>2. client[id].proxy \in BOOLEAN BY <1>1, ClientTyped
  <2> QED BY <1>1, <2>1, <2>2 DEF Decodes
<1>3. cs \in ClientStates BY HeightsTyped DEF ClientStates
<1>4. new \in ConsensusStates BY DEF ConsensusStates, Roots
<1>5. new # None /\ new.kind = "tm" /\ new.metadata BY <1>4, NoneAssumption
<1>6. cons[id] \in States BY ClientTyped
<1>7. cs.latest = SentinelHeight /\ cs.proxy = FALSE OBVIOUS
<1> HIDE DEF new, cs
<1>8. st \in States BY <1>4, <1>6, HeightsTyped DEF States
<1>9. st[SentinelHeight] = new /\ \A g \in Heights \ {SentinelHeight} : st[g] = cons[id][g]
  BY <1>6, HeightsTyped DEF States
<1>10. Decodes(st[SentinelHeight], FALSE) /\ st[SentinelHeight].metadata
  BY <1>5, <1>9 DEF Decodes
<1> HIDE DEF st
<1> QED BY <1>1, <1>2, <1>3, <1>7, <1>8, <1>9, <1>10 DEF Upgraded

-----------------------------------------------------------------------------
(* The invariant is kept.                                                  *)

\* The steps, with the two outcomes of MsgUpdateClient told apart.
LEMMA StepCases ==
  ASSUME LightClientsTypeOK, [LightClientsNext]_clientVars
  PROVE  \/ /\ now' \in Heights
            /\ UNCHANGED <<client, cons, origin, substituted>>
         \/ \E id \in Clients, h \in Heights : CreateClient(id, h)
         \/ \E id \in Clients, h \in Heights, root \in {"block", "fork"} :
              /\ client[id] # None /\ StatusOf(id) = "Active" /\ cons[id][h] = None
              /\ Accept(id, h, root)
              /\ UNCHANGED <<now, origin, substituted>>
         \/ \E id \in Clients :
              /\ client[id] # None /\ StatusOf(id) = "Active"
              /\ Freeze(id)
              /\ UNCHANGED <<now, origin, substituted>>
         \/ \E id, by \in Clients : ClientUpdateProposal(id, by)
         \/ \E id \in Clients : UpgradeClient(id)
<1> DEFINE Goal ==
         \/ /\ now' \in Heights
            /\ UNCHANGED <<client, cons, origin, substituted>>
         \/ \E id \in Clients, h \in Heights : CreateClient(id, h)
         \/ \E id \in Clients, h \in Heights, root \in {"block", "fork"} :
              /\ client[id] # None /\ StatusOf(id) = "Active" /\ cons[id][h] = None
              /\ Accept(id, h, root)
              /\ UNCHANGED <<now, origin, substituted>>
         \/ \E id \in Clients :
              /\ client[id] # None /\ StatusOf(id) = "Active"
              /\ Freeze(id)
              /\ UNCHANGED <<now, origin, substituted>>
         \/ \E id, by \in Clients : ClientUpdateProposal(id, by)
         \/ \E id \in Clients : UpgradeClient(id)
<1>1. CASE Tick
  BY <1>1, LightClientsAssumption DEF Tick, LightClientsTypeOK, Heights
<1>2. CASE UNCHANGED clientVars
  BY <1>2 DEF clientVars, LightClientsTypeOK
<1>3. ASSUME NEW id \in Clients, NEW h \in Heights, NEW t \in Heights,
             NEW root \in {"block", "fork"}, UpdateClient(id, h, root, t)
      PROVE  Goal
  <2>1. /\ client[id] # None /\ StatusOf(id) = "Active"
        /\ UNCHANGED <<now, origin, substituted>>
        /\ \/ cons[id][h] = None /\ Accept(id, h, root)
           \/ Contradict(id, h, root)
    BY <1>3 DEF UpdateClient
  <2>2. CASE cons[id][h] = None /\ Accept(id, h, root) BY <2>1, <2>2
  <2>3. CASE Contradict(id, h, root) BY <2>1, <2>3, ContradictFreezes
  <2> QED BY <2>1, <2>2, <2>3
<1>4. ASSUME NEW id \in Clients, NEW h \in Heights, NEW t \in Heights,
             SubmitMisbehaviour(id, h, t)
      PROVE  Goal
  BY <1>4 DEF SubmitMisbehaviour
<1> QED BY <1>1, <1>2, <1>3, <1>4 DEF LightClientsNext

\* An operation on one client leaves the others consistent.
LEMMA OthersConsistent ==
  ASSUME LightClientsInv, NEW id \in Clients, NEW cs \in ClientStates, NEW st \in States,
         Changes(id, cs, st),
         substituted' \subseteq substituted \cup {id},
         substituted \subseteq substituted',
         \A j \in Clients \ {id} : origin'[j] = origin[j],
         Consistent(id)'
  PROVE  \A j \in Clients : Consistent(j)'
<1> SUFFICES ASSUME NEW j \in Clients \ {id}
             PROVE  Consistent(j)'
  OBVIOUS
<1>1. client'[j] = client[j] /\ cons'[j] = cons[j] /\ origin'[j] = origin[j]
  BY ChangesTyped DEF LightClientsInv
<1>2. j \in substituted' <=> j \in substituted OBVIOUS
<1>3. UsableLatest(j) /\ NothingAbove(j) /\ SubstitutedStuck(j)
  BY DEF LightClientsInv, Consistent
<1>4. UsableLatest(j)' BY <1>1, <1>2, <1>3 DEF UsableLatest, Decodes
<1>5. NothingAbove(j)' BY <1>1, <1>3 DEF NothingAbove
<1>6. SubstitutedStuck(j)' BY <1>1, <1>2, <1>3 DEF SubstitutedStuck, Decodes
<1> QED BY <1>4, <1>5, <1>6 DEF Consistent

\* Every operation, error and governance decision keeps the clients consistent.
LEMMA LightClientsStep ==
  ASSUME LightClientsInv, [LightClientsNext]_clientVars
  PROVE  LightClientsInv'
<1>0. LightClientsTypeOK BY DEF LightClientsInv
<1>1. CASE now' \in Heights /\ UNCHANGED <<client, cons, origin, substituted>>
  BY <1>1 DEF LightClientsInv, LightClientsTypeOK, Consistent, UsableLatest,
              NothingAbove, SubstitutedStuck, Decodes
<1>2. ASSUME NEW id \in Clients, NEW h \in Heights, CreateClient(id, h)
      PROVE  LightClientsInv'
  <2>1. PICK cs \in ClientStates, st \in States : Created(id, h, cs, st)
    BY <1>0, <1>2, CreateEffect
  <2> USE DEF Created
  <2>2. /\ client[id] = None
        /\ origin' = [origin EXCEPT ![id] = h]
        /\ UNCHANGED <<now, substituted>>
    BY <1>2 DEF CreateClient
  <2>3. client'[id] = cs /\ cons'[id] = st BY <1>0, <2>1, ChangesTyped
  <2>4. origin'[id] = h /\ \A j \in Clients \ {id} : origin'[j] = origin[j]
    BY <1>0, <2>2 DEF LightClientsTypeOK
  <2>5. /\ id \notin substituted
        /\ \A g \in Heights : cons[id][g] = None
    BY <2>2 DEF LightClientsInv, Consistent, SubstitutedStuck, NothingAbove
  <2>6. cs # None BY NoneAssumption
  <2>7. UsableLatest(id)' BY <2>1, <2>3, <2>4 DEF UsableLatest, Decodes
  <2>8. NothingAbove(id)' BY <2>1, <2>3, <2>5, <2>6, HeightsTyped DEF NothingAbove
  <2>9. SubstitutedStuck(id)' BY <2>2, <2>5 DEF SubstitutedStuck
  <2>10. \A j \in Clients : Consistent(j)'
    BY <2>1, <2>2, <2>4, <2>7, <2>8, <2>9, OthersConsistent DEF Consistent
  <2>11. LightClientsTypeOK'
    <3>1. origin' \in [Clients -> 0..MaxTime]
      BY <1>0, <2>2 DEF LightClientsTypeOK, Heights
    <3> QED BY <1>0, <2>1, <2>2, <3>1, ChangesTyped DEF LightClientsTypeOK
  <2> QED BY <2>10, <2>11 DEF LightClientsInv
<1>3. ASSUME NEW id \in Clients, NEW h \in Heights, NEW root \in {"block", "fork"},
             client[id] # None, StatusOf(id) = "Active", cons[id][h] = None,
             Accept(id, h, root), UNCHANGED <<now, origin, substituted>>
      PROVE  LightClientsInv'
  <2>1. PICK cs \in ClientStates, st \in States : Accepted(id, h, cs, st)
    BY <1>0, <1>3, AcceptEffect
  <2> USE DEF Accepted
  <2>2. client'[id] = cs /\ cons'[id] = st BY <1>0, <2>1, ChangesTyped
  <2>3. /\ Decodes(cons[id][client[id].latest], client[id].proxy)
        /\ ~ Expired(client[id].latest)
    BY <1>3, ActiveMeans
  <2>4. client[id].latest \in Heights /\ client[id].proxy \in BOOLEAN
    BY <1>0, <1>3, ClientTyped
  <2>5. h # client[id].latest BY <1>3, <2>3 DEF Decodes
  <2>6. st[client[id].latest] = cons[id][client[id].latest]
    BY <2>1, <2>3, <2>4, <2>5
  <2>7. Consistent(id) BY DEF LightClientsInv
  <2>8. UsableLatest(id)'
    <3>1. CASE h > client[id].latest
      BY <1>3, <2>1, <2>2, <3>1 DEF UsableLatest, Decodes
    <3>2. CASE ~ (h > client[id].latest)
      BY <1>3, <2>1, <2>2, <2>6, <2>7, <3>2 DEF Consistent, UsableLatest, Decodes
    <3> QED BY <3>1, <3>2
  <2>9. NothingAbove(id)'
    <3>1. cs # None BY NoneAssumption
    <3>2. h <= cs.latest /\ client[id].latest <= cs.latest
          /\ h \in Nat /\ cs.latest \in Nat /\ client[id].latest \in Nat
      BY <2>1, <2>4, HeightsTyped
    <3>3. \A g \in Heights : g \in Nat BY HeightsTyped
    <3>4. \A g \in Heights \ {h} : st[g] # None => g <= client[id].latest
      BY <2>1, <2>7 DEF Consistent, NothingAbove
    <3> QED BY <2>2, <3>1, <3>2, <3>3, <3>4 DEF NothingAbove
  <2>10. SubstitutedStuck(id)'
    <3>1. id \in substituted => ~ client[id].proxy
      BY <2>3, <2>4, <2>7 DEF Consistent, SubstitutedStuck, Decodes
    <3> QED BY <1>3, <2>1, <2>2, <3>1, NoneAssumption DEF SubstitutedStuck
  <2>11. \A j \in Clients : Consistent(j)'
    BY <1>3, <2>1, <2>8, <2>9, <2>10, OthersConsistent DEF Consistent
  <2> QED BY <1>0, <1>3, <2>1, <2>11, ChangesTyped DEF LightClientsInv, LightClientsTypeOK
<1>4. ASSUME NEW id \in Clients, client[id] # None, StatusOf(id) = "Active", Freeze(id),
             UNCHANGED <<now, origin, substituted>>
      PROVE  LightClientsInv'
  <2>1. PICK cs \in ClientStates : Halts(id, cs)
    BY <1>0, <1>4, FreezeEffect
  <2> USE DEF Halts
  <2>2. cons[id] \in States /\ client[id].proxy \in BOOLEAN BY <1>0, <1>4, ClientTyped
  <2>3. client'[id] = cs /\ cons'[id] = cons[id] BY <1>0, <2>1, <2>2, ChangesTyped
  <2>4. Consistent(id) BY DEF LightClientsInv
  <2>5. cs # None BY NoneAssumption
  <2>6. UsableLatest(id)'
    BY <1>4, <2>1, <2>3, <2>4 DEF Consistent, UsableLatest, Decodes
  <2>7. NothingAbove(id)'
    BY <1>4, <2>1, <2>3, <2>4, <2>5 DEF Consistent, NothingAbove
  <2>8. SubstitutedStuck(id)'
    <3>1. Decodes(cons[id][client[id].latest], client[id].proxy) BY <1>4, ActiveMeans
    <3>2. id \in substituted => ~ client[id].proxy
      BY <2>2, <2>4, <3>1 DEF Consistent, SubstitutedStuck, Decodes
    <3> QED BY <1>4, <2>1, <2>3, <2>5, <3>2 DEF SubstitutedStuck
  <2>9. \A j \in Clients : Consistent(j)'
    BY <1>4, <2>1, <2>2, <2>6, <2>7, <2>8, OthersConsistent DEF Consistent
  <2> QED BY <1>0, <1>4, <2>1, <2>2, <2>9, ChangesTyped
        DEF LightClientsInv, LightClientsTypeOK
<1>5. ASSUME NEW id \in Clients, NEW by \in Clients, ClientUpdateProposal(id, by)
      PROVE  LightClientsInv'
  <2>1. PICK cs \in ClientStates, st \in States, h \in Heights : Replaced(id, h, cs, st)
    BY <1>0, <1>5, ProposalEffect
  <2> USE DEF Replaced
  <2>2. substituted' = substituted \cup {id} /\ UNCHANGED <<now, origin>>
    BY <1>5 DEF ClientUpdateProposal
  <2>3. client'[id] = cs /\ cons'[id] = st BY <1>0, <2>1, ChangesTyped
  <2>4. Consistent(id) /\ cs # None BY NoneAssumption DEF LightClientsInv
  <2>5. UsableLatest(id)' BY <2>2 DEF UsableLatest
  <2>6. NothingAbove(id)'
    <3>1. client[id].latest \in Nat /\ h \in Nat BY <1>0, <2>1, ClientTyped, HeightsTyped
    <3>2. \A g \in Heights : g \in Nat BY HeightsTyped
    <3>3. \A g \in Heights \ {h} : st[g] # None => g <= client[id].latest
      BY <2>1, <2>4 DEF Consistent, NothingAbove
    <3> QED BY <2>1, <2>3, <2>4, <3>1, <3>2, <3>3 DEF NothingAbove
  <2>7. SubstitutedStuck(id)' BY <2>1, <2>3, <2>4 DEF SubstitutedStuck, Decodes
  <2>8. \A j \in Clients : Consistent(j)'
    BY <2>1, <2>2, <2>5, <2>6, <2>7, OthersConsistent DEF Consistent
  <2> QED BY <1>0, <2>1, <2>2, <2>8, ChangesTyped DEF LightClientsInv, LightClientsTypeOK
<1>6. ASSUME NEW id \in Clients, UpgradeClient(id)
      PROVE  LightClientsInv'
  <2>1. PICK cs \in ClientStates, st \in States : Upgraded(id, cs, st)
    BY <1>0, <1>6, UpgradeEffect
  <2> USE DEF Upgraded
  <2>2. UNCHANGED <<now, origin, substituted>> BY <1>6 DEF UpgradeClient
  <2>3. client'[id] = cs /\ cons'[id] = st BY <1>0, <2>1, ChangesTyped
  <2>4. Consistent(id) /\ cs # None BY NoneAssumption DEF LightClientsInv
  <2>5. UsableLatest(id)' BY <2>1, <2>3 DEF UsableLatest, Decodes
  <2>6. NothingAbove(id)'
    <3>1. UpgradeHeight \in Nat /\ SentinelHeight \in Nat /\ UpgradeHeight < SentinelHeight
      BY HeightsTyped
    <3>2. \A g \in Heights : g \in Nat BY HeightsTyped
    <3>3. \A g \in Heights \ {SentinelHeight} : st[g] # None => g <= UpgradeHeight
      BY <2>1, <2>4 DEF Consistent, NothingAbove
    <3> QED BY <2>1, <2>3, <2>4, <3>1, <3>2, <3>3 DEF NothingAbove
  <2>7. SubstitutedStuck(id)' BY <2>1, <2>3, <2>4 DEF SubstitutedStuck
  <2>8. \A j \in Clients : Consistent(j)'
    BY <2>1, <2>2, <2>5, <2>6, <2>7, OthersConsistent DEF Consistent
  <2> QED BY <1>0, <2>1, <2>2, <2>8, ChangesTyped DEF LightClientsInv, LightClientsTypeOK
<1> QED BY <1>0, <1>1, <1>2, <1>3, <1>4, <1>5, <1>6, StepCases

\* A chain starts without clients.
LEMMA LightClientsStart == LightClientsInit => LightClientsInv
<1> SUFFICES ASSUME LightClientsInit PROVE LightClientsInv OBVIOUS
<1>1. LightClientsTypeOK
  BY HeightsTyped DEF LightClientsInit, LightClientsTypeOK
<1>2. \A id \in Clients : client[id] = None /\ id \notin substituted
                           /\ \A h \in Heights : cons[id][h] = None
  BY DEF LightClientsInit
<1>3. \A id \in Clients : Consistent(id)
  BY <1>2 DEF Consistent, UsableLatest, NothingAbove, SubstitutedStuck
<1> QED BY <1>1, <1>3 DEF LightClientsInv

\* The invariant holds in every reachable state.
LEMMA LightClientsInvariant == LightClientsSpec => []LightClientsInv
<1>1. LightClientsInv /\ [LightClientsNext]_clientVars => LightClientsInv'
  BY LightClientsStep
<1> QED BY <1>1, LightClientsStart, PTL DEF LightClientsSpec

-----------------------------------------------------------------------------
(* Theorems.                                                               *)

\* Types are kept by every operation, the wrapped ones included, for every nesting of the
\* wrappers and every upgrade height.
THEOREM LightClientsTypeCorrect == LightClientsSpec => []LightClientsTypeOK
<1>1. LightClientsInv => LightClientsTypeOK BY DEF LightClientsInv
<1> QED BY <1>1, LightClientsInvariant, PTL

\* A client that governance has not substituted can decode the consensus state of its
\* latest height, and check packet proofs there unless it is the height of its creation:
\* no order of updates, old headers, pruning, freezing and upgrade breaks it.
THEOREM LatestIsUsable == LightClientsSpec => []LatestUsable
<1>1. LightClientsInv => LatestUsable
  BY DEF LightClientsInv, Consistent, UsableLatest, LatestUsable
<1> QED BY <1>1, LightClientsInvariant, PTL

\* What a step may do to a consensus state.
ConsensusKept ==
  \A id \in Clients, h \in Heights :
    cons[id][h] # None =>
      \/ cons'[id][h] = cons[id][h]
      \/ cons'[id][h] = None /\ Expired(h)

\* A step replaces no consensus state, because what it writes lies above the latest height
\* or where nothing was held.
LEMMA StepKeepsConsensus ==
  ASSUME LightClientsInv, [LightClientsNext]_clientVars
  PROVE  ConsensusKept
<1>0. LightClientsTypeOK BY DEF LightClientsInv
<1>1. ASSUME NEW id \in Clients, NEW cs \in ClientStates, NEW st \in States,
             Changes(id, cs, st), NEW h \in Heights, cons[id][h] = None,
             \A g \in Heights \ {h} :
               st[g] = cons[id][g] \/ (st[g] = None /\ Expired(g))
      PROVE  ConsensusKept
  BY <1>0, <1>1, ChangesTyped DEF ConsensusKept
<1>2. ASSUME NEW id \in Clients, NEW h \in Heights,
             client[id] = None \/ client[id].latest < h
      PROVE  cons[id][h] = None
  <2>1. cons[id][h] # None => client[id] # None /\ h <= client[id].latest
    BY DEF LightClientsInv, Consistent, NothingAbove
  <2>2. client[id] # None => client[id].latest \in Nat /\ h \in Nat
    BY <1>0, ClientTyped, HeightsTyped
  <2> QED BY <1>2, <2>1, <2>2
<1>3. CASE UNCHANGED cons BY <1>3 DEF ConsensusKept
<1>4. ASSUME NEW id \in Clients, NEW h \in Heights, CreateClient(id, h)
      PROVE  ConsensusKept
  <2>1. PICK cs \in ClientStates, st \in States : Created(id, h, cs, st)
    BY <1>0, <1>4, CreateEffect
  <2>2. cons[id][h] = None BY <1>2, <1>4 DEF CreateClient
  <2> QED BY <1>1, <2>1, <2>2 DEF Created
<1>5. ASSUME NEW id \in Clients, NEW h \in Heights, NEW root \in {"block", "fork"},
             client[id] # None, cons[id][h] = None, Accept(id, h, root)
      PROVE  ConsensusKept
  <2>1. PICK cs \in ClientStates, st \in States : Accepted(id, h, cs, st)
    BY <1>0, <1>5, AcceptEffect
  <2> QED BY <1>1, <1>5, <2>1 DEF Accepted
<1>6. ASSUME NEW id \in Clients, NEW by \in Clients, ClientUpdateProposal(id, by)
      PROVE  ConsensusKept
  <2>1. PICK cs \in ClientStates, st \in States, h \in Heights : Replaced(id, h, cs, st)
    BY <1>0, <1>6, ProposalEffect
  <2>2. cons[id][h] = None BY <1>2, <2>1 DEF Replaced
  <2> QED BY <1>1, <2>1, <2>2 DEF Replaced
<1>7. ASSUME NEW id \in Clients, UpgradeClient(id)
      PROVE  ConsensusKept
  <2>1. PICK cs \in ClientStates, st \in States : Upgraded(id, cs, st)
    BY <1>0, <1>7, UpgradeEffect
  <2>2. SentinelHeight \in Heights /\ cons[id][SentinelHeight] = None
    BY <1>2, <2>1, HeightsTyped DEF Upgraded
  <2> QED BY <1>1, <2>1, <2>2 DEF Upgraded
<1> QED BY <1>0, <1>3, <1>4, <1>5, <1>6, <1>7, StepCases DEF Freeze

\* A stored consensus state is never replaced, only pruned once it has expired: neither by
\* a contradicting header, nor by a substitution, nor by the state that an upgrade stores.
THEOREM ConsensusIsImmutable == LightClientsSpec => ConsensusImmutable
<1>1. LightClientsInv /\ [LightClientsNext]_clientVars =>
        [\A id \in Clients, h \in Heights :
           cons[id][h] # None =>
             \/ cons'[id][h] = cons[id][h]
             \/ cons'[id][h] = None /\ Expired(h)]_clientVars
  BY StepKeepsConsensus DEF ConsensusKept
<1> QED BY <1>1, LightClientsInvariant, PTL DEF LightClientsSpec, ConsensusImmutable

\* A halted client is not active, so nothing but a substitution reaches it.
LEMMA HaltedInactive ==
  ASSUME LightClientsInv, NEW id \in Clients, Halted(id)
  PROVE  StatusOf(id) # "Active"
<1> SUFFICES ASSUME StatusOf(id) = "Active" PROVE FALSE OBVIOUS
<1>1. /\ ~ client[id].frozen
      /\ Decodes(cons[id][client[id].latest], client[id].proxy)
      /\ ~ Expired(client[id].latest)
  BY ActiveMeans
<1>2. client[id].proxy /\ id \in substituted BY <1>1 DEF Halted
<1>3. Decodes(cons[id][client[id].latest], FALSE)
  BY <1>2 DEF LightClientsInv, Consistent, SubstitutedStuck
<1> QED BY <1>1, <1>2, <1>3 DEF Decodes

\* What a step may add to what a halted client vouches for.
NothingNew(id) ==
  \/ Verifiable(id)' \subseteq Verifiable(id)
  \/ id \in substituted' /\ ~ client[id].proxy

\* A substituted xx-proxy client cannot decode the state it was given, and holds nothing
\* between its old and its new latest height.
LEMMA HaltedStep ==
  ASSUME LightClientsInv, [LightClientsNext]_clientVars, NEW j \in Clients, Halted(j)
  PROVE  NothingNew(j)
<1>0. LightClientsTypeOK BY DEF LightClientsInv
<1>1. StatusOf(j) # "Active" /\ client[j] # None BY HaltedInactive DEF Halted
<1>2. ASSUME client'[j] = client[j], cons'[j] = cons[j]
      PROVE  NothingNew(j)
  BY <1>2 DEF NothingNew, Verifiable, Decodes
<1>3. ASSUME NEW id \in Clients, NEW cs \in ClientStates, NEW st \in States,
             Changes(id, cs, st), j # id
      PROVE  NothingNew(j)
  BY <1>0, <1>2, <1>3, ChangesTyped
<1>4. CASE UNCHANGED <<client, cons>> BY <1>2, <1>4
<1>5. ASSUME NEW id \in Clients, NEW h \in Heights, CreateClient(id, h)
      PROVE  NothingNew(j)
  <2>1. j # id BY <1>1, <1>5 DEF CreateClient
  <2> QED BY <1>0, <1>3, <1>5, <2>1, CreateEffect DEF Created
<1>6. ASSUME NEW id \in Clients, NEW h \in Heights, NEW root \in {"block", "fork"},
             client[id] # None, StatusOf(id) = "Active", Accept(id, h, root)
      PROVE  NothingNew(j)
  <2>1. j # id BY <1>1, <1>6
  <2> QED BY <1>0, <1>3, <1>6, <2>1, AcceptEffect DEF Accepted
<1>7. ASSUME NEW id \in Clients, client[id] # None, StatusOf(id) = "Active", Freeze(id)
      PROVE  NothingNew(j)
  <2>1. j # id /\ cons[id] \in States BY <1>0, <1>1, <1>7, ClientTyped
  <2> QED BY <1>0, <1>3, <1>7, <2>1, FreezeEffect DEF Halts
<1>8. ASSUME NEW id \in Clients, UpgradeClient(id)
      PROVE  NothingNew(j)
  <2>1. j # id BY <1>1, <1>8 DEF UpgradeClient
  <2> QED BY <1>0, <1>3, <1>8, <2>1, UpgradeEffect DEF Upgraded
<1>9. ASSUME NEW id \in Clients, NEW by \in Clients, ClientUpdateProposal(id, by)
      PROVE  NothingNew(j)
  <2>1. PICK cs \in ClientStates, st \in States, h \in Heights : Replaced(id, h, cs, st)
    BY <1>0, <1>9, ProposalEffect
  <2> USE DEF Replaced
  <2>2. CASE j # id BY <1>3, <2>1, <2>2 DEF Replaced
  <2>3. CASE j = id /\ ~ client[id].proxy
    BY <1>9, <2>3 DEF NothingNew, ClientUpdateProposal
  <2>4. CASE j = id /\ client[id].proxy
    <3>1. client'[id] = cs /\ cons'[id] = st BY <1>0, <2>1, ChangesTyped
    <3>2. cs.proxy /\ ~ Decodes(st[h], cs.proxy) BY <2>1, <2>4 DEF Decodes
    <3>3. /\ client[id].latest \in Nat /\ h \in Heights /\ h \in Nat
          /\ \A g \in 1..h : g \in Heights
      BY <1>0, <1>1, <2>1, <2>4, ClientTyped, HeightsTyped DEF Heights
    <3>4. ASSUME NEW g \in 1..h, Decodes(st[g], cs.proxy)
          PROVE  /\ g \in 1..client[id].latest /\ st[g] = cons[id][g]
                 /\ Decodes(cons[id][g], client[id].proxy)
      <4>1. g \in Heights \ {h} BY <3>2, <3>3, <3>4
      <4>2. st[g] = cons[id][g] BY <2>1, <4>1
      <4>3. cons[id][g] # None BY <3>4, <4>2 DEF Decodes
      <4>4. g <= client[id].latest
        BY <4>1, <4>3 DEF LightClientsInv, Consistent, NothingAbove
      <4>5. g \in 1..client[id].latest BY <3>3, <4>4
      <4>6. Decodes(cons[id][g], client[id].proxy) BY <2>1, <3>4, <4>2
      <4> QED BY <4>2, <4>5, <4>6
    <3>5. cs # None BY NoneAssumption
    <3>6. Verifiable(id)' =
            {<<g, st[g].root>> : g \in {k \in 1..h : /\ Decodes(st[k], cs.proxy)
                                                   /\ st[k].root # "sentinel"}}
      BY <2>1, <3>1, <3>5 DEF Verifiable, Decodes
    <3>7. Verifiable(id) =
            {<<g, cons[id][g].root>> :
               g \in {k \in 1..client[id].latest :
                        /\ Decodes(cons[id][k], client[id].proxy)
                        /\ cons[id][k].root # "sentinel"}}
      BY <2>1 DEF Verifiable
    <3>8. Verifiable(id)' \subseteq Verifiable(id) BY <3>4, <3>6, <3>7
    <3> QED BY <2>4, <3>8 DEF NothingNew
  <2> QED BY <2>2, <2>3, <2>4
<1> QED BY <1>0, <1>4, <1>5, <1>6, <1>7, <1>8, <1>9, StepCases

\* The Verify functions ask for no Status, and need not: a frozen or expired client
\* vouches for nothing new until it is substituted, and an xx-proxy client not even then.
THEOREM HaltedClientsVouchForNothingNew == LightClientsSpec => HaltedVouchesNothingNew
<1>1. LightClientsInv /\ [LightClientsNext]_clientVars =>
        [\A id \in Clients :
           Halted(id) =>
             \/ Verifiable(id)' \subseteq Verifiable(id)
             \/ id \in substituted' /\ ~ client[id].proxy]_clientVars
  BY HaltedStep DEF NothingNew
<1> QED BY <1>1, LightClientsInvariant, PTL DEF LightClientsSpec, HaltedVouchesNothingNew

\* What a step may do to the wrappers of a client.
WrapperStep(id) ==
  /\ client'[id].proxy = client[id].proxy
  /\ \/ client'[id].multiv = client[id].multiv
     \/ client[id].latest = UpgradeHeight /\ client'[id].latest = SentinelHeight

\* An upgrade of an xx-proxy client fails, because its consensus states do not decode
\* without the extractor.
LEMMA StepKeepsWrapper ==
  ASSUME LightClientsTypeOK, [LightClientsNext]_clientVars, NEW j \in Clients,
         client[j] # None
  PROVE  WrapperStep(j)
<1>1. CASE client'[j] = client[j] BY <1>1 DEF WrapperStep
<1>2. ASSUME NEW id \in Clients, NEW cs \in ClientStates, NEW st \in States,
             Changes(id, cs, st), j # id
      PROVE  WrapperStep(j)
  BY <1>1, <1>2, ChangesTyped
<1>3. ASSUME NEW cs \in ClientStates, NEW st \in States,
             Changes(j, cs, st), cs.proxy = client[j].proxy, cs.multiv = client[j].multiv
      PROVE  WrapperStep(j)
  BY <1>3, ChangesTyped DEF WrapperStep
<1>4. ASSUME NEW id \in Clients, NEW h \in Heights, CreateClient(id, h)
      PROVE  WrapperStep(j)
  <2>1. j # id BY <1>4 DEF CreateClient
  <2> QED BY <1>2, <1>4, <2>1, CreateEffect DEF Created
<1>5. ASSUME NEW id \in Clients, NEW h \in Heights, NEW root \in {"block", "fork"},
             client[id] # None, Accept(id, h, root)
      PROVE  WrapperStep(j)
  <2>1. PICK cs \in ClientStates, st \in States : Accepted(id, h, cs, st)
    BY <1>5, AcceptEffect
  <2> QED BY <1>2, <1>3, <2>1 DEF Accepted
<1>6. ASSUME NEW id \in Clients, client[id] # None, Freeze(id)
      PROVE  WrapperStep(j)
  <2>1. PICK cs \in ClientStates : Halts(id, cs) BY <1>6, FreezeEffect
  <2> QED BY <1>2, <1>3, <2>1, ClientTyped DEF Halts
<1>7. ASSUME NEW id \in Clients, NEW by \in Clients, ClientUpdateProposal(id, by)
      PROVE  WrapperStep(j)
  <2>1. PICK cs \in ClientStates, st \in States, h \in Heights : Replaced(id, h, cs, st)
    BY <1>7, ProposalEffect
  <2> QED BY <1>2, <1>3, <2>1 DEF Replaced
<1>8. ASSUME NEW id \in Clients, UpgradeClient(id)
      PROVE  WrapperStep(j)
  <2>1. PICK cs \in ClientStates, st \in States : Upgraded(id, cs, st)
    BY <1>8, UpgradeEffect
  <2>2. CASE j = id BY <2>1, <2>2, ChangesTyped DEF Upgraded, WrapperStep
  <2> QED BY <1>2, <2>1, <2>2 DEF Upgraded
<1> QED BY <1>1, <1>4, <1>5, <1>6, <1>7, <1>8, StepCases

\* A client keeps its wrappers until the followed chain upgrades, and an xx-proxy client
\* for ever.
THEOREM WrappersKept == LightClientsSpec => WrapperKept
<1>1. LightClientsTypeOK /\ [LightClientsNext]_clientVars =>
        [\A id \in Clients :
           client[id] # None =>
             /\ client'[id].proxy = client[id].proxy
             /\ \/ client'[id].multiv = client[id].multiv
                \/ client[id].latest = UpgradeHeight /\ client'[id].latest = SentinelHeight
         ]_clientVars
  BY StepKeepsWrapper DEF WrapperStep
<1> QED BY <1>1, LightClientsTypeCorrect, PTL DEF LightClientsSpec, WrapperKept
=============================================================================
