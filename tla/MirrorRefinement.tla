-------------------------- MODULE MirrorRefinement --------------------------
(***************************************************************************)
(* The proxy keeper implements VerifiedMirror: the facts of a light client *)
(* are what proofs at the heights it knows verify, through other proxies   *)
(* for a multiv client; the published mirrors are the blocks of the proxy  *)
(* chain.                                                                  *)
(***************************************************************************)
EXTENDS ProxyKeeper

\* What the light client u of the proxy chain vouches for, at any height it knows.
Facts(u) ==
  UNION {{<<p, v>> : v \in Attested(u, h, p) \ {Absent}} : p \in Path, h \in consensus[u]}

Mirror == INSTANCE VerifiedMirror WITH
  Clients <- UpstreamClients,
  Paths <- Path,
  Nothing <- Absent,
  known <- [u \in UpstreamClients |-> Facts(u)],
  mirror <- proxy,
  published <- blocks

\* Every behaviour of the keeper, with messages in any order, stale or repeated, is a
\* behaviour of VerifiedMirror: the proxy repeats only what its light clients vouch for,
\* what they vouched for stays a fact, and a block of the proxy chain is the mirror as it
\* was when the block was committed.
ImplementsMirror == Mirror!Spec
=============================================================================
