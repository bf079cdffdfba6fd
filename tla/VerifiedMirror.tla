--------------------------- MODULE VerifiedMirror ---------------------------
(***************************************************************************)
(* What the proxy promises its downstreams, without messages, proofs,      *)
(* blocks of other chains or handshakes: each of its light clients gathers *)
(* facts about an upstream and forgets none; the proxy repeats only such   *)
(* facts, takes back none of them except for another fact, and publishes   *)
(* its whole mirror as an append-only history.                             *)
(***************************************************************************)
EXTENDS Sequences

CONSTANTS
  Clients,   \* the light clients of the proxy
  Paths,     \* the places where an upstream keeps a value
  Nothing    \* no value

VARIABLES
  known,      \* client -> the facts <<path, value>> it vouches for
  mirror,     \* client -> path -> the value the proxy repeats, or Nothing
  published   \* the sequence of mirrors that downstreams can verify

mirrorVars == <<known, mirror, published>>

Init ==
  /\ known = [u \in Clients |-> {}]
  /\ mirror = [u \in Clients |-> [p \in Paths |-> Nothing]]
  /\ published = <<mirror>>

\* The light clients learn more.
Learn ==
  /\ \A u \in Clients : known[u] \subseteq known'[u]
  /\ UNCHANGED <<mirror, published>>

\* The mirror of client u changes, only where and only to what the client vouches for.
Adopt(u) ==
  /\ \A p \in Paths :
       mirror'[u][p] # mirror[u][p] =>
         /\ mirror'[u][p] # Nothing
         /\ <<p, mirror'[u][p]>> \in known[u]
  /\ \A t \in Clients \ {u} : mirror'[t] = mirror[t]
  /\ UNCHANGED <<known, published>>

Publish ==
  /\ published' = Append(published, mirror)
  /\ UNCHANGED <<known, mirror>>

Next == Learn \/ (\E u \in Clients : Adopt(u)) \/ Publish

Spec == Init /\ [][Next]_mirrorVars
=============================================================================
