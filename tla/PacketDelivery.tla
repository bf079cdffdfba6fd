--------------------------- MODULE PacketDelivery ---------------------------
(***************************************************************************)
(* What two applications expect of the packets that one of them sends to   *)
(* the other, whoever carries and proves them: a packet is delivered at    *)
(* most once and as it was sent, is acknowledged only after its delivery   *)
(* and times out only if it is never delivered.                            *)
(***************************************************************************)
CONSTANTS
  Sequences,   \* packet sequences
  Contents,    \* packet contents
  None         \* no packet

VARIABLES
  sent,        \* sequence -> the content that was sent, or None
  delivered,   \* sequence -> the content that the receiver was given, or None
  resolved     \* sequence -> what the sender was told of its packet

deliveryVars == <<sent, delivered, resolved>>

Init ==
  /\ sent = [s \in Sequences |-> None]
  /\ delivered = [s \in Sequences |-> None]
  /\ resolved = [s \in Sequences |-> "pending"]

Send(s, content) ==
  /\ sent[s] = None
  /\ sent' = [sent EXCEPT ![s] = content]
  /\ UNCHANGED <<delivered, resolved>>

Deliver(s) ==
  /\ sent[s] # None
  /\ delivered[s] = None
  /\ resolved[s] # "timedOut"
  /\ delivered' = [delivered EXCEPT ![s] = sent[s]]
  /\ UNCHANGED <<sent, resolved>>

Acknowledge(s) ==
  /\ delivered[s] # None
  /\ resolved[s] = "pending"
  /\ resolved' = [resolved EXCEPT ![s] = "acknowledged"]
  /\ UNCHANGED <<sent, delivered>>

TimeOut(s) ==
  /\ sent[s] # None
  /\ delivered[s] = None
  /\ resolved[s] = "pending"
  /\ resolved' = [resolved EXCEPT ![s] = "timedOut"]
  /\ UNCHANGED <<sent, delivered>>

Next ==
  \E s \in Sequences :
    \/ \E content \in Contents : Send(s, content)
    \/ Deliver(s)
    \/ Acknowledge(s)
    \/ TimeOut(s)

Spec == Init /\ [][Next]_deliveryVars
=============================================================================
