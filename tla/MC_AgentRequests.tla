-------------------------- MODULE MC_AgentRequests --------------------------
(* A hub and a peer it manages agents of.                                  *)
EXTENDS AgentRequests

CONSTANTS hub, peer, r1, r2, a1, c1, c2, c3

TwoHarnesses == {hub, peer}
HubPulls     == {<<hub, peer>>}
AtPeer       == [r \in Requests |-> peer]
OneAgent     == [r \in Requests |-> a1]
OwnTexts     == [r \in Requests |-> r]
CallsAt      == [c \in Calls |-> IF c = c3 THEN peer ELSE hub]
SomeFaults   == {<<hub, "kill">>, <<hub, "gate">>, <<peer, "optin">>}

PeerDismisses == [c \in Calls |-> IF c = c3 THEN {"dismiss"} ELSE {"approve", "dismiss", "drive"}]
Anything      == [c \in Calls |-> {"approve", "dismiss", "drive"}]
=============================================================================
