---------------------------- MODULE MCDiscovery ----------------------------
(* Instances of Discovery for TLC. *)
EXTENDS DiscoveryInv

CONSTANTS me, p, q

\* The premises of the theorems in DiscoveryProofs hold in the instances.
ASSUME Premises == Paced /\ OneSelf

\* A peer, and the listener's own announcements.
PeerAndSelf == {me, p}
OwnAddress == [b \in Broadcasters |-> b]

\* Two peers that share an address.
TwoPeers == {p, q}
OneAddress == [b \in Broadcasters |-> p]

=============================================================================
