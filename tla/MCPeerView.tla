----------------------------- MODULE MCPeerView -----------------------------
(***************************************************************************)
(* Instances of PeerView for TLC: the clients are interchangeable.         *)
(***************************************************************************)
EXTENDS PeerView, TLC

Symmetric == Permutations(Client)
=============================================================================
