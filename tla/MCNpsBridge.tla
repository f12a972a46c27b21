---------------------------- MODULE MCNpsBridge -----------------------------
(* NpsBridge for TLC: the network may cut or refuse one connection.        *)
EXTENDS NpsBridge

MCCut == {<<2, "chan">>}
=============================================================================
