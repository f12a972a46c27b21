---------------------------- MODULE MCHolePunch -----------------------------
(***************************************************************************)
(* Instances of HolePunch for TLC: the clients are interchangeable.        *)
(***************************************************************************)
EXTENDS HolePunch, TLC

Symmetric == Permutations(Client)
=============================================================================
