---------------------------- MODULE MCSubscriptions ----------------------------
(* Subscriptions for TLC: the clients are interchangeable. *)
EXTENDS Subscriptions, TLC

ClientSymmetry == Permutations(Clients)
=============================================================================
