---------------------------- MODULE MCOrderPlant ----------------------------
(* OrderPlant for TLC: sessions are interchangeable, and so are call slots. *)
EXTENDS OrderPlant, TLC

OrderSymmetry == Permutations(Clients) \cup Permutations(Calls)
=============================================================================
