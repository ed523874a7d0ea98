---------------------------- MODULE MCMapClients ----------------------------
(* Two workers, one mapping of two keys. *)
EXTENDS MapClients, TLC

CONSTANTS w1, w2, n1, k1, k2

MCSymmetry == Permutations(Workers) \cup Permutations(Keys)
=============================================================================
