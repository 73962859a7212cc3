---------------------------- MODULE MC_Listings ----------------------------
(* Listings with interchangeable handlers and photos. *)
EXTENDS Listings, TLC

Interchangeable == Permutations(Handlers) \cup Permutations(Photos)
=============================================================================
