---- MODULE MC_Partners ----
EXTENDS Partners, TLC
Sym == Permutations(Handlers) \cup Permutations(Ports) \cup Permutations(Tariffs)
====
