---------------------------- MODULE MC_Commerce ----------------------------
(***************************************************************************)
(* Small instances of Commerce for TLC.                                    *)
(***************************************************************************)
EXTENDS Commerce, TLC

\* Handlers and payment rows are interchangeable; sound for safety only.
Symmetry == Permutations(Handlers) \cup Permutations(Payments)
=============================================================================
