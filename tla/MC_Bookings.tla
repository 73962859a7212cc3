---------------------------- MODULE MC_Bookings ----------------------------
(***************************************************************************)
(* Small instances of Bookings for TLC.                                    *)
(***************************************************************************)
EXTENDS Bookings, TLC

\* Handlers are interchangeable.
Symmetry == Permutations(Handlers)
=============================================================================
