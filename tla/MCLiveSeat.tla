------------------------------- MODULE MCLiveSeat -------------------------------
(* Model checking of LiveSeat: the constants are given in the .cfg files. *)
EXTENDS LiveSeat, TLC

Symmetry == Permutations(Docs) \cup Permutations(Calls)
================================================================================
