---------------------------- MODULE MCRevisionLineage -------------------------
(* Small instances of RevisionLineage for TLC. *)
EXTENDS RevisionLineage, TLC

CONSTANTS p1, p2, f1

\* The files differ only in their names.
Symmetry == Permutations(Paths)
===============================================================================
