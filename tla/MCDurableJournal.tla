---------------------------- MODULE MCDurableJournal --------------------------
(* Small instances of DurableJournal for TLC. *)
EXTENDS DurableJournal, TLC

CONSTANTS s1, s2, s3, x, y, read, write, tool

\* Processes differ only in when they start, and ids only in their names.
Symmetry == Permutations(Servers) \cup Permutations(Ids)
===============================================================================
