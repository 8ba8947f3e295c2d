----------------------------- MODULE MCUndoHistory ------------------------------
(* Model checking of UndoHistory: the constants are given in the .cfg files. *)
EXTENDS UndoHistory
================================================================================
