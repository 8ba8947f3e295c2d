------------------------------- MODULE MCCadBatch -----------------------------
(* Small instances of CadBatch for TLC. *)
EXTENDS CadBatch, TLC
===============================================================================
