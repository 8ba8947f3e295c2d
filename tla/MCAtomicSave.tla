------------------------------ MODULE MCAtomicSave -----------------------------
(* Small instances of AtomicSave for TLC. *)
EXTENDS AtomicSave, TLC
===============================================================================
