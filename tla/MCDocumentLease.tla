----------------------------- MODULE MCDocumentLease --------------------------
(* Small instances of DocumentLease for TLC. *)
EXTENDS DocumentLease, TLC

CONSTANTS doc1, doc2
===============================================================================
