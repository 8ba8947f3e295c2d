----------------------------- MODULE MCDrawingRefine ---------------------------
(* Small instances of DrawingRefine for TLC. *)
EXTENDS DrawingRefine, TLC
===============================================================================
