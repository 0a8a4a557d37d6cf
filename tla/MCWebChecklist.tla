--------------------------- MODULE MCWebChecklist ---------------------------
(* Instance of WebChecklist for TLC.                                       *)
EXTENDS WebChecklist
=============================================================================
