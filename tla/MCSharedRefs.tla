---------------------------- MODULE MCSharedRefs ----------------------------
(* Instance of SharedRefs for TLC.                                         *)
EXTENDS SharedRefs
=============================================================================
