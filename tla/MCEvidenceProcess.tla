------------------------- MODULE MCEvidenceProcess -------------------------
(***************************************************************************)
(* EvidenceProcess as TLC runs it; its constants are set in the .cfg files.*)
(***************************************************************************)
EXTENDS EvidenceProcess
=============================================================================
