-------------------------- MODULE MCEvidenceRunner --------------------------
(***************************************************************************)
(* Two tools, so that one follows another, and two TERMs, so that one can  *)
(* arrive while the first is being answered.                               *)
(***************************************************************************)
EXTENDS EvidenceRunner
=============================================================================
